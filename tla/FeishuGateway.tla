---------------------------- MODULE FeishuGateway -----------------------------
(* One Feishu chat of the gateway: its messages reach handleFeishuMessageEvent *)
(* of integrations/feishu-app.ts, some of them twice, and their handlers run   *)
(* concurrently, one await after the other. The session a text is submitted to *)
(* is external: it prints the lines and opens the permission requests that     *)
(* session/metaclaw-session.ts does. A Task has the name of its message.       *)
EXTENDS Integers, Sequences, FiniteSets, SequencesExt

CONSTANTS Messages,
          Mixes,        \* [kinds |-> text, file or verdict of each message, auto |-> BOOLEAN]
          Redelivered   \* the messages that Feishu delivers twice

VARIABLES kind,        \* of each message
          auto,        \* the configuration approves publications by itself
          session,     \* of the registry: none, starting or ready
          seen,        \* seenMessageIds
          handler,     \* of each delivery of a message
          resources,   \* pendingResourcesByChatId of the chat
          output,      \* lines of the session: whose Task, and what they say
          answering,   \* what the session does for each message
          promotions,  \* pending repository promotions, the oldest first
          submitted,   \* how often each message was submitted
          carried,     \* the files each submission named
          received,    \* files that were downloaded
          overlapped   \* files received while a text was being submitted, and
                       \* texts submitted while another one was
                       \* submitted or planned

ASSUME ChatAssumption ==
    /\ Redelivered \subseteq Messages
    /\ \A mix \in Mixes : /\ mix.kinds \in [Messages -> {"text", "file", "verdict"}]
                          /\ mix.auto \in BOOLEAN

chat == << kind, auto, session, seen, handler, resources, output, answering, promotions,
           submitted, carried, received, overlapped >>

Deliveries == (Messages \X {1}) \cup (Redelivered \X {2})
NoTask == "no task"
NotSubmitted == -1   \* submitted nothing
Unreceived == [state |-> "none", before |-> NotSubmitted, target |-> NoTask]
Served == [Unreceived EXCEPT !.state = "ended"]
TextMessages == {m \in Messages : kind[m] = "text"}
Files == {m \in Messages : kind[m] = "file"}
Goes(d, state) == [handler EXCEPT ![d] =
    IF state = "ended" THEN Served ELSE [handler[d] EXCEPT !.state = state]]
PromotionOf(t) == \E i \in DOMAIN promotions : promotions[i] = t
WithoutPromotion(t) ==
    RemoveAt(promotions, CHOOSE i \in DOMAIN promotions : promotions[i] = t)
-------------------------------------------------------------------------------
(* The event arrives. The first one of a chat makes its session and waits for  *)
(* it; a later one finds it in the map, initialized or not.                    *)
Receive(d) ==
    /\ handler[d].state = "none"
    /\ d[2] = 2 => handler[<<d[1], 1>>].state # "none"
    /\ session' = IF session = "none" THEN "starting" ELSE session
    /\ handler' = Goes(d, IF session = "none" THEN "initializing" ELSE "resolving")
    /\ UNCHANGED << kind, auto, seen, resources, output, answering, promotions, submitted,
                    carried, received, overlapped >>

(* waitForInitialization.                                                      *)
Initialized ==
    /\ session = "starting" /\ session' = "ready"
    /\ handler' = [d \in Deliveries |-> IF handler[d].state = "initializing"
                                        THEN [handler[d] EXCEPT !.state = "resolving"]
                                        ELSE handler[d]]
    /\ UNCHANGED << kind, auto, seen, resources, output, answering, promotions, submitted,
                    carried, received, overlapped >>

(* What an admitted message is about to await.                                 *)
Course(m) ==
    CASE kind[m] = "verdict" ->
           IF promotions = << >> THEN "ended" ELSE "resolving permission"
      [] kind[m] = "text" /\ promotions # << >> ->
           IF auto THEN "completing" ELSE "ended"
      [] kind[m] = "text" /\ promotions = << >> -> "reacting"
      [] kind[m] = "file" -> "downloading"

(* Faulty: the message is not remembered.                                      *)
MarkedNever(m) == seen

Remembered(m) == seen \cup {m}

(* From the answer of the registry to the next await: the message is dropped   *)
(* when it was seen or its sender may not use the gateway. Commands and prompts *)
(* are about the newest promotion.                                             *)
AdmitMessage(d, allowed) ==
    LET m == d[1] IN
    /\ handler[d].state = "resolving"
    /\ IF m \in seen
       THEN handler' = Goes(d, "ended") /\ UNCHANGED seen
       ELSE /\ seen' = Remembered(m)
            /\ handler' = IF allowed
                          THEN [Goes(d, Course(m)) EXCEPT ![d].target =
                                  IF promotions # << >> /\ m \notin Files
                                  THEN promotions[Len(promotions)] ELSE NoTask]
                          ELSE Goes(d, "ended")
    /\ UNCHANGED << kind, auto, session, resources, output, answering, promotions, submitted, carried,
                    received, overlapped >>
-------------------------------------------------------------------------------
(* Attachments.                                                                *)

Submitting == {d[1] : d \in {e \in Deliveries : handler[e].state = "waiting"}}

(* downloadAndQueueFeishuResources: the file waits for the next text.          *)
Download(d) ==
    LET m == d[1] IN
    /\ handler[d].state = "downloading"
    /\ resources' = resources \cup {m}
    /\ received' = received \cup {m}
    /\ overlapped' = IF Submitting # {} THEN overlapped \cup {m} ELSE overlapped
    /\ handler' = Goes(d, "ended")
    /\ UNCHANGED << kind, auto, session, seen, output, answering, promotions, submitted, carried >>

DownloadFails(d) ==
    /\ handler[d].state = "downloading" /\ handler' = Goes(d, "ended")
    /\ UNCHANGED << kind, auto, session, seen, resources, output, answering, promotions, submitted,
                    carried, received, overlapped >>
-------------------------------------------------------------------------------
(* A text.                                                                     *)

(* Faulty: the handler reads the lines from the first one.                     *)
FromTheStart == 0

OutputLength == Len(output)

Planning == {m \in TextMessages : answering[m] = "planning"}

(* The reaction was added, or not: the handler notes how far the session's     *)
(* output is, submits the text with the waiting files and awaits lines.        *)
SubmitText(d) ==
    LET m == d[1] IN
    /\ handler[d].state = "reacting"
    /\ handler' = [Goes(d, "waiting") EXCEPT ![d].before = OutputLength]
    /\ submitted' = [submitted EXCEPT ![m] = @ + 1]
    /\ carried' = [carried EXCEPT ![m] = resources]
    /\ answering' = [answering EXCEPT ![m] = "planning"]
    /\ overlapped' = IF Submitting \cup Planning = {} THEN overlapped
                     ELSE overlapped \cup {m} \cup Submitting
    /\ UNCHANGED << kind, auto, session, seen, resources, output, promotions, received >>

(* extractFeishuReplyTargetTaskId: the first Task named since.                 *)
NewLines(d) == SubSeq(output, handler[d].before + 1, Len(output))
Target(d) ==
    LET L == NewLines(d)   named == {i \in DOMAIN L : L[i][2] = "created"} IN
    IF named = {} THEN NoTask ELSE L[CHOOSE i \in named : \A j \in named : i <= j][1]

Says(d, line) ==
    \E i \in DOMAIN NewLines(d) :
       /\ NewLines(d)[i][2] = line
       /\ Target(d) # NoTask => NewLines(d)[i][1] = Target(d)

SubmissionSettled(m) == answering[m] \notin {"none", "planning", "running"}

(* inspect() of waitForFeishuReplyOutputLines: a promotion of the Task ends    *)
(* the wait at once; the end of the Task, or that it is queued, once the       *)
(* submission has settled; no Task, when it has settled.                       *)
Finishes(d) ==
    \/ \E i \in DOMAIN promotions : Target(d) \in {NoTask, promotions[i]}
    \/ SubmissionSettled(d[1]) /\ (Says(d, "ended") \/ Says(d, "queued") \/ Target(d) = NoTask)

(* A submission that settled has used up the files.                            *)
ResourcesAfter(d) == IF SubmissionSettled(d[1]) THEN {} ELSE resources

(* The handler knows which Task its message became.                            *)
Answered(d, state) ==
    [handler EXCEPT ![d] = [state |-> state, before |-> 0, target |-> Target(d)]]

(* A Task that ends or waits within two hours.                                 *)
ReplyIsReady(d) ==
    /\ handler[d].state = "waiting" /\ Finishes(d)
    /\ resources' = ResourcesAfter(d)
    /\ handler' = Answered(d, IF auto /\ PromotionOf(Target(d)) THEN "completing" ELSE "replied")
    /\ UNCHANGED << kind, auto, session, seen, output, answering, promotions, submitted, carried,
                    received, overlapped >>

(* Two hours have passed.                                                      *)
TimesOut(d) ==
    /\ handler[d].state = "waiting" /\ ~Finishes(d)
    /\ answering[d[1]] # "planning"    \* the Planner has a timeout of its own
    /\ resources' = ResourcesAfter(d)
    /\ handler' = Answered(d, "replied")
    /\ UNCHANGED << kind, auto, session, seen, output, answering, promotions, submitted, carried,
                    received, overlapped >>
-------------------------------------------------------------------------------
(* Publications.                                                               *)

(* The request is resolved, by whichever handler comes first.                  *)
ResolvePermission(d, verdict) ==
    LET t == handler[d].target IN
    /\ handler[d].state = "resolving permission"
    /\ IF ~PromotionOf(t)
       THEN handler' = Goes(d, "ended") /\ UNCHANGED << promotions, answering >>
       ELSE /\ promotions' = WithoutPromotion(t)
            /\ answering' = [answering EXCEPT ![t] = IF verdict = "deny" THEN "denied" ELSE "publishing"]
            /\ handler' = Goes(d, IF verdict = "deny" THEN "ended" ELSE "awaiting result")
    /\ UNCHANGED << kind, auto, session, seen, resources, output, submitted, carried, received, overlapped >>

(* waitForFeishuExecutorResult: the result, or that a new request is open.     *)
Result(d) ==
    LET t == handler[d].target IN
    /\ handler[d].state = "awaiting result" /\ (answering[t] = "done" \/ PromotionOf(t))
    /\ handler' = Goes(d, IF answering[t] = "done" THEN "replied" ELSE "ended")
    /\ UNCHANGED << kind, auto, session, seen, resources, output, answering, promotions, submitted,
                    carried, received, overlapped >>

(* Faulty: every handler of the Task completes it.                             *)
LeadsAlways(d) == TRUE

(* The first handler of a Task completes it; the others wait for that.         *)
LeadsTask(d) == \A e \in Deliveries \ {d} :
    ~(handler[e].target = handler[d].target /\ handler[e].state = "leading")

Lead(d) ==
    /\ handler[d].state = "completing"
    /\ handler' = Goes(d, IF LeadsTask(d) THEN "leading" ELSE "following")
    /\ UNCHANGED << kind, auto, session, seen, resources, output, answering, promotions, submitted,
                    carried, received, overlapped >>

(* waitForFeishuAutoApprovedExecutorResult: every promotion of the Task.       *)
AutoApprove(d) ==
    LET t == handler[d].target IN
    /\ handler[d].state = "leading" /\ PromotionOf(t)
    /\ promotions' = WithoutPromotion(t) /\ answering' = [answering EXCEPT ![t] = "publishing"]
    /\ UNCHANGED << kind, auto, session, seen, handler, resources, output, submitted, carried,
                    received, overlapped >>

(* The leader delivers; the rest of the delivery is its own, and the           *)
(* followers' wait ends with it.                                               *)
Completed(d) ==
    LET t == handler[d].target IN
    /\ handler[d].state = "leading" /\ answering[t] = "done" /\ ~PromotionOf(t)
    /\ handler' = [e \in Deliveries |->
         IF e = d THEN [handler[e] EXCEPT !.state = "replied"]
         ELSE IF handler[e].state = "following" /\ handler[e].target = t
         THEN Served ELSE handler[e]]
    /\ UNCHANGED << kind, auto, session, seen, resources, output, answering, promotions, submitted,
                    carried, received, overlapped >>
-------------------------------------------------------------------------------
(* The session.                                                                *)
Prints(m, line) == output' = Append(output, << m, line >>)

(* The Planner answers, or a Task is created, and queued behind another one.   *)
Plan(m, outcome) ==
    /\ session = "ready" /\ answering[m] = "planning"
    /\ answering' = [answering EXCEPT ![m] = outcome]
    /\ output' = output \o (CASE outcome = "answered" -> << <<m, "answer">> >>
                              [] outcome = "running" -> << <<m, "created">> >>
                              [] outcome = "queued" -> << <<m, "created">>, <<m, "queued">> >>)
    /\ UNCHANGED << kind, auto, session, seen, handler, resources, promotions, submitted,
                    carried, received, overlapped >>

(* The Task runs: it ends, asks to be published, or stops for its user.        *)
RunTask(m, outcome) ==
    /\ answering[m] \in {"running", "queued", "publishing"}
    /\ outcome = "blocked" => answering[m] = "running"
    /\ answering' = [answering EXCEPT ![m] = outcome]
    /\ promotions' = IF outcome = "parked" THEN Append(promotions, m) ELSE promotions
    /\ IF outcome = "done" THEN Prints(m, "ended") ELSE UNCHANGED output
    /\ UNCHANGED << kind, auto, session, seen, handler, resources, submitted, carried, received, overlapped >>
-------------------------------------------------------------------------------
InitChat ==
    /\ \E mix \in Mixes : kind = mix.kinds /\ auto = mix.auto
    /\ session = "none" /\ seen = {}
    /\ handler = [d \in Deliveries |-> Unreceived]
    /\ resources = {} /\ output = << >> /\ promotions = << >>
    /\ received = {} /\ overlapped = {}
    /\ answering = [m \in Messages |-> "none"]
    /\ submitted = [m \in Messages |-> 0] /\ carried = [m \in Messages |-> {}]

Handle(d) ==
    \/ Receive(d) \/ Download(d) \/ DownloadFails(d) \/ SubmitText(d)
    \/ ReplyIsReady(d) \/ TimesOut(d) \/ Result(d) \/ Lead(d)
    \/ AutoApprove(d) \/ Completed(d)
    \/ \E allowed \in BOOLEAN : AdmitMessage(d, allowed)
    \/ \E verdict \in {"approve", "deny"} : ResolvePermission(d, verdict)

NextChat ==
    \/ Initialized
    \/ \E d \in Deliveries : Handle(d)
    \/ \E m \in TextMessages :
         \/ \E outcome \in {"answered", "running", "queued"} : Plan(m, outcome)
         \/ \E outcome \in {"done", "parked", "blocked"} : RunTask(m, outcome)

ChatSpec == InitChat /\ [][NextChat]_chat
-------------------------------------------------------------------------------
(* A message is submitted once, however often it is delivered.                 *)
SubmittedOnce == \A m \in Messages : submitted[m] <= 1

(* A file that was received waits for a text or was named by one, unless a     *)
(* text was being submitted when it came.                                      *)
FilesAreKept == \A f \in received :
    f \in resources \/ f \in overlapped \/ \E m \in TextMessages : f \in carried[m]

(* A reply is about the Task of its message and no other, unless another text  *)
(* was submitted or planned while the message was.                             *)
OwnReply == \A d \in Deliveries :
    handler[d].before # NotSubmitted => handler[d].target \in {NoTask, d[1]} \/ d[1] \in overlapped

(* No two handlers complete the same Task.                                     *)
OneLeader == \A d, e \in Deliveries :
    handler[d].state = "leading" /\ handler[e].state = "leading"
      /\ handler[d].target = handler[e].target => d = e

(* Messages that Feishu repeats, files that arrive between texts and handlers  *)
(* that run concurrently lose, repeat or mix up nothing in the chat            *)
(* (tests/integrations/feishu-app.test.ts:1080, 1240 and 2955).          *)
ChatIsServed == SubmittedOnce /\ FilesAreKept /\ OwnReply /\ OneLeader
===============================================================================
