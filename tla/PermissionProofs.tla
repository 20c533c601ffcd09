--------------------------- MODULE PermissionProofs ---------------------------
(***************************************************************************)
(* Permission, for any number of attempts, requests, concurrent calls and  *)
(* faults: no grant without a rule or an approval, no denial undone; and,  *)
(* as long as no process dies and no application fails, every approval is  *)
(* for its own candidate and no sandbox is left paused.                    *)
(***************************************************************************)
EXTENDS Permission, FiniteSetTheorems, WellFoundedInduction, TLAPS

(***************************************************************************)
(* The queue of events and applications                                    *)
(***************************************************************************)
LEMMA LeastOf ==
  ASSUME NEW S \in SUBSET Nat, S # {}
  PROVE  \E m \in S : \A n \in S : m <= n
  <1> DEFINE R == OpToRel(<, Nat)
  <1>1. IsWellFoundedOn(R, Nat)
    BY NatLessThanWellFounded
  <1>2. PICK m \in S : \A n \in S : << n, m >> \notin R
    BY <1>1, WFMin
  <1>3. \A n \in S : ~(n < m)
    BY <1>2 DEF OpToRel
  <1> QED BY <1>3

(* A drain decides an event, applies what was decided, or returns. *)
LEMMA DrainsIs ==
  ASSUME NEW f, Drains(f)
  PROVE  \/ \E e \in Events : \/ Issue(f, e) \/ StartGrant(f, e) \/ StartDeny(f, e)
                             \/ StartEscalate(f, e) \/ StartRecover(f, e) \/ RecoverRefused(f, e)
         \/ ApplyEnds(f) \/ ApplyFails(f)
         \/ AskReturns(f) \/ PromotionReturns(f) \/ DenialReturns(f) \/ RecoverReturns(f)
  <1>1. Recoverable \subseteq Events /\ Claimable \subseteq Events
    BY DEF Recoverable, Claimable, Oldest
  <1> QED BY <1>1 DEF Drains

(* The oldest of a set is one of it, and there is one unless none waits. *)
LEMMA OldestIs ==
  ASSUME order \in Seq(Events), NEW S
  PROVE  /\ Oldest(S) \subseteq S \cap Queued
         /\ Oldest(S) = {} => S \cap Queued = {}
  <1>1. Oldest(S) \subseteq S \cap Queued
    BY DEF Oldest, Queued
  <1>2. ASSUME NEW e \in S \cap Queued PROVE Oldest(S) # {}
    <2> DEFINE I == {i \in DOMAIN order : order[i] \in S}
    <2>1. I \in SUBSET Nat /\ I # {}
      BY <1>2 DEF Queued
    <2> HIDE DEF I
    <2>2. PICK m \in I : \A n \in I : m <= n
      BY <2>1, LeastOf
    <2>3. m \in DOMAIN order /\ order[m] \in S
      BY <2>2 DEF I
    <2>4. \A k \in 1 .. m - 1 : order[k] \notin S
      <3> SUFFICES ASSUME NEW k \in 1 .. m - 1, order[k] \in S PROVE FALSE
        OBVIOUS
      <3>1. k \in DOMAIN order /\ k < m
        BY <2>3
      <3> QED BY <2>2, <3>1 DEF I
    <2> QED BY <2>3, <2>4 DEF Oldest
  <1> QED BY <1>1, <1>2

LEMMA LastQueued ==
  ASSUME order \in Seq(Events), NEW e \in Events, order' = Last(e)
  PROVE  order' \in Seq(Events) /\ Queued' = Queued \cup {e}
  <1>1. CASE e \in Queued
    BY <1>1 DEF Last, Queued
  <1>2. CASE e \notin Queued
    <2>1. order' = Append(order, e)
      BY <1>2 DEF Last
    <2>2. /\ order' \in Seq(Events) /\ DOMAIN order' = 1 .. Len(order) + 1
          /\ \A i \in DOMAIN order : order'[i] = order[i]
          /\ order'[Len(order) + 1] = e /\ DOMAIN order = 1 .. Len(order)
      BY <2>1
    <2> QED BY <2>2 DEF Queued
  <1> QED BY <1>1, <1>2

LEMMA WithoutQueued ==
  ASSUME order \in Seq(Events), NEW e, order' = Without(e)
  PROVE  order' \in Seq(Events) /\ Queued \ {e} \subseteq Queued' /\ Queued' \subseteq Queued
  <1>1. CASE e \notin Queued
    BY <1>1 DEF Without, Queued
  <1>2. CASE e \in Queued
    <2> DEFINE at == CHOOSE i \in DOMAIN order : order[i] = e
    <2>1. at \in DOMAIN order /\ order[at] = e
      BY <1>2 DEF Queued
    <2>2. order' = [i \in 1 .. Len(order) - 1 |-> IF i < at THEN order[i] ELSE order[i + 1]]
      BY <1>2 DEF Without
    <2> HIDE DEF at
    <2>3. Len(order) \in Nat /\ DOMAIN order = 1 .. Len(order) /\ at \in 1 .. Len(order)
          /\ \A i \in 1 .. Len(order) : order[i] \in Events
      BY <2>1
    <2>4. order' \in Seq(Events) /\ DOMAIN order' = 1 .. Len(order) - 1
      BY <2>2, <2>3
    <2>5. ASSUME NEW j \in 1 .. Len(order), order[j] # e
          PROVE  \E i \in DOMAIN order' : order'[i] = order[j]
      <3>1. CASE j < at
        BY <2>2, <2>3, <2>4, <3>1
      <3>2. CASE j > at
        <4>1. PICK i \in 1 .. Len(order) - 1 : j = i + 1 /\ ~(i < at)
          BY <2>3, <3>2
        <4>2. order'[i] = order[j]
          BY <2>2, <4>1
        <4> QED BY <2>4, <4>1, <4>2
      <3> QED BY <2>1, <2>3, <2>5, <3>1, <3>2
    <2>6. \A i \in DOMAIN order' : \E j \in 1 .. Len(order) : order'[i] = order[j]
      BY <2>2, <2>3, <2>4
    <2>7. Queued \ {e} \subseteq Queued'
      BY <2>3, <2>5 DEF Queued
    <2>8. Queued' \subseteq Queued
      BY <2>3, <2>6 DEF Queued
    <2> QED BY <2>4, <2>7, <2>8
  <1> QED BY <1>1, <1>2

(***************************************************************************)
(* The invariant of every behaviour                                        *)
(***************************************************************************)
FlowTypes ==
    [phase : {"idle"}] \cup [phase : {"checkpoint"}, request : Requests \ Promotions]
    \cup [phase : {"sync", "broken"}, kind : CallKind, request : Requests]
    \cup [phase : {"applying"}, event : Events, kind : CallKind, request : Requests]
Applications == [action : Action \cup {"none"},
                 application : {"none", "pending", "applying", "applied", "uncertain"}]
Sandboxes == {"none", "running", "paused", "stopped"}

Typed ==
    /\ TypeOK
    /\ actions \in [Events -> Applications]
    /\ order \in Seq(Events)
    /\ sandbox \in [Attempts -> Sandboxes]
    /\ flows \in [Flows -> FlowTypes]
    /\ expired \in Nat /\ failures \in Nat /\ crashes \in Nat

(* What is decided rests on a rule or an approval, and what is granted too.   *)
Justified(r) == Rule[r] # "deny" /\ (Rule[r] = "allow" \/ Approved(r))
Justifications ==
    /\ \A e \in Events : actions[e].action = "grant" => Justified(RequestOf(e))
    /\ \A r \in Requests : status[r] = "granted" => r \in grants
    /\ GrantIsAuthorized

(* An event other than a review presented again is decided once, and its      *)
(* application, while it is not over, has its place in the queue and at most  *)
(* one flow that applies it.                                                  *)
Once(e) == Kind(e) # "represented"
Ledger ==
    /\ \A e \in Events : actions[e].action = "none" <=> actions[e].application = "none"
    /\ \A e \in Events : Once(e) => (actions[e].action = "none" <=> events[e] # "decided")
    /\ \A e \in Events :
         Once(e) /\ actions[e].application \in {"pending", "applying", "uncertain"} => e \in Queued
    /\ \A f \in Flows : flows[f].phase = "applying" => actions[flows[f].event].action # "none"
    /\ \A f \in Flows :
         flows[f].phase = "applying" /\ Once(flows[f].event)
           => actions[flows[f].event].application = "applying"
    /\ \A f, g \in Flows :
         flows[f].phase = "applying" /\ flows[g].phase = "applying" /\ flows[f].event = flows[g].event
           /\ Once(flows[f].event) => f = g

(* Which decision an event may get, and that an escalation comes first of all *)
(* that can be done with an escalated request.                                *)
Open == {"pending", "escalated"}
Requested(r) == << "requested", r >>
Represented(r) == << "represented", r >>
Decisions ==
    /\ \A e \in Events : actions[e].action = "escalate" => Kind(e) \in {"requested", "represented"}
    /\ \A e \in Events : actions[e].action = "recover" => Kind(e) = "approve"
    /\ \A r \in Requests :
         \/ status[r] = "escalated" \/ events[Represented(r)] # "absent"
         \/ actions[Represented(r)].action # "none"
         => actions[Requested(r)].action = "escalate"

(* A grant or denial that has begun to be applied is the request's status, and *)
(* one that has not is the only one decided for an open request.               *)
Final == [grant |-> "granted", deny |-> "denied"]
Settling == {"grant", "deny"}
Unstarted(e) ==
    /\ actions[e].application = "pending" /\ Once(e) /\ status[RequestOf(e)] \in Open
    /\ actions[e].action = "grant" => Kind(e) = "requested"
Finals ==
    /\ \A e \in Events : actions[e].action \in Settling =>
         status[RequestOf(e)] = Final[actions[e].action] \/ Unstarted(e)
    /\ \A e, d \in Events :
         actions[e].action \in Settling /\ actions[d].action \in Settling
           /\ RequestOf(e) = RequestOf(d) /\ status[RequestOf(e)] \in Open => e = d

(* There is no event of a request that was never made.                        *)
Asked ==
    /\ \A e \in Events : events[e] # "absent" => status[RequestOf(e)] # "none"
    /\ \A f \in Flows : flows[f].phase = "checkpoint" => status[flows[f].request] # "none"

Inv == Typed /\ Asked /\ Justifications /\ Ledger /\ Decisions /\ Finals

(***************************************************************************)
(* And of one in which no process has died and no application has failed   *)
(***************************************************************************)
Calm == failures + crashes = 0

KindOf == [requested |-> {"tool", "promotion"}, approve |-> {"approve"}, deny |-> {"deny"},
           represented |-> {"represent"}]
Owns(f, e) == flows[f].request = RequestOf(e) /\ flows[f].kind \in KindOf[Kind(e)]
Due(e) == events[e] = "pending" \/ actions[e].application = "pending"

(* What is due is due in the synchronous stretch of the call it came with.    *)
OwnWork ==
    /\ startup = {}
    /\ \A e \in Events : actions[e].application # "uncertain"
    /\ \A f \in Flows : flows[f].phase # "broken"
    /\ \A f \in Flows : flows[f].phase \in {"sync", "applying"} => flows[f].kind # "recover"
    /\ \A f, g \in Flows : flows[f].phase = "sync" /\ flows[g].phase = "sync" => f = g
    /\ \A e \in Events : Due(e) => e \in Queued /\ \E f \in Flows : flows[f].phase = "sync" /\ Owns(f, e)
    /\ \A f \in Flows : flows[f].phase = "applying" => Owns(f, flows[f].event)
    /\ \A e \in Events : events[e] = "pending" => actions[e].application # "pending"

(* The life of a request: open while a review of it waits, which is then      *)
(* decided as it asks.                                                        *)
Lives ==
    /\ \A f \in Flows :
         flows[f].phase \in {"sync", "applying"} => status[flows[f].request] # "none"
    /\ \A r \in Requests : actions[Requested(r)].action = "escalate"
         /\ actions[Requested(r)].application # "pending" => status[r] \notin {"none", "pending"}
    /\ \A k \in {"approve", "deny"}, r \in Requests :
         events[<< k, r >>] = "pending" => status[r] \in Open
    /\ \A r \in Requests : /\ actions[<< "approve", r >>].action \in {"none", "recover"}
                           /\ actions[<< "deny", r >>].action \in {"none", "deny"}

(* The call of a promotion has its request for itself until it has landed.    *)
Working(f) == flows[f].phase \in {"sync", "applying"}
LandsAlone ==
    \A f \in Flows : Working(f) /\ flows[f].kind = "promotion" =>
      /\ flows[f].request \in Promotions
      /\ published[flows[f].request] = "none"
      /\ \A g \in Flows \ {f} : Working(g) => flows[g].request # flows[f].request

(* A publication waits for approval until its approval is applied.            *)
Approval(p) == << "approve", p >>
Publishing ==
    /\ \A p \in Promotions : published[p] = "none" => events[Approval(p)] = "absent"
    /\ \A p \in Promotions : status[p] = "none" => published[p] = "none"
    /\ \A p \in Promotions : Due(Approval(p)) => published[p] = "awaiting_approval"
    /\ \A p \in Promotions :
         actions[Approval(p)].action = "recover"
           /\ actions[Approval(p)].application \in {"applying", "applied"}
           => published[p] # "awaiting_approval"
    /\ \A p \in Promotions :
         published[p] = "pending" => p \in authorized /\ events[Approval(p)] # "absent"
    /\ \A p \in Promotions : published[p] = "denied" => status[p] = "denied"

(* A denial that is under way denies its request before it returns.           *)
Denies ==
    \A f \in Flows : Working(f) /\ flows[f].kind = "deny" =>
      status[flows[f].request] = "denied" \/ Due(<< "deny", flows[f].request >>)

(* The call that paused a sandbox, and will resume or stop it.                *)
Deciding(f, a) ==
    \/ /\ flows[f].phase = "checkpoint" /\ AttemptOf[flows[f].request] = a
       /\ events[Requested(flows[f].request)] = "absent"
    \/ /\ flows[f].phase = "sync" /\ flows[f].kind = "tool" /\ AttemptOf[flows[f].request] = a
       /\ Due(Requested(flows[f].request))
    \/ /\ flows[f].phase = "applying" /\ flows[f].kind = "tool" /\ AttemptOf[flows[f].request] = a
Pauses == \A a \in Attempts : sandbox[a] = "paused" => \E f \in Flows : Deciding(f, a)

Serene == OwnWork /\ Lives /\ LandsAlone /\ Publishing /\ Denies /\ Pauses
CalmInv == Calm => Serene

(***************************************************************************)
(* Types                                                                   *)
(***************************************************************************)
LEMMA EventParts ==
  /\ \A e \in Events : /\ Kind(e) \in {"requested", "represented", "approve", "deny"}
                       /\ RequestOf(e) \in Requests /\ e = << Kind(e), RequestOf(e) >>
  /\ \A k \in {"requested", "represented", "approve", "deny"}, r \in Requests :
       << k, r >> \in Events /\ Kind(<< k, r >>) = k /\ RequestOf(<< k, r >>) = r
  BY DEF Events, Kind, RequestOf

LEMMA FlowParts ==
  ASSUME Typed, NEW f \in Flows
  PROVE  /\ flows[f].phase \in {"idle", "checkpoint", "sync", "broken", "applying"}
         /\ flows[f].phase = "checkpoint" => flows[f].request \in Requests \ Promotions
         /\ flows[f].phase \in {"sync", "broken", "applying"} =>
              flows[f].kind \in CallKind /\ flows[f].request \in Requests
         /\ flows[f].phase = "applying" => flows[f].event \in Events
         /\ flows[f].phase = "sync" =>
              [flows[f] EXCEPT !.phase = "broken"] =
                [phase |-> "broken", kind |-> flows[f].kind, request |-> flows[f].request]
  BY DEF Typed, FlowTypes

(* A call goes to its next place. *)
LEMMA ToTyped ==
  ASSUME Typed, NEW f \in Flows, NEW flow \in FlowTypes, To(f, flow)
  PROVE  /\ flows' \in [Flows -> FlowTypes]
         /\ flows'[f] = flow /\ \A g \in Flows \ {f} : flows'[g] = flows[g]
  BY DEF To, Typed

LEMMA CallTyped ==
  ASSUME Typed, NEW f \in Flows, NEW kind \in CallKind, NEW r \in Requests, Call(f, kind, r)
  PROVE  /\ flows' \in [Flows -> FlowTypes]
         /\ flows'[f] = [phase |-> "sync", kind |-> kind, request |-> r]
         /\ \A g \in Flows \ {f} : flows'[g] = flows[g]
  BY DEF Call, To, Typed, FlowTypes

LEMMA EnqueueTyped ==
  ASSUME Typed, NEW e \in Events, Enqueue(e)
  PROVE  /\ events' \in [Events -> {"absent", "pending", "decided"}] /\ order' \in Seq(Events)
         /\ actions' = actions
         /\ \/ events' = events /\ order' = order /\ events[e] # "absent"
               /\ ~(Kind(e) = "represented" /\ events[e] = "decided")
            \/ /\ events[e] = "absent" \/ (Kind(e) = "represented" /\ events[e] = "decided")
               /\ events' = [events EXCEPT ![e] = "pending"] /\ Queued' = Queued \cup {e}
  <1>1. CASE events[e] = "absent" \/ (Kind(e) = "represented" /\ events[e] = "decided")
    <2>1. events' = [events EXCEPT ![e] = "pending"] /\ order' = Last(e) /\ actions' = actions
      BY <1>1 DEF Enqueue
    <2>2. order' \in Seq(Events) /\ Queued' = Queued \cup {e}
      BY <2>1, LastQueued DEF Typed
    <2> QED BY <1>1, <2>1, <2>2 DEF Typed, TypeOK
  <1>2. CASE ~(events[e] = "absent" \/ (Kind(e) = "represented" /\ events[e] = "decided"))
    BY <1>2 DEF Enqueue, ledgerVars, Typed, TypeOK
  <1> QED BY <1>1, <1>2

LEMMA CreatedTyped ==
  ASSUME Typed, NEW r \in Requests, Created(r)
  PROVE  status' \in [Requests -> Status] /\ ordinal' \in [Requests -> Nat]
  <1> DEFINE Earlier == {p \in Requests : AttemptOf[p] = AttemptOf[r] /\ status[p] # "none"}
  <1>1. IsFiniteSet(Earlier)
    BY PermissionAssumption, FS_Subset
  <1>2. Cardinality(Earlier) \in Nat
    BY <1>1, FS_CardinalityType
  <1>3. ordinal' = [ordinal EXCEPT ![r] = IF @ = 0 THEN 1 + Cardinality(Earlier) ELSE @]
    BY DEF Created
  <1> HIDE DEF Asked
  <1> QED BY <1>2, <1>3 DEF Created, Typed, TypeOK, Status

LEMMA SandboxTyped ==
  ASSUME Typed
  PROVE  /\ \A A \in SUBSET Attempts : Stopped(A) \in [Attempts -> Sandboxes]
         /\ \A a \in Attempts : Resumed(a) \in [Attempts -> Sandboxes]
         /\ \A r \in Requests : AttemptOf[r] \in Attempts
  BY PermissionAssumption DEF Typed, Stopped, Resumed, Sandboxes

LEMMA CallStepTyped ==
  ASSUME Typed, NEW f \in Flows, Calls(f)
  PROVE  Typed'
  <1> USE DEF requestVars, ledgerVars, faults, CallKind
  <1>1. ASSUME NEW r \in Requests, AskCapability(f, r) PROVE Typed'
    <2>1. [phase |-> "checkpoint", request |-> r] \in FlowTypes
      BY <1>1 DEF AskCapability, FlowTypes
    <2>2. flows' \in [Flows -> FlowTypes]
      BY <1>1, <2>1, ToTyped DEF AskCapability
    <2>3. status' \in [Requests -> Status] /\ ordinal' \in [Requests -> Nat]
      BY <1>1, CreatedTyped DEF AskCapability
    <2>4. sandbox' \in [Attempts -> Sandboxes]
      BY <1>1, SandboxTyped DEF AskCapability, Typed, Sandboxes
    <2> QED BY <1>1, <2>2, <2>3, <2>4 DEF AskCapability, Typed, TypeOK
  <1>2. ASSUME NEW r \in Requests, AskPromotion(f, r) PROVE Typed'
    <2>1. flows' \in [Flows -> FlowTypes]
      BY <1>2, CallTyped DEF AskPromotion
    <2>2. status' \in [Requests -> Status] /\ ordinal' \in [Requests -> Nat]
      BY <1>2, CreatedTyped DEF AskPromotion
    <2>3. sandbox' \in [Attempts -> Sandboxes]
      BY <1>2, SandboxTyped DEF AskPromotion, Typed, Sandboxes
    <2>4. << "requested", r >> \in Events
      BY EventParts
    <2>5. events' \in [Events -> {"absent", "pending", "decided"}] /\ order' \in Seq(Events) /\ actions' = actions
      BY <1>2, <2>4, EnqueueTyped DEF AskPromotion
    <2> QED BY <1>2, <2>1, <2>2, <2>3, <2>5 DEF AskPromotion, Typed, TypeOK
  <1>3. ASSUME NEW r \in Requests, NEW k \in {"approve", "deny", "represented"}, NEW c \in CallKind,
               Enqueue(<< k, r >>), Call(f, c, r), UNCHANGED << requestVars, sandbox, startup, faults >>
        PROVE  Typed'
    <2>1. flows' \in [Flows -> FlowTypes]
      BY <1>3, CallTyped
    <2>2. << k, r >> \in Events
      BY EventParts
    <2>3. events' \in [Events -> {"absent", "pending", "decided"}] /\ order' \in Seq(Events) /\ actions' = actions
      BY <1>3, <2>2, EnqueueTyped
    <2> QED BY <1>3, <2>1, <2>3 DEF Typed, TypeOK
  <1>4. ASSUME NEW r \in Requests, StartupRecovers(f, r) PROVE Typed'
    <2>1. flows' \in [Flows -> FlowTypes]
      BY <1>4, CallTyped DEF StartupRecovers
    <2> QED BY <1>4, <2>1 DEF StartupRecovers, Typed, TypeOK
  <1>5. CASE CheckpointEnds(f)
    <2>1. flows[f].request \in Requests /\ << "requested", flows[f].request >> \in Events
      BY <1>5, FlowParts, EventParts DEF CheckpointEnds
    <2>2. flows' \in [Flows -> FlowTypes]
      BY <1>5, <2>1, CallTyped DEF CheckpointEnds
    <2>3. events' \in [Events -> {"absent", "pending", "decided"}] /\ order' \in Seq(Events) /\ actions' = actions
      BY <1>5, <2>1, EnqueueTyped DEF CheckpointEnds
    <2> QED BY <1>5, <2>2, <2>3 DEF CheckpointEnds, Typed, TypeOK
  <1>6. CASE CheckpointFails(f)
    <2>1. NoFlow \in FlowTypes
      BY DEF NoFlow, FlowTypes
    <2>2. flows' \in [Flows -> FlowTypes]
      BY <1>6, <2>1, ToTyped DEF CheckpointFails
    <2>3. sandbox' \in [Attempts -> Sandboxes]
      BY <1>6, SandboxTyped, FlowParts DEF CheckpointFails
    <2> QED BY <1>6, <2>2, <2>3 DEF CheckpointFails, Typed, TypeOK
  <1>7. ASSUME NEW r \in Requests, Represent(f, r) \/ \E k \in {"approve", "deny"} : Resolve(f, r, k)
        PROVE  Typed'
    BY <1>3, <1>7 DEF Represent, Resolve
  <1> QED BY <1>1, <1>2, <1>4, <1>5, <1>6, <1>7 DEF Calls

(* What is claimed and what is applied next. *)
LEMMA NextWork ==
  ASSUME Typed
  PROVE  /\ \A e \in Claimable : e \in Events /\ events[e] = "pending" /\ e \in Queued
         /\ \A e \in Recoverable : e \in Events /\ actions[e].application = "pending" /\ e \in Queued
         /\ Recoverable = {} => \A e \in Events \cap Queued : actions[e].application # "pending"
         /\ Claimable = {} => \A e \in Events \cap Queued : events[e] # "pending"
  <1>1. order \in Seq(Events)
    BY DEF Typed
  <1>2. /\ Claimable \subseteq {e \in Events : events[e] = "pending"} \cap Queued
        /\ Claimable = {} => {e \in Events : events[e] = "pending"} \cap Queued = {}
    BY <1>1, OldestIs DEF Claimable
  <1>3. /\ Recoverable \subseteq {e \in Events : actions[e].application = "pending"} \cap Queued
        /\ Recoverable = {} => {e \in Events : actions[e].application = "pending"} \cap Queued = {}
    BY <1>1, OldestIs DEF Recoverable
  <1> QED BY <1>2, <1>3

LEMMA DecidedTyped ==
  ASSUME Typed, NEW e \in Events
  PROVE  Decided(e) \in Action
  BY DEF Decided, Evaluated, Action

(* An application gets on. *)
LEMMA MarkTyped ==
  ASSUME Typed, NEW e \in Events, NEW x \in {"pending", "applying", "applied", "uncertain"},
         actions' = [actions EXCEPT ![e].application = x]
  PROVE  /\ actions' \in [Events -> Applications]
         /\ actions'[e].action = actions[e].action /\ actions'[e].application = x
         /\ \A d \in Events : /\ actions'[d].action = actions[d].action
                               /\ d # e => actions'[d] = actions[d]
  <1>1. actions' = [actions EXCEPT ![e] = [action |-> actions[e].action, application |-> x]]
    <2>1. PICK old \in Applications : old = actions[e]
      BY DEF Typed
    <2>2. [old EXCEPT !.application = x] = [action |-> old.action, application |-> x]
      BY DEF Applications
    <2> QED BY <2>1, <2>2
  <1>2. actions[e].action \in Action \cup {"none"}
    BY DEF Typed, Applications
  <1>3. [action |-> actions[e].action, application |-> x] \in Applications
    BY <1>2 DEF Applications
  <1> QED BY <1>1, <1>3 DEF Typed

(* The beginning of an application. *)
LEMMA StartsTyped ==
  ASSUME Typed, NEW f \in Flows, NEW e \in Events, NEW a \in Action, Starts(f, e, a)
  PROVE  /\ flows' \in [Flows -> FlowTypes]
         /\ flows'[f] = [phase |-> "applying", event |-> e, kind |-> flows[f].kind, request |-> flows[f].request]
         /\ \A g \in Flows \ {f} : flows'[g] = flows[g]
         /\ flows[f].phase = "sync" /\ flows[f].kind \in CallKind /\ flows[f].request \in Requests
         /\ actions' = [actions EXCEPT ![e].application = "applying"]
         /\ actions' \in [Events -> Applications]
         /\ actions[e].action = a /\ actions[e].application = "pending" /\ e \in Queued
  <1>1. flows[f].phase = "sync" /\ flows[f].kind \in CallKind /\ flows[f].request \in Requests
    BY FlowParts DEF Starts
  <1>2. [phase |-> "applying", event |-> e, kind |-> flows[f].kind, request |-> flows[f].request] \in FlowTypes
    BY <1>1 DEF FlowTypes
  <1>3. /\ flows' \in [Flows -> FlowTypes]
        /\ flows'[f] = [phase |-> "applying", event |-> e, kind |-> flows[f].kind, request |-> flows[f].request]
        /\ \A g \in Flows \ {f} : flows'[g] = flows[g]
    BY <1>2, ToTyped DEF Starts
  <1>4. actions' \in [Events -> Applications]
    BY MarkTyped DEF Starts
  <1> QED BY <1>1, <1>3, <1>4, NextWork DEF Starts

LEMMA WorkStepTyped ==
  ASSUME Typed, NEW f \in Flows, NEW e \in Events,
         \/ Issue(f, e) \/ StartGrant(f, e) \/ StartDeny(f, e) \/ StartEscalate(f, e)
         \/ StartRecover(f, e) \/ RecoverRefused(f, e)
  PROVE  Typed'
  <1> USE DEF requestVars, ledgerVars, faults, TypeOK
  <1>0. RequestOf(e) \in Requests
    BY EventParts
  <1>1. CASE Issue(f, e)
    <2>1. [action |-> Decided(e), application |-> "pending"] \in Applications
      BY DecidedTyped DEF Applications
    <2> QED BY <1>1, <2>1 DEF Issue, Typed
  <1>a. ASSUME NEW a \in Action, Starts(f, e, a), status' \in [Requests -> Status],
               published' \in [Promotions -> Published], grants' \subseteq Requests,
               authorized' \subseteq Requests, fresh' \subseteq Requests
        PROVE  Typed'
    <2>1. flows' \in [Flows -> FlowTypes] /\ actions' \in [Events -> Applications]
      BY <1>a, StartsTyped
    <2> QED BY <1>a, <2>1 DEF Starts, Typed
  <1>2. CASE StartGrant(f, e)
    <2>1. status' \in [Requests -> Status]
      BY <1>2 DEF StartGrant, Typed, Status
    <2> QED BY <1>0, <1>2, <1>a, <2>1 DEF StartGrant, Typed, Action
  <1>3. CASE StartDeny(f, e)
    <2>1. status' \in [Requests -> Status]
      BY <1>3 DEF StartDeny, Typed, Status
    <2> QED BY <1>0, <1>3, <1>a, <2>1 DEF StartDeny, Typed, Action
  <1>4. CASE StartEscalate(f, e)
    <2>1. status' \in [Requests -> Status]
      BY <1>4 DEF StartEscalate, Escalated, Typed, Status
    <2> QED BY <1>0, <1>4, <1>a, <2>1 DEF StartEscalate, Typed, Action
  <1>5. CASE StartRecover(f, e)
    <2>1. published' \in [Promotions -> Published]
      BY <1>5 DEF StartRecover, Typed, Published
    <2> QED BY <1>0, <1>5, <1>a, <2>1 DEF StartRecover, Typed, Action
  <1>6. CASE RecoverRefused(f, e)
    <2>1. flows' \in [Flows -> FlowTypes]
      <3>1. flows[f].phase = "sync"
        BY <1>6 DEF RecoverRefused
      <3>2. [flows[f] EXCEPT !.phase = "broken"] =
              [phase |-> "broken", kind |-> flows[f].kind, request |-> flows[f].request]
            /\ flows[f].kind \in CallKind /\ flows[f].request \in Requests
        BY <3>1, FlowParts
      <3>3. [flows[f] EXCEPT !.phase = "broken"] \in FlowTypes
        BY <3>2 DEF FlowTypes
      <3> QED BY <1>6, <3>3, ToTyped DEF RecoverRefused
    <2>2. actions' \in [Events -> Applications]
      BY <1>6, MarkTyped DEF RecoverRefused
    <2> QED BY <1>0, <1>6, <2>1, <2>2 DEF RecoverRefused, Typed
  <1> QED BY <1>1, <1>2, <1>3, <1>4, <1>5, <1>6

LEMMA ReturnStepTyped ==
  ASSUME Typed, NEW f \in Flows,
         \/ ApplyEnds(f) \/ ApplyFails(f) \/ AskReturns(f) \/ PromotionReturns(f) \/ DenialReturns(f)
         \/ RecoverReturns(f)
  PROVE  Typed'
  <1> USE FlowParts, EventParts DEF requestVars, ledgerVars, faults, TypeOK
  <1>0. NoFlow \in FlowTypes
    BY DEF NoFlow, FlowTypes
  <1>1. CASE ApplyEnds(f)
    <2>1. flows' \in [Flows -> FlowTypes]
      BY <1>1, CallTyped DEF ApplyEnds
    <2>2. actions' \in [Events -> Applications]
      BY <1>1, MarkTyped DEF ApplyEnds
    <2>3. order' \in Seq(Events)
      BY <1>1, WithoutQueued DEF ApplyEnds, Typed
    <2>4. sandbox' \in [Attempts -> Sandboxes]
      <3>1. PICK a \in Attempts : a = AttemptOf[flows[f].request]
        BY <1>1, SandboxTyped DEF ApplyEnds
      <3>2. Resumed(a) \in [Attempts -> Sandboxes] /\ Stopped({a}) \in [Attempts -> Sandboxes]
            /\ sandbox \in [Attempts -> Sandboxes]
        BY SandboxTyped DEF Typed
      <3>3. sandbox' \in {Resumed(a), Stopped({a}), sandbox}
        BY <1>1, <3>1 DEF ApplyEnds
      <3> QED BY <3>2, <3>3
    <2> QED BY <1>1, <2>1, <2>2, <2>3, <2>4 DEF ApplyEnds, Typed
  <1>2. CASE ApplyFails(f)
    <2>1. flows' \in [Flows -> FlowTypes]
      <3>1. [phase |-> "broken", kind |-> flows[f].kind, request |-> flows[f].request] \in FlowTypes
        BY <1>2 DEF ApplyFails, FlowTypes
      <3> QED BY <1>2, <3>1, ToTyped DEF ApplyFails
    <2>2. actions' \in [Events -> Applications]
      BY <1>2, MarkTyped DEF ApplyFails
    <2> QED BY <1>2, <2>1, <2>2 DEF ApplyFails, Typed
  <1>3. Returned(f) => flows' \in [Flows -> FlowTypes] /\ startup' \subseteq Promotions
    BY <1>0, ToTyped DEF Returned, Typed
  <1>4. CASE AskReturns(f)
    BY <1>3, <1>4 DEF AskReturns, Typed
  <1>5. CASE PromotionReturns(f)
    <2>1. status' \in [Requests -> Status] /\ published' \in [Promotions -> Published]
      <3>1. PICK r \in Requests : r = flows[f].request
        BY <1>5 DEF PromotionReturns, Returns, Drained
      <3>2. \/ /\ status' = status
               /\ published' = [published EXCEPT ![r] = "awaiting_approval"]
            \/ /\ status' = [status EXCEPT ![r] = IF @ = "escalated" THEN "denied" ELSE @]
               /\ published' = published
        BY <1>5, <3>1 DEF PromotionReturns
      <3>3. status \in [Requests -> Status] /\ published \in [Promotions -> Published]
        BY DEF Typed
      <3> QED BY <3>2, <3>3 DEF Status, Published
    <2> QED BY <1>3, <1>5, <2>1 DEF PromotionReturns, Typed
  <1>6. CASE DenialReturns(f)
    <2>1. published' \in [Promotions -> Published]
      BY <1>6 DEF DenialReturns, Typed, Published
    <2> QED BY <1>3, <1>6, <2>1 DEF DenialReturns, Typed
  <1>7. CASE RecoverReturns(f)
    <2> DEFINE r == flows[f].request
    <2>1. r \in Requests /\ << "represented", r >> \in Events
      BY <1>7 DEF RecoverReturns, Returns, Drained
    <2>2. CASE status[r] = "escalated"
      <3>1. Enqueue(<< "represented", r >>) /\ Call(f, "represent", r) /\ startup' = startup
        BY <1>7, <2>2 DEF RecoverReturns
      <3>2. flows' \in [Flows -> FlowTypes]
        BY <2>1, <3>1, CallTyped DEF CallKind
      <3>3. events' \in [Events -> {"absent", "pending", "decided"}] /\ order' \in Seq(Events)
            /\ actions' = actions
        BY <2>1, <3>1, EnqueueTyped
      <3> QED BY <1>7, <3>1, <3>2, <3>3 DEF RecoverReturns, Typed
    <2>3. CASE status[r] # "escalated"
      BY <1>3, <1>7, <2>3 DEF RecoverReturns, Typed
    <2> QED BY <2>2, <2>3
  <1> QED BY <1>1, <1>2, <1>4, <1>5, <1>6, <1>7

LEMMA OtherStepTyped ==
  ASSUME Typed,
         \/ \E r \in Requests : Expire(r) \/ StartupSkips(r)
         \/ \E e \in Events : Retry(e)
         \/ \E a \in Attempts : Stop(a) \/ Launch(a)
         \/ Crash
  PROVE  Typed'
  <1> USE DEF requestVars, ledgerVars, faults, TypeOK
  <1>1. ASSUME NEW r \in Requests, Expire(r) \/ StartupSkips(r) PROVE Typed'
    BY <1>1 DEF Expire, StartupSkips, Typed
  <1>2. ASSUME NEW e \in Events, Retry(e) PROVE Typed'
    <2>1. actions' \in [Events -> Applications]
      BY <1>2, MarkTyped DEF Retry
    <2> QED BY <1>2, <2>1 DEF Retry, Typed
  <1>3. ASSUME NEW a \in Attempts, Stop(a) \/ Launch(a) PROVE Typed'
    <2>1. sandbox' \in [Attempts -> Sandboxes]
      <3>1. sandbox' = Stopped({a}) \/ sandbox' = [sandbox EXCEPT ![a] = "running"]
        BY <1>3 DEF Stop, Launch
      <3>2. Stopped({a}) \in [Attempts -> Sandboxes] /\ sandbox \in [Attempts -> Sandboxes]
        BY SandboxTyped DEF Typed
      <3> QED BY <3>1, <3>2 DEF Sandboxes
    <2> QED BY <1>3, <2>1 DEF Stop, Launch, Typed
  <1>4. CASE Crash
    <2>1. sandbox' \in [Attempts -> Sandboxes]
      BY <1>4, SandboxTyped DEF Crash
    <2>2. actions' \in [Events -> Applications]
      BY <1>4 DEF Crash, Typed, Applications
    <2>3. flows' \in [Flows -> FlowTypes]
      BY <1>4 DEF Crash, NoFlow, FlowTypes
    <2> QED BY <1>4, <2>1, <2>2, <2>3 DEF Crash, Typed
  <1> QED BY <1>1, <1>2, <1>3, <1>4

LEMMA StepTyped ==
  ASSUME Typed, [Next]_vars
  PROVE  Typed'
  <1>1. ASSUME NEW f \in Flows, Drains(f) PROVE Typed'
    BY <1>1, DrainsIs, WorkStepTyped, ReturnStepTyped
  <1>2. CASE UNCHANGED vars
    BY <1>2 DEF vars, requestVars, ledgerVars, faults, Typed, TypeOK
  <1> QED BY <1>1, <1>2, CallStepTyped, OtherStepTyped DEF Next

(***************************************************************************)
(* The invariant is kept: a call that asks, and whatever decides nothing   *)
(***************************************************************************)
Neutral ==
    /\ actions' = actions /\ grants' = grants /\ authorized' = authorized
    /\ \A r \in Requests : status'[r] = status[r] \/ (status[r] = "none" /\ status'[r] = "pending")
    /\ Queued \subseteq Queued'
    /\ \A e \in Events :
         \/ events'[e] = events[e]
         \/ /\ status'[RequestOf(e)] # "none" /\ events'[e] = "pending"
            /\ Once(e) => events[e] = "absent"
            /\ ~Once(e) => status[RequestOf(e)] = "escalated"
    /\ \A f \in Flows : flows'[f].phase = "applying" => flows'[f] = flows[f]
    /\ \A f \in Flows : flows'[f].phase = "checkpoint" =>
                          flows'[f] = flows[f] \/ status'[flows'[f].request] # "none"

LEMMA NeutralKeeps ==
  ASSUME Inv, Typed', Neutral
  PROVE  Inv'
  <1> USE EventParts
  <1>1. Asked'
    <2>1. ASSUME NEW e \in Events, events'[e] # "absent" PROVE status'[RequestOf(e)] # "none"
      BY <2>1 DEF Inv, Asked, Neutral
    <2>2. ASSUME NEW f \in Flows, flows'[f].phase = "checkpoint"
          PROVE  status'[flows'[f].request] # "none"
      <3>1. CASE flows'[f] = flows[f]
        <4>1. PICK r \in Requests : r = flows[f].request /\ status[r] # "none"
          BY <2>2, <3>1, FlowParts DEF Inv, Asked
        <4> QED BY <3>1, <4>1 DEF Neutral
      <3> QED BY <2>2, <3>1 DEF Neutral
    <2> QED BY <2>1, <2>2 DEF Asked
  <1>2. Justifications'
    BY DEF Inv, Neutral, Justifications, Justified, Approved, GrantIsAuthorized
  <1>3. Ledger'
    BY DEF Inv, Neutral, Ledger
  <1>4. Decisions'
    <2>1. \A r \in Requests : Represented(r) \in Events /\ RequestOf(Represented(r)) = r
                              /\ ~Once(Represented(r))
      BY DEF Represented, Once
    <2>2. ASSUME NEW r \in Requests, \/ status'[r] = "escalated" \/ events'[Represented(r)] # "absent"
                                     \/ actions'[Represented(r)].action # "none"
          PROVE  actions'[Requested(r)].action = "escalate"
      BY <2>1, <2>2 DEF Inv, Neutral, Decisions
    <2> QED BY <2>2 DEF Inv, Neutral, Decisions
  <1>5. Finals'
    <2>1. ASSUME NEW e \in Events, actions[e].action \in Settling
          PROVE  status'[RequestOf(e)] = status[RequestOf(e)]
      BY <2>1 DEF Inv, Finals, Unstarted, Neutral, Final, Open, Settling
    <2>2. actions' = actions
      BY DEF Neutral
    <2> QED BY <2>1, <2>2 DEF Inv, Finals, Unstarted
  <1> QED BY <1>1, <1>2, <1>3, <1>4, <1>5 DEF Inv

(* A call joins the queue. *)
LEMMA EnqueueNeutral ==
  ASSUME Inv, NEW e \in Events, Enqueue(e), UNCHANGED << grants, authorized >>,
         \A r \in Requests : status'[r] = status[r] \/ (status[r] = "none" /\ status'[r] = "pending"),
         status'[RequestOf(e)] # "none",
         ~Once(e) => status[RequestOf(e)] = "escalated",
         NEW f \in Flows, NEW kind \in CallKind, NEW q \in Requests, Call(f, kind, q)
  PROVE  Neutral
  <1> USE EventParts
  <1>1. Typed
    BY DEF Inv
  <1>2. /\ flows'[f] = [phase |-> "sync", kind |-> kind, request |-> q]
        /\ \A g \in Flows \ {f} : flows'[g] = flows[g]
    BY <1>1, CallTyped
  <1>3. \A g \in Flows : /\ flows'[g].phase = "applying" => flows'[g] = flows[g]
                         /\ flows'[g].phase = "checkpoint" => flows'[g] = flows[g]
    BY <1>2
  <1>4. /\ actions' = actions
        /\ \/ events' = events /\ order' = order
           \/ /\ events[e] = "absent" \/ (Kind(e) = "represented" /\ events[e] = "decided")
              /\ events' = [events EXCEPT ![e] = "pending"] /\ Queued' = Queued \cup {e}
    BY <1>1, EnqueueTyped
  <1>5. Queued \subseteq Queued'
    BY <1>4 DEF Queued
  <1>6. events \in [Events -> {"absent", "pending", "decided"}]
    BY <1>1 DEF Typed, TypeOK
  <1>7. \A d \in Events :
         \/ events'[d] = events[d]
         \/ /\ status'[RequestOf(d)] # "none" /\ events'[d] = "pending"
            /\ Once(d) => events[d] = "absent"
            /\ ~Once(d) => status[RequestOf(d)] = "escalated"
    BY <1>4, <1>6 DEF Once
  <1> QED BY <1>3, <1>4, <1>5, <1>7 DEF Neutral

LEMMA CallStepNeutral ==
  ASSUME Inv, NEW f \in Flows, Calls(f) \/ RecoverReturns(f)
  PROVE  Neutral
  <1> USE EventParts DEF requestVars, ledgerVars, faults, CallKind
  <1>0. Typed
    BY DEF Inv
  <1>1. ASSUME NEW r \in Requests, AskCapability(f, r) PROVE Neutral
    <2>1. /\ flows'[f] = [phase |-> "checkpoint", request |-> r]
          /\ \A g \in Flows \ {f} : flows'[g] = flows[g]
      BY <1>0, <1>1 DEF AskCapability, To, Typed
    <2>2. status' = [status EXCEPT ![r] = IF @ = "none" THEN "pending" ELSE @]
          /\ status \in [Requests -> Status]
      BY <1>0, <1>1 DEF AskCapability, Created, Typed, TypeOK
    <2>3. /\ status'[r] # "none"
          /\ \A q \in Requests : status'[q] = status[q] \/ (status[q] = "none" /\ status'[q] = "pending")
      BY <2>2
    <2>4. \A g \in Flows : /\ flows'[g].phase = "applying" => flows'[g] = flows[g]
                           /\ flows'[g].phase = "checkpoint" =>
                                flows'[g] = flows[g] \/ status'[flows'[g].request] # "none"
      BY <2>1, <2>3
    <2> QED BY <1>1, <2>3, <2>4 DEF AskCapability, Neutral, Queued
  <1>2. ASSUME NEW r \in Requests, AskPromotion(f, r) PROVE Neutral
    <2>1. status' = [status EXCEPT ![r] = IF @ = "none" THEN "pending" ELSE @]
          /\ status \in [Requests -> Status]
      BY <1>0, <1>2 DEF AskPromotion, Created, Typed, TypeOK
    <2>2. /\ status'[r] # "none"
          /\ \A q \in Requests : status'[q] = status[q] \/ (status[q] = "none" /\ status'[q] = "pending")
      BY <2>1
    <2>3. Enqueue(<< "requested", r >>) /\ Call(f, "promotion", r) /\ UNCHANGED << grants, authorized >>
      BY <1>2 DEF AskPromotion
    <2>4. /\ << "requested", r >> \in Events /\ Once(<< "requested", r >>)
          /\ RequestOf(<< "requested", r >>) = r
      BY DEF Once
    <2> QED BY <2>2, <2>3, <2>4, EnqueueNeutral
  <1>3. ASSUME NEW r \in Requests, NEW k \in {"requested", "approve", "deny", "represented"},
               NEW c \in CallKind, Enqueue(<< k, r >>), Call(f, c, r),
               UNCHANGED requestVars, status[r] # "none",
               k = "represented" => status[r] = "escalated"
        PROVE  Neutral
    <2>1. /\ << k, r >> \in Events /\ (~Once(<< k, r >>) => k = "represented")
          /\ RequestOf(<< k, r >>) = r
      BY DEF Once
    <2> QED BY <1>3, <2>1, EnqueueNeutral
  <1>4. ASSUME NEW r \in Requests, StartupRecovers(f, r) PROVE Neutral
    <2>1. /\ flows'[f] = [phase |-> "sync", kind |-> "recover", request |-> r]
          /\ \A g \in Flows \ {f} : flows'[g] = flows[g]
      BY <1>0, <1>4, CallTyped DEF StartupRecovers
    <2>2. \A g \in Flows : /\ flows'[g].phase = "applying" => flows'[g] = flows[g]
                           /\ flows'[g].phase = "checkpoint" => flows'[g] = flows[g]
      BY <2>1
    <2> QED BY <1>4, <2>2 DEF StartupRecovers, Neutral, Queued
  <1>5. CASE CheckpointEnds(f)
    <2>1. PICK r \in Requests : r = flows[f].request /\ status[r] # "none"
      BY <1>0, <1>5, FlowParts DEF CheckpointEnds, Inv, Asked
    <2> QED BY <1>3, <1>5, <2>1 DEF CheckpointEnds
  <1>6. ASSUME To(f, NoFlow), UNCHANGED << requestVars, ledgerVars >> PROVE Neutral
    <2>1. NoFlow \in FlowTypes /\ NoFlow.phase = "idle"
      BY DEF NoFlow, FlowTypes
    <2>2. \A g \in Flows : /\ flows'[g].phase = "applying" => flows'[g] = flows[g]
                           /\ flows'[g].phase = "checkpoint" => flows'[g] = flows[g]
      BY <1>0, <1>6, <2>1, ToTyped
    <2> QED BY <1>6, <2>2 DEF Neutral, Queued
  <1>7. CASE CheckpointFails(f)
    BY <1>6, <1>7 DEF CheckpointFails
  <1>8. ASSUME NEW r \in Requests, Represent(f, r) \/ \E k \in {"approve", "deny"} : Resolve(f, r, k)
        PROVE  Neutral
    BY <1>3, <1>8 DEF Represent, Resolve
  <1>9. CASE RecoverReturns(f)
    <2>1. PICK r \in Requests : r = flows[f].request
      BY <1>0, <1>9, FlowParts DEF RecoverReturns, Returns, Drained
    <2>2. CASE status[r] = "escalated"
      BY <1>3, <1>9, <2>1, <2>2 DEF RecoverReturns
    <2>3. CASE status[r] # "escalated"
      BY <1>6, <1>9, <2>1, <2>3 DEF RecoverReturns, Returned
    <2> QED BY <2>2, <2>3
  <1> QED BY <1>1, <1>2, <1>4, <1>5, <1>7, <1>8, <1>9 DEF Calls

LEMMA OtherStepNeutral ==
  ASSUME Inv,
         \/ \E f \in Flows : AskReturns(f) \/ DenialReturns(f)
         \/ \E r \in Requests : Expire(r) \/ StartupSkips(r)
         \/ \E a \in Attempts : Stop(a) \/ Launch(a)
         \/ UNCHANGED vars
  PROVE  Neutral
  <1> USE DEF requestVars, ledgerVars, faults
  <1>0. Typed
    BY DEF Inv
  <1>1. ASSUME NEW f \in Flows, AskReturns(f) \/ DenialReturns(f) PROVE Neutral
    <2>1. NoFlow \in FlowTypes /\ NoFlow.phase = "idle"
      BY DEF NoFlow, FlowTypes
    <2>2. To(f, NoFlow) /\ UNCHANGED << status, grants, authorized, ledgerVars >>
      BY <1>1 DEF AskReturns, DenialReturns, Returned
    <2>3. \A g \in Flows : /\ flows'[g].phase = "applying" => flows'[g] = flows[g]
                           /\ flows'[g].phase = "checkpoint" => flows'[g] = flows[g]
      BY <1>0, <2>1, <2>2, ToTyped
    <2> QED BY <2>2, <2>3 DEF Neutral, Queued
  <1>2. ASSUME \/ \E r \in Requests : Expire(r) \/ StartupSkips(r)
               \/ \E a \in Attempts : Stop(a) \/ Launch(a)
               \/ UNCHANGED vars
        PROVE  UNCHANGED << status, grants, authorized, ledgerVars, flows >>
    BY <1>2 DEF Expire, StartupSkips, Stop, Launch, vars
  <1> QED BY <1>1, <1>2 DEF Neutral, Queued

(***************************************************************************)
(* The invariant is kept: an event is decided                              *)
(***************************************************************************)
LEMMA WhatIsDecided ==
  ASSUME Inv, NEW e \in Events, events[e] = "pending"
  PROVE  /\ Decided(e) = "grant" => Justified(RequestOf(e))
         /\ Decided(e) = "escalate" => Kind(e) \in {"requested", "represented"}
         /\ Decided(e) = "recover" => Kind(e) = "approve"
         /\ Decided(e) \in Settling =>
              \/ status[RequestOf(e)] = Final[Decided(e)]
              \/ /\ status[RequestOf(e)] \in Open /\ Once(e)
                 /\ Decided(e) = "grant" => Kind(e) = "requested"
  <1>1. PICK r \in Requests : r = RequestOf(e)
    BY EventParts
  <1>2. Kind(e) \in {"requested", "represented", "approve", "deny"}
    BY EventParts
  <1>3. status[r] \in Status \ {"none"}
    BY <1>1 DEF Inv, Typed, TypeOK, Asked
  <1>4. CASE status[r] \notin Open
    <2>1. Decided(e) = IF status[r] = "granted" THEN "grant" ELSE "deny"
      BY <1>1, <1>4 DEF Decided, Open
    <2>2. status[r] = "granted" => Justified(r)
      BY DEF Inv, Justifications, GrantIsAuthorized, Justified
    <2> QED BY <1>1, <1>3, <1>4, <2>1, <2>2 DEF Final, Open, Status, Settling
  <1>5. CASE status[r] \in Open
    <2>1. Decided(e) = CASE Kind(e) = "represented" -> "escalate"
                         [] Kind(e) = "deny" -> "deny"
                         [] Kind(e) = "approve" -> "recover"
                         [] OTHER -> Evaluated(r)
      BY <1>1, <1>5 DEF Decided, Open
    <2>2. Evaluated(r) \in {"deny", "escalate", "grant"} /\ (Evaluated(r) = "grant" => Justified(r))
      BY DEF Evaluated, Justified, Approved
    <2>3. \/ Kind(e) = "represented" /\ Decided(e) = "escalate"
          \/ Kind(e) = "deny" /\ Decided(e) = "deny"
          \/ Kind(e) = "approve" /\ Decided(e) = "recover"
          \/ Kind(e) = "requested" /\ Decided(e) = Evaluated(r)
      BY <1>2, <2>1
    <2> QED BY <1>1, <1>5, <2>2, <2>3 DEF Once, Settling
  <1> QED BY <1>4, <1>5

LEMMA IssueKeeps ==
  ASSUME Inv, Typed', NEW f \in Flows, NEW e \in Events, Issue(f, e)
  PROVE  Inv'
  <1> USE EventParts
  <1> DEFINE A == [action |-> Decided(e), application |-> "pending"]
  <1>0. Typed
    BY DEF Inv
  <1>1. events[e] = "pending" /\ e \in Queued
    BY <1>0, NextWork DEF Issue
  <1>2. \A d \in Events \cap Queued : actions[d].application # "pending"
    BY <1>0, NextWork DEF Issue
  <1>3. /\ actions'[e].action = Decided(e) /\ actions'[e].application = "pending"
        /\ \A d \in Events \ {e} : actions'[d] = actions[d]
        /\ events'[e] = "decided" /\ \A d \in Events \ {e} : events'[d] = events[d]
    BY <1>0 DEF Issue, Typed, TypeOK
  <1>4. Decided(e) \in Action
    BY <1>0, DecidedTyped
  <1>5. UNCHANGED << status, grants, authorized, order, flows >> /\ Queued' = Queued
    BY DEF Issue, requestVars, Queued
  <1>6. Once(e) => actions[e].action = "none" /\ actions[e].application = "none"
    BY <1>1 DEF Inv, Ledger
  <1>7. Asked'
    BY <1>1, <1>3, <1>5, FlowParts DEF Inv, Asked
  <1>8. Justifications'
    <2>1. Decided(e) = "grant" => Justified(RequestOf(e))
      BY <1>1, WhatIsDecided
    <2>2. \A d \in Events : actions'[d].action = "grant" => Justified(RequestOf(d))
      BY <1>3, <2>1 DEF Inv, Justifications
    <2> QED BY <1>5, <2>2 DEF Inv, Justifications, Justified, Approved, GrantIsAuthorized
  <1>9. Ledger'
    <2>1. \A d \in Events : actions'[d].action = "none" <=> actions'[d].application = "none"
      BY <1>3, <1>4 DEF Inv, Ledger, Action
    <2>2. \A d \in Events : Once(d) => (actions'[d].action = "none" <=> events'[d] # "decided")
      BY <1>3, <1>4 DEF Inv, Ledger, Action
    <2>3. \A d \in Events :
            Once(d) /\ actions'[d].application \in {"pending", "applying", "uncertain"} => d \in Queued'
      BY <1>1, <1>3, <1>5 DEF Inv, Ledger
    <2>4. ASSUME NEW g \in Flows, flows[g].phase = "applying"
          PROVE  /\ actions'[flows[g].event].action # "none"
                 /\ Once(flows[g].event) => actions'[flows[g].event].application = "applying"
      <3>1. PICK d \in Events : d = flows[g].event
        BY <1>0, <2>4, FlowParts
      <3>2. actions[d].action # "none" /\ (Once(d) => actions[d].application = "applying")
        BY <2>4, <3>1 DEF Inv, Ledger
      <3>3. CASE d = e
        BY <1>3, <1>4, <1>6, <3>1, <3>2, <3>3 DEF Action
      <3>4. CASE d # e
        BY <1>3, <3>1, <3>2, <3>4
      <3> QED BY <3>3, <3>4
    <2> QED BY <1>5, <2>1, <2>2, <2>3, <2>4 DEF Inv, Ledger
  <1>10. Decisions'
    <2>1. /\ Decided(e) = "escalate" => Kind(e) \in {"requested", "represented"}
          /\ Decided(e) = "recover" => Kind(e) = "approve"
      BY <1>1, WhatIsDecided
    <2>2. ASSUME NEW r \in Requests, \/ status'[r] = "escalated" \/ events'[Represented(r)] # "absent"
                                     \/ actions'[Represented(r)].action # "none"
          PROVE  actions'[Requested(r)].action = "escalate"
      <3>1. /\ Represented(r) \in Events /\ Requested(r) \in Events
            /\ Once(Requested(r)) /\ Requested(r) # Represented(r)
        BY DEF Requested, Represented, Once
      <3>2. \/ status[r] = "escalated" \/ events[Represented(r)] # "absent"
            \/ actions[Represented(r)].action # "none"
        BY <1>1, <1>3, <1>5, <2>2, <3>1
      <3>3. actions[Requested(r)].action = "escalate"
        BY <3>2 DEF Inv, Decisions
      <3>4. Requested(r) # e
        BY <1>6, <3>1, <3>3
      <3> QED BY <1>3, <3>1, <3>3, <3>4
    <2>3. \A d \in Events : /\ actions'[d].action = "escalate" => Kind(d) \in {"requested", "represented"}
                            /\ actions'[d].action = "recover" => Kind(d) = "approve"
      BY <1>3, <2>1 DEF Inv, Decisions
    <2> QED BY <2>2, <2>3 DEF Decisions
  <1>11. Finals'
    <2>1. ASSUME NEW d \in Events, actions'[d].action \in Settling
          PROVE  status'[RequestOf(d)] = Final[actions'[d].action] \/ Unstarted(d)'
      <3>1. CASE d = e
        <4>1. \/ status[RequestOf(e)] = Final[Decided(e)]
              \/ /\ status[RequestOf(e)] \in Open /\ Once(e)
                 /\ Decided(e) = "grant" => Kind(e) = "requested"
          BY <1>1, <1>3, <2>1, <3>1, WhatIsDecided
        <4> QED BY <1>3, <1>5, <3>1, <4>1 DEF Unstarted
      <3>2. CASE d # e
        BY <1>3, <1>5, <2>1, <3>2 DEF Inv, Finals, Unstarted
      <3> QED BY <3>1, <3>2
    <2>2. \A d \in Events \ {e} : actions[d].action \in Settling => status[RequestOf(d)] \notin Open
      BY <1>2 DEF Inv, Finals, Unstarted, Ledger, Final, Open, Settling
    <2>3. ASSUME NEW d \in Events, NEW c \in Events,
                 actions'[d].action \in Settling, actions'[c].action \in Settling,
                 RequestOf(d) = RequestOf(c), status'[RequestOf(d)] \in Open
          PROVE  d = c
      BY <1>3, <1>5, <2>2, <2>3
    <2> QED BY <2>1, <2>3 DEF Finals
  <1> QED BY <1>7, <1>8, <1>9, <1>10, <1>11 DEF Inv

(***************************************************************************)
(* The invariant is kept: an application gets on                           *)
(***************************************************************************)
(* The application of e, which only f may be at, becomes x. *)
Marks(f, e, x) ==
    /\ actions' = [actions EXCEPT ![e].application = x] /\ events' = events
    /\ actions[e].action # "none" /\ Queued \ {e} \subseteq Queued'
    /\ Once(e) /\ x # "applied" => e \in Queued'
    /\ \A g \in Flows \ {f} : flows'[g].phase = "applying" =>
          flows'[g] = flows[g] /\ (Once(e) => flows[g].event # e)
    /\ f \in Flows /\ flows'[f].phase = "applying" => flows'[f].event = e /\ x = "applying"

(* And what its handler has written so far to the request goes with it. *)
Settles(e) ==
    /\ authorized \subseteq authorized' /\ grants \subseteq grants'
    /\ \A r \in grants' : r \in grants \/ Justified(r)
    /\ \A g \in Flows : flows'[g].phase = "checkpoint" => flows'[g] = flows[g]
    /\ \A r \in Requests :
          /\ status[r] # "none" => status'[r] # "none"
          /\ status'[r] = "granted" => r \in grants'
          /\ status'[r] = "escalated" =>
               status[r] = "escalated" \/ actions[Requested(r)].action = "escalate"
          /\ status'[r] \in Open => status[r] \in Open
    /\ \A d \in Events : actions[d].action \in Settling =>
          \/ status'[RequestOf(d)] = Final[actions[d].action]
          \/ d # e /\ Unstarted(d) /\ status'[RequestOf(d)] \in Open

LEMMA MarkKeepsLedger ==
  ASSUME Inv, Typed', NEW e \in Events, NEW x \in {"pending", "applying", "applied", "uncertain"},
         NEW f, Marks(f, e, x)
  PROVE  Ledger'
  <1>0. Typed
    BY DEF Inv
  <1>1. /\ actions'[e].application = x /\ \A d \in Events \ {e} : actions'[d] = actions[d]
        /\ \A d \in Events : actions'[d].action = actions[d].action
    <2>1. actions' = [actions EXCEPT ![e].application = x]
      BY DEF Marks
    <2> QED BY <1>0, <2>1, MarkTyped
  <1>2. \A d \in Events : actions'[d].action = "none" <=> actions'[d].application = "none"
    BY <1>1 DEF Inv, Ledger, Marks
  <1>3. \A d \in Events : Once(d) => (actions'[d].action = "none" <=> events'[d] # "decided")
    BY <1>1 DEF Inv, Ledger, Marks
  <1>4. \A d \in Events :
          Once(d) /\ actions'[d].application \in {"pending", "applying", "uncertain"} => d \in Queued'
    BY <1>1 DEF Inv, Ledger, Marks
  <1>5. ASSUME NEW g \in Flows, flows'[g].phase = "applying"
        PROVE  /\ actions'[flows'[g].event].action # "none"
               /\ Once(flows'[g].event) => actions'[flows'[g].event].application = "applying"
    <2>1. CASE g = f
      BY <1>1, <1>5, <2>1 DEF Marks
    <2>2. CASE g # f
      <3>1. flows'[g] = flows[g] /\ (Once(e) => flows[g].event # e)
        BY <1>5, <2>2 DEF Marks
      <3>2. PICK d \in Events : d = flows[g].event
        BY <1>0, <1>5, <3>1, FlowParts
      <3>3. actions[d].action # "none" /\ (Once(d) => actions[d].application = "applying")
        BY <1>5, <3>1, <3>2 DEF Inv, Ledger, Marks
      <3> QED BY <1>1, <3>1, <3>2, <3>3
    <2> QED BY <2>1, <2>2
  <1>6. ASSUME NEW g \in Flows, NEW h \in Flows, flows'[g].phase = "applying",
               flows'[h].phase = "applying", flows'[g].event = flows'[h].event, Once(flows'[g].event)
        PROVE  g = h
    <2>1. CASE g = f \/ h = f
      BY <1>6, <2>1 DEF Marks
    <2>2. CASE g # f /\ h # f
      BY <1>6, <2>2 DEF Inv, Ledger, Marks
    <2> QED BY <2>1, <2>2
  <1> QED BY <1>2, <1>3, <1>4, <1>5, <1>6 DEF Ledger

(* Of the other conjuncts an application touches only the request's status. *)
LEMMA MarkKeeps ==
  ASSUME Inv, Typed', NEW e \in Events,
         NEW x \in {"pending", "applying", "applied", "uncertain"},
         NEW f, Marks(f, e, x), Settles(e)
  PROVE  Inv'
  <1>0. Typed
    BY DEF Inv
  <1>1. /\ actions'[e].application = x /\ \A d \in Events \ {e} : actions'[d] = actions[d]
        /\ \A d \in Events : actions'[d].action = actions[d].action
    <2>1. actions' = [actions EXCEPT ![e].application = x]
      BY DEF Marks
    <2> QED BY <1>0, <2>1, MarkTyped
  <1>l. Ledger'
    BY MarkKeepsLedger
  <1> USE EventParts
  <1>2. Asked'
    <2>1. ASSUME NEW g \in Flows, flows'[g].phase = "checkpoint"
          PROVE  status'[flows'[g].request] # "none"
      <3>1. flows'[g] = flows[g]
        BY <2>1 DEF Settles
      <3>2. PICK r \in Requests : r = flows[g].request /\ status[r] # "none"
        BY <1>0, <2>1, <3>1, FlowParts DEF Inv, Asked, Settles
      <3> QED BY <3>1, <3>2 DEF Settles
    <2> QED BY <2>1, EventParts DEF Inv, Asked, Marks, Settles
  <1>3. Justifications'
    <2>1. \A r \in Requests : Justified(r) => Justified(r)'
      BY DEF Justified, Approved, Settles
    <2>2. \A r \in grants : Justified(r)
      BY DEF Inv, Justifications, GrantIsAuthorized, Justified
    <2>3. \A r \in grants' : r \in Requests
      BY DEF Typed, TypeOK
    <2>4. \A r \in grants' : Justified(r)'
      BY <2>1, <2>2, <2>3 DEF Settles
    <2>5. \A d \in Events : actions'[d].action = "grant" => Justified(RequestOf(d))'
      BY <1>1, <2>1 DEF Inv, Justifications
    <2>6. GrantIsAuthorized'
      BY <2>4 DEF GrantIsAuthorized, Justified
    <2> QED BY <2>5, <2>6 DEF Justifications, Settles
  <1>4. Decisions'
    <2>1. ASSUME NEW r \in Requests, \/ status'[r] = "escalated" \/ events'[Represented(r)] # "absent"
                                     \/ actions'[Represented(r)].action # "none"
          PROVE  actions'[Requested(r)].action = "escalate"
      <3>1. Represented(r) \in Events /\ Requested(r) \in Events
        BY DEF Requested, Represented
      <3>2. actions[Requested(r)].action = "escalate"
        BY <1>1, <2>1, <3>1 DEF Inv, Decisions, Marks, Settles
      <3> QED BY <1>1, <3>1, <3>2
    <2>2. \A d \in Events : /\ actions'[d].action = "escalate" => Kind(d) \in {"requested", "represented"}
                            /\ actions'[d].action = "recover" => Kind(d) = "approve"
      BY <1>1 DEF Inv, Decisions
    <2> QED BY <2>1, <2>2 DEF Decisions
  <1>5. Finals'
    <2>1. ASSUME NEW d \in Events, actions'[d].action \in Settling
          PROVE  status'[RequestOf(d)] = Final[actions'[d].action] \/ Unstarted(d)'
      BY <1>1, <2>1 DEF Unstarted, Settles
    <2>2. \A d, c \in Events :
            actions'[d].action \in Settling /\ actions'[c].action \in Settling
              /\ RequestOf(d) = RequestOf(c) /\ status'[RequestOf(d)] \in Open => d = c
      BY <1>1 DEF Inv, Finals, Settles
    <2> QED BY <2>1, <2>2 DEF Finals
  <1> QED BY <1>l, <1>2, <1>3, <1>4, <1>5 DEF Inv

(* What the handlers of a grant and a denial find. *)
LEMMA StartSettles ==
  ASSUME Inv, NEW e \in Events, actions[e].action \in Settling, actions[e].application = "pending",
         status' = [status EXCEPT ![RequestOf(e)] = Final[actions[e].action]]
  PROVE  /\ status[RequestOf(e)] \in Open \cup {Final[actions[e].action]}
         /\ \A d \in Events : actions[d].action \in Settling =>
              \/ status'[RequestOf(d)] = Final[actions[d].action]
              \/ d # e /\ Unstarted(d) /\ status'[RequestOf(d)] \in Open
  <1> USE EventParts
  <1>1. Typed
    BY DEF Inv
  <1>2. status[RequestOf(e)] \in Open \cup {Final[actions[e].action]}
    BY DEF Inv, Finals, Unstarted
  <1>3. \A r \in Requests : status'[r] = IF r = RequestOf(e) THEN Final[actions[e].action] ELSE status[r]
    BY <1>1 DEF Typed, TypeOK
  <1>4. ASSUME NEW d \in Events, actions[d].action \in Settling
        PROVE  \/ status'[RequestOf(d)] = Final[actions[d].action]
               \/ d # e /\ Unstarted(d) /\ status'[RequestOf(d)] \in Open
    <2>1. status[RequestOf(d)] = Final[actions[d].action] \/ Unstarted(d)
      BY <1>4 DEF Inv, Finals
    <2>2. CASE RequestOf(d) # RequestOf(e)
      BY <1>3, <2>1, <2>2 DEF Unstarted
    <2>3. CASE RequestOf(d) = RequestOf(e) /\ status[RequestOf(e)] \in Open
      <3>1. d = e
        BY <1>4, <2>3 DEF Inv, Finals
      <3> QED BY <1>3, <3>1
    <2>4. CASE RequestOf(d) = RequestOf(e) /\ status[RequestOf(e)] \notin Open
      <3>1. status[RequestOf(d)] = Final[actions[d].action]
        BY <2>1, <2>4 DEF Unstarted
      <3> QED BY <1>2, <1>3, <2>4, <3>1
    <2> QED BY <2>2, <2>3, <2>4
  <1> QED BY <1>2, <1>4

(* An application begins: its flow is the only one that has it. *)
LEMMA StartsMarks ==
  ASSUME Inv, Typed', NEW f \in Flows, NEW e \in Events, NEW a \in Action, Starts(f, e, a)
  PROVE  /\ Marks(f, e, "applying")
         /\ actions[e].action = a /\ actions[e].application = "pending"
         /\ \A g \in Flows : flows'[g].phase = "checkpoint" => flows'[g] = flows[g]
  <1>0. Typed
    BY DEF Inv
  <1>1. /\ flows'[f] = [phase |-> "applying", event |-> e, kind |-> flows[f].kind, request |-> flows[f].request]
        /\ \A g \in Flows \ {f} : flows'[g] = flows[g]
        /\ actions' = [actions EXCEPT ![e].application = "applying"]
        /\ actions[e].action = a /\ actions[e].application = "pending" /\ e \in Queued
    BY <1>0, StartsTyped
  <1>2. events' = events /\ Queued' = Queued
    BY DEF Starts, Queued
  <1>3. \A g \in Flows \ {f} : flows'[g].phase = "applying" =>
           flows'[g] = flows[g] /\ (Once(e) => flows[g].event # e)
    BY <1>1 DEF Inv, Ledger
  <1>4. a # "none"
    BY DEF Action
  <1>5. flows'[f].event = e
    BY <1>1
  <1>6. Marks(f, e, "applying")
    BY <1>1, <1>2, <1>3, <1>4, <1>5 DEF Marks
  <1> QED BY <1>1, <1>6

LEMMA StartStepKeeps ==
  ASSUME Inv, Typed', NEW f \in Flows, NEW e \in Events,
         StartGrant(f, e) \/ StartDeny(f, e) \/ StartEscalate(f, e) \/ StartRecover(f, e)
  PROVE  Inv'
  <1> USE EventParts
  <1>0. Typed /\ status \in [Requests -> Status]
    BY DEF Inv, Typed, TypeOK
  <1>1. CASE StartGrant(f, e)
    <2>1. /\ Starts(f, e, "grant") /\ grants' = grants \cup {RequestOf(e)} /\ authorized' = authorized
          /\ status' = [status EXCEPT ![RequestOf(e)] = "granted"] /\ "grant" \in Action
      BY <1>1 DEF StartGrant, Action
    <2>2. /\ Marks(f, e, "applying")
          /\ actions[e].action = "grant" /\ actions[e].application = "pending"
          /\ \A g \in Flows : flows'[g].phase = "checkpoint" => flows'[g] = flows[g]
      BY <2>1, StartsMarks
    <2>3. Final[actions[e].action] = "granted" /\ actions[e].action \in Settling
      BY <2>2 DEF Final, Settling
    <2>s. status' = [status EXCEPT ![RequestOf(e)] = Final[actions[e].action]]
      BY <2>1, <2>3
    <2>4. \A d \in Events : actions[d].action \in Settling =>
              \/ status'[RequestOf(d)] = Final[actions[d].action]
              \/ d # e /\ Unstarted(d) /\ status'[RequestOf(d)] \in Open
      BY <2>2, <2>3, <2>s, StartSettles
    <2>5. \A r \in grants' : r \in grants \/ Justified(r)
      BY <2>1, <2>2 DEF Inv, Justifications
    <2>6. \A r \in Requests :
            /\ status[r] # "none" => status'[r] # "none"
            /\ status'[r] = "granted" => r \in grants'
            /\ status'[r] = "escalated" => status[r] = "escalated"
            /\ status'[r] \in Open => status[r] \in Open
      BY <1>0, <2>1 DEF Inv, Justifications, Open
    <2>7. Settles(e)
      BY <2>1, <2>2, <2>4, <2>5, <2>6 DEF Settles
    <2> QED BY <2>2, <2>7, MarkKeeps
  <1>2. CASE StartDeny(f, e)
    <2>1. /\ Starts(f, e, "deny") /\ grants' = grants /\ authorized' = authorized
          /\ status' = [status EXCEPT ![RequestOf(e)] = "denied"] /\ "deny" \in Action
      BY <1>2 DEF StartDeny, Action
    <2>2. /\ Marks(f, e, "applying")
          /\ actions[e].action = "deny" /\ actions[e].application = "pending"
          /\ \A g \in Flows : flows'[g].phase = "checkpoint" => flows'[g] = flows[g]
      BY <2>1, StartsMarks
    <2>3. Final[actions[e].action] = "denied" /\ actions[e].action \in Settling
      BY <2>2 DEF Final, Settling
    <2>s. status' = [status EXCEPT ![RequestOf(e)] = Final[actions[e].action]]
      BY <2>1, <2>3
    <2>4. \A d \in Events : actions[d].action \in Settling =>
              \/ status'[RequestOf(d)] = Final[actions[d].action]
              \/ d # e /\ Unstarted(d) /\ status'[RequestOf(d)] \in Open
      BY <2>2, <2>3, <2>s, StartSettles
    <2>6. \A r \in Requests :
            /\ status[r] # "none" => status'[r] # "none"
            /\ status'[r] = "granted" => r \in grants'
            /\ status'[r] = "escalated" => status[r] = "escalated"
            /\ status'[r] \in Open => status[r] \in Open
      BY <1>0, <2>1 DEF Inv, Justifications, Open
    <2>7. Settles(e)
      BY <2>1, <2>2, <2>4, <2>6 DEF Settles
    <2> QED BY <2>2, <2>7, MarkKeeps
  <1>3. CASE StartEscalate(f, e)
    <2>1. /\ Starts(f, e, "escalate") /\ grants' = grants /\ authorized' = authorized
          /\ status' = [status EXCEPT ![RequestOf(e)] = IF @ \in Open THEN "escalated" ELSE @]
          /\ "escalate" \in Action
      BY <1>3 DEF StartEscalate, Escalated, Open, Action
    <2>2. /\ Marks(f, e, "applying")
          /\ actions[e].action = "escalate" /\ actions[e].application = "pending"
          /\ \A g \in Flows : flows'[g].phase = "checkpoint" => flows'[g] = flows[g]
      BY <2>1, StartsMarks
    <2>3. PICK r \in Requests : r = RequestOf(e)
      OBVIOUS
    <2>4. actions[Requested(r)].action = "escalate"
      BY <2>2, <2>3 DEF Inv, Decisions, Requested, Represented
    <2>5. \A q \in Requests :
            /\ status[q] # "none" => status'[q] # "none"
            /\ status'[q] = "granted" => q \in grants'
            /\ status'[q] = "escalated" =>
                 status[q] = "escalated" \/ actions[Requested(q)].action = "escalate"
            /\ status'[q] \in Open => status[q] \in Open
            /\ status'[q] = status[q] \/ (status[q] \in Open /\ status'[q] \in Open)
      BY <1>0, <2>1, <2>3, <2>4 DEF Inv, Justifications, Open
    <2>6. ASSUME NEW d \in Events, actions[d].action \in Settling
          PROVE  \/ status'[RequestOf(d)] = Final[actions[d].action]
                 \/ d # e /\ Unstarted(d) /\ status'[RequestOf(d)] \in Open
      <3>1. d # e
        BY <2>2, <2>6 DEF Settling
      <3>2. status[RequestOf(d)] = Final[actions[d].action] \/ Unstarted(d)
        BY <2>6 DEF Inv, Finals
      <3> QED BY <2>5, <2>6, <3>1, <3>2 DEF Unstarted, Final, Open, Settling
    <2>7. Settles(e)
      BY <2>1, <2>2, <2>5, <2>6 DEF Settles
    <2> QED BY <2>2, <2>7, MarkKeeps
  <1>4. CASE StartRecover(f, e)
    <2>1. /\ Starts(f, e, "recover") /\ grants' = grants /\ authorized \subseteq authorized'
          /\ status' = status /\ "recover" \in Action
      BY <1>4 DEF StartRecover, Action
    <2>2. /\ Marks(f, e, "applying")
          /\ actions[e].action = "recover"
          /\ \A g \in Flows : flows'[g].phase = "checkpoint" => flows'[g] = flows[g]
      BY <2>1, StartsMarks
    <2>3. ASSUME NEW d \in Events, actions[d].action \in Settling
          PROVE  \/ status'[RequestOf(d)] = Final[actions[d].action]
                 \/ d # e /\ Unstarted(d) /\ status'[RequestOf(d)] \in Open
      <3>1. d # e
        BY <2>2, <2>3 DEF Settling
      <3> QED BY <2>1, <2>3, <3>1 DEF Inv, Finals, Unstarted
    <2>4. \A r \in Requests : status'[r] = "granted" => r \in grants'
      BY <2>1 DEF Inv, Justifications
    <2>7. Settles(e)
      BY <2>1, <2>2, <2>3, <2>4 DEF Settles
    <2> QED BY <2>2, <2>7, MarkKeeps
  <1> QED BY <1>1, <1>2, <1>3, <1>4

(* What a flow is applying has begun: a grant or denial is the status. *)
LEMMA AppliedIsFinal ==
  ASSUME Inv, NEW e \in Events, Once(e) => actions[e].application # "pending",
         NEW d \in Events, actions[d].action \in Settling
  PROVE  \/ status[RequestOf(d)] = Final[actions[d].action]
         \/ d # e /\ Unstarted(d) /\ status[RequestOf(d)] \in Open
  BY DEF Inv, Finals, Unstarted

LEMMA ApplyStepKeeps ==
  ASSUME Inv, Typed', NEW f \in Flows, ApplyEnds(f) \/ ApplyFails(f)
  PROVE  Inv'
  <1> USE DEF requestVars
  <1>0. Typed
    BY DEF Inv
  <1>1. PICK e \in Events, x \in {"applied", "uncertain"} :
          /\ e = flows[f].event /\ actions' = [actions EXCEPT ![e].application = x]
          /\ x = "applied" => order' = Without(e)
          /\ x = "uncertain" => order' = order
    BY <1>0, FlowParts DEF ApplyEnds, ApplyFails
  <1>2. /\ flows[f].phase = "applying" /\ events' = events
        /\ UNCHANGED << status, grants, authorized >>
    BY DEF ApplyEnds, ApplyFails
  <1>3. /\ flows'[f].phase \in {"sync", "broken"} /\ \A g \in Flows \ {f} : flows'[g] = flows[g]
    BY <1>0 DEF ApplyEnds, ApplyFails, Call, To, Typed
  <1>4. /\ actions[e].action # "none"
        /\ Once(e) => actions[e].application = "applying" /\ e \in Queued
        /\ \A g \in Flows \ {f} : flows[g].phase = "applying" /\ Once(e) => flows[g].event # e
    BY <1>1, <1>2 DEF Inv, Ledger
  <1>5. Queued \ {e} \subseteq Queued' /\ (Once(e) /\ x # "applied" => e \in Queued')
    <2>1. CASE x = "applied"
      BY <1>0, <1>1, <2>1, WithoutQueued DEF Typed
    <2>2. CASE x = "uncertain"
      BY <1>1, <1>4, <2>2 DEF Queued
    <2> QED BY <2>1, <2>2
  <1>6. Marks(f, e, x)
    BY <1>1, <1>2, <1>3, <1>4, <1>5 DEF Marks
  <1>7. \A d \in Events : actions[d].action \in Settling =>
          \/ status'[RequestOf(d)] = Final[actions[d].action]
          \/ d # e /\ Unstarted(d) /\ status'[RequestOf(d)] \in Open
    BY <1>2, <1>4, AppliedIsFinal
  <1>8. \A r \in Requests : status'[r] = "granted" => r \in grants'
    BY <1>2 DEF Inv, Justifications
  <1>9. \A g \in Flows : flows'[g].phase = "checkpoint" => flows'[g] = flows[g]
    BY <1>3
  <1>10. Settles(e)
    BY <1>2, <1>7, <1>8, <1>9 DEF Settles
  <1> QED BY <1>1, <1>6, <1>10, MarkKeeps

LEMMA RefusedStepKeeps ==
  ASSUME Inv, Typed', NEW f \in Flows, NEW e \in Events, RecoverRefused(f, e)
  PROVE  Inv'
  <1>0. Typed
    BY DEF Inv
  <1>1. /\ flows[f].phase = "sync" /\ actions[e].action = "recover"
        /\ actions[e].application = "pending" /\ e \in Queued
        /\ actions' = [actions EXCEPT ![e].application = "uncertain"] /\ events' = events
        /\ UNCHANGED << status, grants >> /\ authorized \subseteq authorized' /\ order' = order
    BY <1>0, NextWork DEF RecoverRefused
  <1>2. /\ flows'[f].phase = "broken" /\ \A g \in Flows \ {f} : flows'[g] = flows[g]
    <2>1. [flows[f] EXCEPT !.phase = "broken"] =
            [phase |-> "broken", kind |-> flows[f].kind, request |-> flows[f].request]
      BY <1>0, <1>1, FlowParts
    <2> QED BY <1>0, <2>1 DEF RecoverRefused, To, Typed
  <1>3. \A g \in Flows \ {f} : flows[g].phase = "applying" /\ Once(e) => flows[g].event # e
    BY <1>1 DEF Inv, Ledger
  <1>4. Queued' = Queued
    BY <1>1 DEF Queued
  <1>5. Marks(f, e, "uncertain")
    BY <1>1, <1>2, <1>3, <1>4 DEF Marks
  <1>6. ASSUME NEW d \in Events, actions[d].action \in Settling
        PROVE  \/ status'[RequestOf(d)] = Final[actions[d].action]
               \/ d # e /\ Unstarted(d) /\ status'[RequestOf(d)] \in Open
    <2>1. d # e
      BY <1>1, <1>6 DEF Settling
    <2> QED BY <1>1, <1>6, <2>1 DEF Inv, Finals, Unstarted
  <1>7. \A r \in Requests : status'[r] = "granted" => r \in grants'
    BY <1>1 DEF Inv, Justifications
  <1>8. \A g \in Flows : flows'[g].phase = "checkpoint" => flows'[g] = flows[g]
    BY <1>2
  <1>9. Settles(e)
    BY <1>1, <1>6, <1>7, <1>8 DEF Settles
  <1> QED BY <1>5, <1>9, MarkKeeps

LEMMA RetryStepKeeps ==
  ASSUME Inv, Typed', NEW e \in Events, Retry(e)
  PROVE  Inv'
  <1>0. Typed
    BY DEF Inv
  <1>1. /\ actions[e].application = "uncertain" /\ events' = events
        /\ actions' = [actions EXCEPT ![e].application = "pending"]
        /\ UNCHANGED << status, grants, authorized, order, flows >>
    BY DEF Retry, requestVars
  <1>2. /\ actions[e].action # "none" /\ (Once(e) => e \in Queued) /\ Queued' = Queued
        /\ \A g \in Flows : flows[g].phase = "applying" /\ Once(e) => flows[g].event # e
    BY <1>1 DEF Inv, Ledger, Queued
  <1>3. PICK f : f \notin Flows
    BY NoSetContainsEverything
  <1>4. Marks(f, e, "pending")
    BY <1>1, <1>2, <1>3 DEF Marks
  <1>5. \A d \in Events : actions[d].action \in Settling =>
          \/ status'[RequestOf(d)] = Final[actions[d].action]
          \/ d # e /\ Unstarted(d) /\ status'[RequestOf(d)] \in Open
    BY <1>1, AppliedIsFinal
  <1>6. \A r \in Requests : status'[r] = "granted" => r \in grants'
    BY <1>1 DEF Inv, Justifications
  <1>7. Settles(e)
    BY <1>1, <1>5, <1>6 DEF Settles
  <1> QED BY <1>4, <1>7, MarkKeeps

(* A publication that lost is withdrawn: no grant of an escalated request is  *)
(* on its way, for its own event was decided as the escalation.               *)
LEMMA PromotionReturnsKeeps ==
  ASSUME Inv, Typed', NEW f \in Flows, PromotionReturns(f)
  PROVE  Inv'
  <1> USE EventParts
  <1>0. Typed
    BY DEF Inv
  <1>1. PICK r \in Requests : r = flows[f].request
    BY <1>0, FlowParts DEF PromotionReturns, Returns, Drained
  <1>2. /\ status' = status \/ status' = [status EXCEPT ![r] = IF @ = "escalated" THEN "denied" ELSE @]
        /\ UNCHANGED << grants, authorized, events, actions, order >>
    BY <1>1 DEF PromotionReturns, ledgerVars
  <1>3. status \in [Requests -> Status]
    BY <1>0 DEF Typed, TypeOK
  <1>4. \A q \in Requests :
          status'[q] = status[q] \/ (q = r /\ status[q] = "escalated" /\ status'[q] = "denied")
    BY <1>2, <1>3
  <1>5. /\ flows'[f].phase = "idle" /\ \A g \in Flows \ {f} : flows'[g] = flows[g]
    BY <1>0 DEF PromotionReturns, Returned, To, NoFlow, Typed
  <1>6. ASSUME NEW d \in Events, actions[d].action \in Settling, status[RequestOf(d)] = "escalated"
        PROVE  actions[d].action = "deny"
    <2>1. PICK q \in Requests : q = RequestOf(d) /\ actions[Requested(q)].action = "escalate"
      BY <1>6 DEF Inv, Decisions
    <2>2. Unstarted(d)
      BY <1>6 DEF Inv, Finals, Final, Settling
    <2>3. actions[d].action = "grant" => d = Requested(q)
      BY <2>1, <2>2 DEF Unstarted, Requested
    <2> QED BY <1>6, <2>1, <2>3 DEF Settling
  <1>7. Asked'
    <2>1. ASSUME NEW g \in Flows, flows'[g].phase = "checkpoint"
          PROVE  status'[flows'[g].request] # "none"
      <3>1. g \in Flows \ {f} /\ flows'[g] = flows[g] /\ flows[g].phase = "checkpoint"
        BY <1>5, <2>1
      <3>2. status[flows[g].request] # "none"
        BY <3>1 DEF Inv, Asked
      <3>3. flows[g].request \in Requests
        BY <1>0, <3>1, FlowParts
      <3> QED BY <1>4, <3>1, <3>2, <3>3
    <2> QED BY <1>2, <1>4, <2>1 DEF Inv, Asked
  <1>8. Justifications'
    BY <1>2, <1>4 DEF Inv, Justifications, Justified, Approved, GrantIsAuthorized
  <1>9. Ledger'
    <2>1. Queued' = Queued /\ \A g \in Flows : flows'[g].phase = "applying" => flows'[g] = flows[g]
      BY <1>2, <1>5 DEF Queued
    <2> QED BY <1>2, <2>1 DEF Inv, Ledger
  <1>10. Decisions'
    BY <1>2, <1>4 DEF Inv, Decisions
  <1>11. Finals'
    <2>1. ASSUME NEW d \in Events, actions[d].action \in Settling
          PROVE  status'[RequestOf(d)] = Final[actions[d].action] \/ Unstarted(d)'
      <3>1. status[RequestOf(d)] = Final[actions[d].action] \/ Unstarted(d)
        BY <2>1 DEF Inv, Finals
      <3>2. CASE status'[RequestOf(d)] = status[RequestOf(d)]
        BY <1>2, <3>1, <3>2 DEF Unstarted
      <3>3. CASE status[RequestOf(d)] = "escalated" /\ status'[RequestOf(d)] = "denied"
        BY <1>6, <2>1, <3>3 DEF Final
      <3> QED BY <1>4, <3>2, <3>3
    <2>2. \A q \in Requests : status'[q] \in Open => status[q] \in Open
      BY <1>4 DEF Open
    <2> QED BY <1>2, <2>1, <2>2 DEF Inv, Finals
  <1> QED BY <1>7, <1>8, <1>9, <1>10, <1>11 DEF Inv

(* The process dies: what was being applied waits to be applied again. *)
LEMMA CrashKeeps ==
  ASSUME Inv, Typed', Crash
  PROVE  Inv'
  <1>0. Typed
    BY DEF Inv
  <1>1. /\ UNCHANGED << status, grants, authorized, events, order >> /\ Queued' = Queued
        /\ \A f \in Flows : flows'[f].phase = "idle"
    BY DEF Crash, requestVars, NoFlow, Queued
  <1>2. ASSUME NEW e \in Events
        PROVE  /\ actions'[e].action = actions[e].action
               /\ actions'[e].application =
                    IF actions[e].application = "applying" THEN "pending" ELSE actions[e].application
    <2>1. PICK old \in Applications : old = actions[e]
      BY <1>0 DEF Typed
    <2>2. actions'[e] = IF old.application = "applying" THEN [old EXCEPT !.application = "pending"] ELSE old
      BY <2>1 DEF Crash
    <2> QED BY <2>1, <2>2 DEF Applications
  <1>3. Asked'
    BY <1>1 DEF Inv, Asked
  <1>4. Justifications'
    BY <1>1, <1>2 DEF Inv, Justifications, Justified, Approved, GrantIsAuthorized
  <1>5. Ledger'
    <2>1. \A e \in Events : actions'[e].action = "none" <=> actions'[e].application = "none"
      BY <1>2 DEF Inv, Ledger
    <2>2. \A e \in Events : Once(e) => (actions'[e].action = "none" <=> events'[e] # "decided")
      BY <1>1, <1>2 DEF Inv, Ledger
    <2>3. \A e \in Events :
            Once(e) /\ actions'[e].application \in {"pending", "applying", "uncertain"} => e \in Queued'
      BY <1>1, <1>2 DEF Inv, Ledger
    <2> QED BY <1>1, <2>1, <2>2, <2>3 DEF Ledger
  <1>6. Decisions'
    <2>1. \A r \in Requests : Represented(r) \in Events /\ Requested(r) \in Events
      BY EventParts DEF Represented, Requested
    <2> QED BY <1>1, <1>2, <2>1 DEF Inv, Decisions
  <1>7. Finals'
    BY <1>1, <1>2 DEF Inv, Finals, Unstarted
  <1> QED BY <1>3, <1>4, <1>5, <1>6, <1>7 DEF Inv

LEMMA StepKeeps ==
  ASSUME Inv, [Next]_vars
  PROVE  Inv'
  <1>0. Typed'
    BY StepTyped DEF Inv
  <1>1. ASSUME NEW f \in Flows, Calls(f) PROVE Inv'
    BY <1>0, <1>1, CallStepNeutral, NeutralKeeps
  <1>2. ASSUME NEW f \in Flows, Drains(f) PROVE Inv'
    <2>1. ASSUME RecoverReturns(f) PROVE Inv'
      BY <1>0, <2>1, CallStepNeutral, NeutralKeeps
    <2>2. ASSUME AskReturns(f) \/ DenialReturns(f) PROVE Inv'
      <3>1. Neutral
        BY <2>2, OtherStepNeutral
      <3> QED BY <1>0, <3>1, NeutralKeeps
    <2>3. ASSUME NEW e \in Events,
                 \/ Issue(f, e) \/ StartGrant(f, e) \/ StartDeny(f, e) \/ StartEscalate(f, e)
                 \/ StartRecover(f, e) \/ RecoverRefused(f, e)
          PROVE  Inv'
      BY <1>0, <2>3, IssueKeeps, StartStepKeeps, RefusedStepKeeps
    <2>4. ASSUME ApplyEnds(f) \/ ApplyFails(f) \/ PromotionReturns(f) PROVE Inv'
      BY <1>0, <2>4, ApplyStepKeeps, PromotionReturnsKeeps
    <2> QED BY <1>2, DrainsIs, <2>1, <2>2, <2>3, <2>4
  <1>3. ASSUME \/ \E r \in Requests : Expire(r) \/ StartupSkips(r)
               \/ \E a \in Attempts : Stop(a) \/ Launch(a)
               \/ UNCHANGED vars
        PROVE  Inv'
    <2>1. Neutral
      BY <1>3, OtherStepNeutral
    <2> QED BY <1>0, <2>1, NeutralKeeps
  <1>4. ASSUME NEW e \in Events, Retry(e) PROVE Inv'
    BY <1>0, <1>4, RetryStepKeeps
  <1>5. CASE Crash
    BY <1>0, <1>5, CrashKeeps
  <1> QED BY <1>1, <1>2, <1>3, <1>4, <1>5 DEF Next

LEMMA InitHolds ==
  ASSUME Init
  PROVE  Inv
  <1>1. \A e \in Events : actions[e] = NoAction /\ events[e] = "absent"
    BY DEF Init
  <1>2. \A f \in Flows : flows[f].phase = "idle"
    BY DEF Init, NoFlow
  <1>3. \A r \in Requests : Represented(r) \in Events /\ Requested(r) \in Events
    BY EventParts DEF Represented, Requested
  <1>4. Typed
    <2>1. NoAction \in Applications /\ NoFlow \in FlowTypes
      BY DEF NoAction, Applications, NoFlow, FlowTypes
    <2>2. TypeOK
      BY DEF Init, TypeOK, Status, Published
    <2> QED BY <2>1, <2>2, PermissionAssumption DEF Init, Typed, Sandboxes
  <1>5. Asked /\ Justifications
    BY <1>1, <1>2 DEF Init, Asked, Justifications, NoAction, GrantIsAuthorized
  <1>6. Ledger
    BY <1>1, <1>2 DEF Ledger, NoAction
  <1>7. Decisions /\ Finals
    BY <1>1, <1>3 DEF Init, Decisions, Finals, NoAction, Settling
  <1> QED BY <1>4, <1>5, <1>6, <1>7 DEF Inv

LEMMA Invariance == Spec => []Inv
<1>1. Init => Inv
  BY InitHolds
<1>2. Inv /\ [Next]_vars => Inv'
  BY StepKeeps
<1> QED BY <1>1, <1>2, PTL DEF Spec

(* Every variable keeps its type.                                             *)
THEOREM PermissionTypeCorrect == Spec => []TypeOK
<1>1. Inv => TypeOK
  BY DEF Inv, Typed
<1> QED BY <1>1, Invariance, PTL

(* Whoever drains the event a request was put in, after whatever crash, retry *)
(* or failed application: a grant is covered by a rule or by an approval of   *)
(* the user (kernel/control-kernel.ts decidePermission), and never where the  *)
(* platform denies.                                                           *)
THEOREM GrantsAreAuthorized == Spec => []GrantIsAuthorized
<1>1. Inv => GrantIsAuthorized
  BY DEF Inv, Justifications
<1> QED BY <1>1, Invariance, PTL

(* A request that is open is settled at most once. *)
Grown ==
    \A r \in Requests :
      \/ status'[r] = status[r]
      \/ status[r] = "none" /\ status'[r] = "pending"
      \/ status[r] \in Open /\ status'[r] \in {"granted", "denied", "escalated"}

LEMMA StatusStep ==
  ASSUME Inv, [Next]_vars
  PROVE  Grown
  <1>0. Typed /\ status \in [Requests -> Status]
    BY DEF Inv, Typed, TypeOK
  <1>1. Neutral => Grown
    BY DEF Neutral, Grown
  <1>2. ASSUME NEW f \in Flows, NEW e \in Events,
               StartGrant(f, e) \/ StartDeny(f, e) \/ StartEscalate(f, e) \/ StartRecover(f, e)
        PROVE  Grown
    <2>1. PICK r \in Requests : r = RequestOf(e)
      BY EventParts
    <2>2. ASSUME NEW a \in Settling, Starts(f, e, a), status' = [status EXCEPT ![r] = Final[a]]
          PROVE  Grown
      <3>1. actions[e].action = a
        BY <2>2 DEF Starts
      <3>2. status[r] \in Open \cup {Final[a]} /\ Final[a] \in {"granted", "denied"}
        BY <2>1, <2>2, <3>1 DEF Inv, Finals, Unstarted, Final, Settling
      <3> QED BY <1>0, <2>2, <3>2 DEF Grown
    <2>3. "grant" \in Settling /\ Final["grant"] = "granted"
          /\ "deny" \in Settling /\ Final["deny"] = "denied"
      BY DEF Settling, Final
    <2>4. CASE StartGrant(f, e)
      BY <2>1, <2>2, <2>3, <2>4 DEF StartGrant
    <2>5. CASE StartDeny(f, e)
      BY <2>1, <2>2, <2>3, <2>5 DEF StartDeny
    <2>6. CASE StartEscalate(f, e)
      BY <1>0, <2>6 DEF StartEscalate, Escalated, Grown, Open
    <2>7. CASE StartRecover(f, e)
      BY <2>7 DEF StartRecover, Grown
    <2> QED BY <1>2, <2>4, <2>5, <2>6, <2>7
  <1>3. ASSUME NEW f \in Flows, PromotionReturns(f)
        PROVE  Grown
    BY <1>0, <1>3 DEF PromotionReturns, Grown, Open
  <1>4. ASSUME NEW f \in Flows, NEW e \in Events, Issue(f, e) \/ RecoverRefused(f, e)
        PROVE  Grown
    BY <1>4 DEF Issue, RecoverRefused, requestVars, Grown
  <1>5. ASSUME NEW f \in Flows, ApplyEnds(f) \/ ApplyFails(f)
        PROVE  Grown
    BY <1>5 DEF ApplyEnds, ApplyFails, requestVars, Grown
  <1>6. ASSUME (\E e \in Events : Retry(e)) \/ Crash
        PROVE  Grown
    BY <1>6 DEF Retry, Crash, requestVars, Grown
  <1>7. ASSUME NEW f \in Flows, Calls(f) \/ RecoverReturns(f) \/ AskReturns(f) \/ DenialReturns(f)
        PROVE  Grown
    BY <1>1, <1>7, CallStepNeutral, OtherStepNeutral
  <1>8. ASSUME \/ \E q \in Requests : Expire(q) \/ StartupSkips(q)
               \/ \E a \in Attempts : Stop(a) \/ Launch(a)
               \/ UNCHANGED vars
        PROVE  Grown
    BY <1>1, <1>8, OtherStepNeutral
  <1> QED BY DrainsIs, <1>2, <1>3, <1>4, <1>5, <1>6, <1>7, <1>8 DEF Next

(* A denied request stays denied: a late grant, an escalation applied again   *)
(* and a publication that is withdrawn leave it alone                         *)
(* (storage/permission-repo.ts).                                              *)
THEOREM DenialsAreFinal == Spec => DeniedIsFinal
<1>1. ASSUME Inv, [Next]_vars PROVE \A r \in Requests : status[r] = "denied" => status'[r] = "denied"
  BY <1>1, StatusStep DEF Grown, Open
<1>2. Inv /\ [Next]_vars => [\A r \in Requests : status[r] = "denied" => status'[r] = "denied"]_vars
  BY <1>1
<1> QED BY <1>2, Invariance, PTL DEF Spec, DeniedIsFinal

(***************************************************************************)
(* Without crash and failure: whose work is due                            *)
(***************************************************************************)
LEMMA OneDue ==
  ASSUME Inv, OwnWork, NEW f \in Flows, flows[f].phase = "sync", NEW e \in Events, Due(e)
  PROVE  Owns(f, e) /\ e \in Queued /\ \A d \in Events : Due(d) => d = e
  <1>1. ASSUME NEW d \in Events, Due(d) PROVE Owns(f, d) /\ d \in Queued
    BY <1>1 DEF OwnWork
  <1>2. \A d \in Events : Due(d) => RequestOf(d) = RequestOf(e) /\ Kind(d) = Kind(e)
    <2>1. \A d \in Events : Due(d) => RequestOf(d) = flows[f].request /\ flows[f].kind \in KindOf[Kind(d)]
      BY <1>1 DEF Owns
    <2>2. \A d \in Events : Kind(d) \in {"requested", "represented", "approve", "deny"}
      BY EventParts
    <2> QED BY <2>1, <2>2 DEF KindOf
  <1>3. \A d \in Events : Due(d) => d = e
    BY <1>2, EventParts
  <1> QED BY <1>1, <1>3

LEMMA NoneDue ==
  ASSUME Inv, OwnWork, Quiet \/ \E f \in Flows : Drained(f)
  PROVE  \A e \in Events : ~Due(e)
  <1>1. Typed
    BY DEF Inv
  <1>2. CASE Quiet
    BY <1>2 DEF Quiet, OwnWork
  <1>3. CASE ~Quiet
    <2>1. Recoverable = {} /\ Claimable = {}
      BY <1>3 DEF Drained, OwnWork
    <2>2. \A e \in Events \cap Queued : ~Due(e)
      BY <1>1, <2>1, NextWork DEF Due
    <2> QED BY <2>2 DEF OwnWork
  <1> QED BY <1>2, <1>3

(* A call brings its event, and works it off before anybody else moves. *)
Joins(f, k, e) ==
    /\ Quiet /\ k \in KindOf[Kind(e)] /\ Enqueue(e) /\ Call(f, k, RequestOf(e))
    /\ UNCHANGED << grants, authorized, published, startup >>
    /\ status'[RequestOf(e)] # "none"
    /\ \A r \in Requests : status'[r] = status[r] \/ (status[r] = "none" /\ status'[r] = "pending")
    /\ Kind(e) \in {"approve", "deny"} => status[RequestOf(e)] \in Open
    /\ k = "promotion" => RequestOf(e) \in Promotions /\ status[RequestOf(e)] = "none"
    /\ k # "promotion" /\ RequestOf(e) \in Promotions => published[RequestOf(e)] # "none"

(* Or it goes, and nothing is due. *)
Leaves(f) ==
    /\ flows'[f].phase \in {"idle", "checkpoint"}
    /\ \A g \in Flows \ {f} : flows'[g] = flows[g]
    /\ UNCHANGED ledgerVars /\ startup' \subseteq startup
    /\ \A e \in Events : ~Due(e)

LEMMA JoinEffects ==
  ASSUME Inv, OwnWork, NEW f \in Flows, NEW k, NEW e \in Events, Joins(f, k, e)
  PROVE  /\ flows'[f] = [phase |-> "sync", kind |-> k, request |-> RequestOf(e)]
         /\ \A g \in Flows \ {f} : flows'[g] = flows[g]
         /\ \A g \in Flows : flows[g].phase # "sync"
         /\ actions' = actions
         /\ \A d \in Events \ {e} : events'[d] = events[d]
         /\ \/ events'[e] = events[e] /\ events[e] # "absent"
            \/ events'[e] = "pending" /\ e \in Queued' /\ (Once(e) => events[e] = "absent")
         /\ \A d \in Events : ~Due(d) /\ (Due(d)' => d = e)
         /\ Due(e)' => events'[e] = "pending" /\ e \in Queued'
         /\ events[e] = "absent" => Due(e)'
  <1>0. Typed
    BY DEF Inv
  <1>1. k \in CallKind /\ RequestOf(e) \in Requests
    <2>1. Kind(e) \in {"requested", "represented", "approve", "deny"} /\ RequestOf(e) \in Requests
      BY EventParts
    <2> QED BY <2>1 DEF Joins, KindOf, CallKind
  <1>2. /\ flows'[f] = [phase |-> "sync", kind |-> k, request |-> RequestOf(e)]
        /\ \A g \in Flows \ {f} : flows'[g] = flows[g]
        /\ \A g \in Flows : flows[g].phase # "sync"
    BY <1>0, <1>1, CallTyped DEF Joins, Quiet
  <1>3. /\ actions' = actions
        /\ \/ events' = events /\ order' = order /\ events[e] # "absent"
           \/ /\ events[e] = "absent" \/ (Kind(e) = "represented" /\ events[e] = "decided")
              /\ events' = [events EXCEPT ![e] = "pending"] /\ Queued' = Queued \cup {e}
    BY <1>0, EnqueueTyped DEF Joins
  <1>4. \A d \in Events : ~Due(d)
    BY NoneDue DEF Joins
  <1>5. events \in [Events -> {"absent", "pending", "decided"}]
    BY <1>0 DEF Typed, TypeOK
  <1>6. /\ \A d \in Events \ {e} : events'[d] = events[d]
        /\ \/ events'[e] = events[e] /\ events[e] # "absent"
           \/ events'[e] = "pending" /\ e \in Queued' /\ (Once(e) => events[e] = "absent")
    BY <1>3, <1>5 DEF Once
  <1>7. \A d \in Events : Due(d)' => d = e
    BY <1>3, <1>4, <1>6 DEF Due
  <1>8. Due(e)' => events'[e] = "pending" /\ e \in Queued'
    BY <1>3, <1>4, <1>6 DEF Due
  <1>9. events[e] = "absent" => Due(e)'
    BY <1>6 DEF Due
  <1> QED BY <1>2, <1>3, <1>4, <1>6, <1>7, <1>8, <1>9

LEMMA JoinKeepsOwnWork ==
  ASSUME Inv, OwnWork, NEW f \in Flows, NEW k, NEW e \in Events, Joins(f, k, e)
  PROVE  OwnWork'
  <1> DEFINE new == [phase |-> "sync", kind |-> k, request |-> RequestOf(e)]
  <1>1. /\ flows'[f] = new
        /\ \A g \in Flows \ {f} : flows'[g] = flows[g]
        /\ \A g \in Flows : flows[g].phase # "sync"
        /\ actions' = actions
        /\ \A d \in Events \ {e} : events'[d] = events[d]
        /\ \A d \in Events : ~Due(d) /\ (Due(d)' => d = e)
        /\ Due(e)' => events'[e] = "pending" /\ e \in Queued'
    BY JoinEffects
  <1>2. new.phase = "sync" /\ new.kind = k /\ new.request = RequestOf(e)
    OBVIOUS
  <1> HIDE DEF new
  <1>3. k \in KindOf[Kind(e)] /\ k # "recover" /\ startup' = startup
    BY EventParts DEF Joins, KindOf
  <1>4. Owns(f, e)'
    BY <1>1, <1>2, <1>3 DEF Owns
  <1>5. \A d \in Events : Due(d)' => d \in Queued' /\ \E g \in Flows : flows'[g].phase = "sync" /\ Owns(g, d)'
    BY <1>1, <1>2, <1>4
  <1>6. \A g \in Flows : flows'[g].phase = "applying" => Owns(g, flows[g].event)' /\ flows'[g] = flows[g]
    BY <1>1, <1>2 DEF OwnWork, Owns
  <1>7. \A d \in Events : events'[d] = "pending" => actions'[d].application # "pending"
    BY <1>1 DEF Due
  <1>8. \A g \in Flows : flows'[g].phase # "broken" /\ (Working(g)' => flows'[g].kind # "recover")
    BY <1>1, <1>2, <1>3 DEF OwnWork, Working
  <1>9. \A g, h \in Flows : flows'[g].phase = "sync" /\ flows'[h].phase = "sync" => g = h
    BY <1>1, <1>2
  <1> QED BY <1>1, <1>3, <1>5, <1>6, <1>7, <1>8, <1>9 DEF OwnWork, Working

LEMMA LeaveKeepsOwnWork ==
  ASSUME Inv, OwnWork, NEW f \in Flows, Leaves(f)
  PROVE  OwnWork'
  <1>1. \A e \in Events : ~Due(e)' /\ actions'[e] = actions[e]
    BY DEF Leaves, ledgerVars, Due
  <1>2. \A g \in Flows : \/ flows'[g].phase \in {"idle", "checkpoint"}
                         \/ flows'[g] = flows[g]
    BY DEF Leaves
  <1>3. \A g \in Flows : /\ flows'[g].phase # "broken" /\ (Working(g)' => flows'[g].kind # "recover")
                         /\ flows'[g].phase = "applying" => Owns(g, flows[g].event)' /\ flows'[g] = flows[g]
    BY <1>2 DEF OwnWork, Working, Owns
  <1>4. \A g, h \in Flows : flows'[g].phase = "sync" /\ flows'[h].phase = "sync" => g = h
    BY <1>2 DEF OwnWork
  <1>5. startup' = {}
    BY DEF Leaves, OwnWork
  <1>6. \A e \in Events : actions'[e].application # "uncertain"
    BY <1>1 DEF OwnWork
  <1> QED BY <1>1, <1>3, <1>4, <1>5, <1>6 DEF OwnWork, Working, Due

LEMMA IssueKeepsOwnWork ==
  ASSUME Inv, OwnWork, NEW f \in Flows, NEW e \in Events, Issue(f, e)
  PROVE  /\ OwnWork' /\ Due(e) /\ Owns(f, e)
         /\ events[e] = "pending" /\ events'[e] = "decided"
         /\ actions'[e].action = Decided(e) /\ actions'[e].application = "pending"
         /\ \A d \in Events \ {e} : actions'[d] = actions[d] /\ events'[d] = events[d]
         /\ \A d \in Events : Due(d)' <=> Due(d)
  <1>0. Typed
    BY DEF Inv
  <1>1. events[e] = "pending" /\ flows[f].phase = "sync"
    BY <1>0, NextWork DEF Issue
  <1>2. Due(e)
    BY <1>1 DEF Due
  <1>3. Owns(f, e) /\ e \in Queued
    BY <1>1, <1>2, OneDue
  <1>4. /\ actions'[e].action = Decided(e) /\ actions'[e].application = "pending"
        /\ \A d \in Events \ {e} : actions'[d] = actions[d]
        /\ events'[e] = "decided" /\ \A d \in Events \ {e} : events'[d] = events[d]
    BY <1>0 DEF Issue, Typed, TypeOK
  <1>5. \A d \in Events : Due(d)' <=> Due(d)
    BY <1>2, <1>4 DEF Due
  <1>6. UNCHANGED << order, flows, startup >> /\ Queued' = Queued
    BY DEF Issue, Queued
  <1>7. OwnWork'
    <2>1. \A d \in Events : actions'[d].application # "uncertain"
      BY <1>4 DEF OwnWork
    <2>2. \A d \in Events : events'[d] = "pending" => actions'[d].application # "pending"
      BY <1>4 DEF OwnWork
    <2>3. \A g \in Flows, d \in Events : Owns(g, d)' <=> Owns(g, d)
      BY <1>6 DEF Owns
    <2>4. \A d \in Events : Due(d)' => d \in Queued' /\ \E g \in Flows : flows'[g].phase = "sync" /\ Owns(g, d)'
      BY <1>5, <1>6, <2>3 DEF OwnWork
    <2>5. \A g \in Flows : flows'[g].phase = "applying" => Owns(g, flows[g].event)'
      BY <1>6 DEF OwnWork, Owns
    <2> QED BY <1>6, <2>1, <2>2, <2>4, <2>5 DEF OwnWork
  <1> QED BY <1>1, <1>2, <1>3, <1>4, <1>5, <1>7

LEMMA StartsKeepsOwnWork ==
  ASSUME Inv, OwnWork, NEW f \in Flows, NEW e \in Events, NEW a \in Action, Starts(f, e, a)
  PROVE  /\ OwnWork' /\ Due(e) /\ Owns(f, e) /\ \A d \in Events : ~Due(d)'
         /\ flows'[f].phase = "applying" /\ flows'[f].event = e
         /\ flows'[f].kind = flows[f].kind /\ flows'[f].request = flows[f].request
         /\ \A g \in Flows \ {f} : flows'[g] = flows[g] /\ flows[g].phase # "sync"
         /\ actions[e].action = a /\ actions[e].application = "pending"
         /\ actions'[e].action = a /\ actions'[e].application = "applying"
         /\ \A d \in Events \ {e} : actions'[d] = actions[d]
         /\ events' = events /\ flows[f].phase = "sync" /\ \A d \in Events : Due(d) => d = e
  <1>0. Typed
    BY DEF Inv
  <1> DEFINE new == [phase |-> "applying", event |-> e, kind |-> flows[f].kind, request |-> flows[f].request]
  <1>1. /\ flows'[f] = new /\ \A g \in Flows \ {f} : flows'[g] = flows[g]
        /\ flows[f].phase = "sync"
        /\ actions' = [actions EXCEPT ![e].application = "applying"]
        /\ actions[e].action = a /\ actions[e].application = "pending"
    BY <1>0, StartsTyped
  <1>2. /\ new.phase = "applying" /\ new.event = e /\ new.kind = flows[f].kind
        /\ new.request = flows[f].request
    OBVIOUS
  <1> HIDE DEF new
  <1>3. /\ actions'[e].action = a /\ actions'[e].application = "applying"
        /\ \A d \in Events \ {e} : actions'[d] = actions[d]
    BY <1>0, <1>1, MarkTyped
  <1>4. Due(e)
    BY <1>1 DEF Due
  <1>5. Owns(f, e) /\ \A d \in Events : Due(d) => d = e
    BY <1>1, <1>4, OneDue
  <1>6. events' = events /\ events[e] # "pending" /\ startup' = startup
    BY <1>1 DEF Starts, OwnWork
  <1>7. \A d \in Events : ~Due(d)'
    BY <1>3, <1>5, <1>6 DEF Due
  <1>8. \A g \in Flows \ {f} : flows[g].phase # "sync"
    BY <1>1 DEF OwnWork
  <1>9. OwnWork'
    <2>1. \A d \in Events : actions'[d].application # "uncertain"
      BY <1>3 DEF OwnWork
    <2>2. \A g \in Flows : flows'[g].phase # "broken" /\ flows'[g].phase # "sync"
      BY <1>1, <1>2, <1>8 DEF OwnWork
    <2>3. ASSUME NEW g \in Flows, flows'[g].phase = "applying"
          PROVE  flows'[g].kind # "recover" /\ Owns(g, flows[g].event)'
      <3>1. CASE g = f
        BY <1>1, <1>2, <1>5, <3>1 DEF OwnWork, Owns
      <3>2. CASE g # f
        BY <1>1, <2>3, <3>2 DEF OwnWork, Owns
      <3> QED BY <3>1, <3>2
    <2>4. \A d \in Events : events'[d] = "pending" => actions'[d].application # "pending"
      BY <1>7 DEF Due
    <2> QED BY <1>6, <1>7, <2>1, <2>2, <2>3, <2>4 DEF OwnWork
  <1> QED BY <1>1, <1>2, <1>3, <1>4, <1>5, <1>6, <1>7, <1>8, <1>9

LEMMA ApplyEndsKeepsOwnWork ==
  ASSUME Inv, OwnWork, NEW f \in Flows, ApplyEnds(f), NEW e \in Events, e = flows[f].event
  PROVE  /\ OwnWork' /\ Owns(f, e) /\ \A d \in Events : ~Due(d) /\ ~Due(d)'
         /\ flows[f].phase = "applying" /\ flows'[f].phase = "sync"
         /\ flows'[f].kind = flows[f].kind /\ flows'[f].request = flows[f].request
         /\ \A g \in Flows \ {f} : flows'[g] = flows[g] /\ flows[g].phase # "sync"
         /\ actions'[e].action = actions[e].action /\ actions'[e].application = "applied"
         /\ \A d \in Events \ {e} : actions'[d] = actions[d]
         /\ events' = events
  <1>0. Typed
    BY DEF Inv
  <1> DEFINE new == [phase |-> "sync", kind |-> flows[f].kind, request |-> flows[f].request]
  <1>1. flows[f].phase = "applying" /\ flows[f].kind \in CallKind /\ flows[f].request \in Requests
    BY <1>0, FlowParts DEF ApplyEnds
  <1>2. flows'[f] = new /\ \A g \in Flows \ {f} : flows'[g] = flows[g]
    BY <1>0, <1>1, CallTyped DEF ApplyEnds
  <1>3. new.phase = "sync" /\ new.kind = flows[f].kind /\ new.request = flows[f].request
    OBVIOUS
  <1> HIDE DEF new
  <1>4. \A g \in Flows : flows[g].phase # "sync"
    BY DEF ApplyEnds, Quiet
  <1>5. \A d \in Events : ~Due(d)
    BY NoneDue DEF ApplyEnds
  <1>6. /\ actions'[e].action = actions[e].action /\ actions'[e].application = "applied"
        /\ \A d \in Events \ {e} : actions'[d] = actions[d]
    BY <1>0, MarkTyped DEF ApplyEnds
  <1>7. events' = events /\ startup' = startup
    BY DEF ApplyEnds
  <1>8. \A d \in Events : ~Due(d)'
    BY <1>5, <1>6, <1>7 DEF Due
  <1>9. Owns(f, e)
    BY <1>1 DEF OwnWork
  <1>10. OwnWork'
    <2>1. \A d \in Events : actions'[d].application # "uncertain"
      BY <1>6 DEF OwnWork
    <2>2. ASSUME NEW g \in Flows
          PROVE  /\ flows'[g].phase # "broken"
                 /\ flows'[g].phase \in {"sync", "applying"} => flows'[g].kind # "recover"
                 /\ flows'[g].phase = "applying" => Owns(g, flows[g].event)'
                 /\ flows'[g].phase = "sync" => g = f
      <3>1. CASE g = f
        BY <1>1, <1>2, <1>3, <3>1 DEF OwnWork
      <3>2. CASE g # f
        BY <1>2, <1>4, <3>2 DEF OwnWork, Owns
      <3> QED BY <3>1, <3>2
    <2>3. \A d \in Events : events'[d] = "pending" => actions'[d].application # "pending"
      BY <1>8 DEF Due
    <2> QED BY <1>7, <1>8, <2>1, <2>2, <2>3 DEF OwnWork
  <1> QED BY <1>1, <1>2, <1>3, <1>4, <1>5, <1>6, <1>7, <1>8, <1>9, <1>10

(***************************************************************************)
(* Without crash and failure: requests, publications and denials           *)
(***************************************************************************)
(* What every step does that no call joins in. *)
Steady ==
    /\ Grown /\ authorized \subseteq authorized'
    /\ \A g \in Flows : Working(g)' =>
         Working(g) /\ flows'[g].kind = flows[g].kind /\ flows'[g].request = flows[g].request
    /\ \A d \in Events :
         /\ Due(d)' => Due(d)
         /\ events'[d] = "pending" => events[d] = "pending" /\ UNCHANGED status
         /\ events'[d] = "absent" <=> events[d] = "absent"
         /\ \/ actions'[d].action = actions[d].action
            \/ /\ events[d] = "pending"
               /\ actions'[d].action = Decided(d) /\ actions'[d].application = "pending"
    /\ \A r \in Requests :
         /\ actions'[Requested(r)].action = "escalate" /\ actions'[Requested(r)].application # "pending"
              => actions[Requested(r)].application # "pending" \/ status'[r] \notin {"none", "pending"}
         /\ Due(<< "deny", r >>) => Due(<< "deny", r >>)' \/ status'[r] = "denied"
    /\ \A p \in Promotions :
         /\ actions'[Approval(p)].action = "recover"
              /\ actions'[Approval(p)].application \in {"applying", "applied"}
              => \/ published'[p] # "awaiting_approval"
                 \/ actions[Approval(p)].application \in {"applying", "applied"}
         /\ \/ published'[p] = published[p]
            \/ /\ \A d \in Events : ~Due(d)'
               /\ \/ /\ published[p] = "awaiting_approval" /\ published'[p] = "pending"
                     /\ p \in authorized' /\ events[Approval(p)] # "absent"
                  \/ /\ published[p] = "none" /\ published'[p] = "awaiting_approval"
                     /\ status[p] # "none"
                     /\ \A g \in Flows : Working(g)' /\ flows'[g].kind = "promotion"
                                           => flows'[g].request # p
                  \/ /\ published[p] = "awaiting_approval" /\ published'[p] = "denied"
                     /\ status'[p] = "denied"

LEMMA SteadyKeeps ==
  ASSUME Inv, Serene, Typed', Steady
  PROVE  Lives' /\ LandsAlone' /\ Publishing' /\ Denies'
  <1>0. Typed
    BY DEF Inv
  <1>1. /\ \A g \in Flows : Working(g) => flows[g].request \in Requests
        /\ \A r \in Requests : /\ status[r] # "none" => status'[r] # "none"
                               /\ status[r] = "denied" => status'[r] = "denied"
                               /\ status[r] \notin {"none", "pending"} => status'[r] \notin {"none", "pending"}
    BY <1>0, FlowParts DEF Steady, Grown, Open, Working
  <1>2. /\ \A r \in Requests : Requested(r) \in Events /\ << "approve", r >> \in Events
                               /\ << "deny", r >> \in Events
        /\ \A p \in Promotions : p \in Requests /\ Approval(p) \in Events /\ Once(Approval(p))
                                 /\ Approval(p) = << "approve", p >>
    BY EventParts, PermissionAssumption DEF Requested, Approval, Once
  <1>3. Lives'
    <2>1. ASSUME NEW g \in Flows, Working(g)' PROVE status'[flows'[g].request] # "none"
      <3>1. PICK r \in Requests : r = flows[g].request /\ flows'[g].request = r /\ Working(g)
        BY <1>1, <2>1 DEF Steady
      <3> QED BY <1>1, <3>1 DEF Serene, Lives, Working
    <2>2. ASSUME NEW r \in Requests, actions'[Requested(r)].action = "escalate",
                 actions'[Requested(r)].application # "pending"
          PROVE  status'[r] \notin {"none", "pending"}
      <3>1. actions[Requested(r)].action = "escalate"
        BY <1>2, <2>2 DEF Steady
      <3> QED BY <1>1, <2>2, <3>1 DEF Steady, Serene, Lives
    <2>3. ASSUME NEW k \in {"approve", "deny"}, NEW r \in Requests, events'[<< k, r >>] = "pending"
          PROVE  status'[r] \in Open
      <3>1. << k, r >> \in Events
        BY EventParts
      <3>2. events[<< k, r >>] = "pending" /\ status' = status
        BY <2>3, <3>1 DEF Steady
      <3> QED BY <3>2 DEF Serene, Lives
    <2>4. ASSUME NEW r \in Requests
          PROVE  /\ actions'[<< "approve", r >>].action \in {"none", "recover"}
                 /\ actions'[<< "deny", r >>].action \in {"none", "deny"}
      <3>1. \A k \in {"approve", "deny"} : events[<< k, r >>] = "pending" =>
              Decided(<< k, r >>) = IF k = "approve" THEN "recover" ELSE "deny"
        <4>1. SUFFICES ASSUME NEW k \in {"approve", "deny"}, events[<< k, r >>] = "pending"
                       PROVE  Decided(<< k, r >>) = IF k = "approve" THEN "recover" ELSE "deny"
          OBVIOUS
        <4>2. status[r] \in Open /\ Kind(<< k, r >>) = k /\ RequestOf(<< k, r >>) = r
          BY <4>1, EventParts DEF Serene, Lives
        <4> QED BY <4>2 DEF Decided, Open
      <3> QED BY <1>2, <3>1 DEF Steady, Serene, Lives
    <2> QED BY <2>1, <2>2, <2>3, <2>4 DEF Lives, Working
  <1>4. LandsAlone'
    <2>1. ASSUME NEW g \in Flows, Working(g)', flows'[g].kind = "promotion"
          PROVE  /\ flows'[g].request \in Promotions /\ published'[flows'[g].request] = "none"
                 /\ \A h \in Flows \ {g} : Working(h)' => flows'[h].request # flows'[g].request
      <3>1. PICK p \in Promotions : p = flows[g].request /\ flows'[g].request = p /\ published[p] = "none"
        BY <2>1 DEF Steady, Serene, LandsAlone
      <3>2. published'[p] = "none"
        BY <2>1, <3>1 DEF Steady
      <3>3. \A h \in Flows \ {g} : Working(h)' => flows'[h].request # p
        BY <2>1, <3>1 DEF Steady, Serene, LandsAlone
      <3> QED BY <3>1, <3>2, <3>3
    <2> QED BY <2>1 DEF LandsAlone
  <1>5. Publishing'
    <2>1. ASSUME NEW p \in Promotions, published'[p] = "none"
          PROVE  events'[Approval(p)] = "absent"
      BY <1>2, <2>1 DEF Steady, Serene, Publishing
    <2>2. ASSUME NEW p \in Promotions, status'[p] = "none"
          PROVE  published'[p] = "none"
      BY <1>1, <1>2, <2>2 DEF Steady, Serene, Publishing
    <2>3. ASSUME NEW p \in Promotions, Due(Approval(p))'
          PROVE  published'[p] = "awaiting_approval"
      BY <1>2, <2>3 DEF Steady, Serene, Publishing
    <2>4. ASSUME NEW p \in Promotions, actions'[Approval(p)].action = "recover",
                 actions'[Approval(p)].application \in {"applying", "applied"}
          PROVE  published'[p] # "awaiting_approval"
      <3>1. SUFFICES ASSUME actions[Approval(p)].application \in {"applying", "applied"}
                     PROVE  published'[p] # "awaiting_approval"
        BY <2>4 DEF Steady
      <3>2. actions[Approval(p)].action = "recover"
        BY <1>2, <2>4 DEF Steady
      <3>3. published[p] # "awaiting_approval"
        BY <3>1, <3>2 DEF Serene, Publishing
      <3>4. published[p] # "none"
        BY <1>2, <3>2 DEF Serene, Publishing, Inv, Ledger
      <3> QED BY <3>3, <3>4 DEF Steady
    <2>5. ASSUME NEW p \in Promotions, published'[p] = "pending"
          PROVE  p \in authorized' /\ events'[Approval(p)] # "absent"
      BY <1>2, <2>5 DEF Steady, Serene, Publishing
    <2>6. ASSUME NEW p \in Promotions, published'[p] = "denied"
          PROVE  status'[p] = "denied"
      BY <1>1, <1>2, <2>6 DEF Steady, Serene, Publishing
    <2> QED BY <2>1, <2>2, <2>3, <2>4, <2>5, <2>6 DEF Publishing
  <1>6. Denies'
    <2>1. ASSUME NEW g \in Flows, Working(g)', flows'[g].kind = "deny"
          PROVE  status'[flows'[g].request] = "denied" \/ Due(<< "deny", flows[g].request >>)'
      <3>1. PICK r \in Requests : r = flows[g].request /\ flows'[g].request = r /\ Working(g)
        BY <1>1, <2>1 DEF Steady
      <3>2. flows[g].kind = "deny"
        BY <2>1 DEF Steady
      <3>3. status[r] = "denied" \/ Due(<< "deny", r >>)
        BY <3>1, <3>2 DEF Serene, Denies
      <3> QED BY <1>1, <3>1, <3>3 DEF Steady
    <2>2. \A g \in Flows : Working(g)' => flows'[g].request = flows[g].request
      BY DEF Steady
    <2> QED BY <2>1, <2>2 DEF Denies, Due
  <1> QED BY <1>3, <1>4, <1>5, <1>6

LEMMA JoinKeeps ==
  ASSUME Inv, Serene, Typed', NEW f \in Flows, NEW k, NEW e \in Events, Joins(f, k, e)
  PROVE  Lives' /\ LandsAlone' /\ Publishing' /\ Denies'
  <1>0. Typed
    BY DEF Inv
  <1>1. /\ flows'[f] = [phase |-> "sync", kind |-> k, request |-> RequestOf(e)]
        /\ \A g \in Flows \ {f} : flows'[g] = flows[g]
        /\ actions' = actions
        /\ \A d \in Events \ {e} : events'[d] = events[d]
        /\ \/ events'[e] = events[e] /\ events[e] # "absent"
           \/ events'[e] = "pending" /\ (Once(e) => events[e] = "absent")
        /\ \A d \in Events : ~Due(d) /\ (Due(d)' => d = e)
        /\ Due(e)' => events'[e] = "pending"
        /\ events[e] = "absent" => Due(e)'
    BY JoinEffects DEF Serene
  <1>2. PICK q \in Requests : q = RequestOf(e)
    BY EventParts
  <1>3. /\ flows'[f].phase = "sync" /\ flows'[f].kind = k /\ flows'[f].request = q
        /\ k \in KindOf[Kind(e)] /\ UNCHANGED << authorized, published >>
        /\ Kind(e) \in {"approve", "deny"} => status[q] \in Open
        /\ k = "promotion" => q \in Promotions /\ status[q] = "none"
        /\ k # "promotion" /\ q \in Promotions => published[q] # "none"
    BY <1>1, <1>2 DEF Joins
  <1>4. /\ \A g \in Flows : Working(g) => flows[g].request \in Requests
        /\ \A r \in Requests : /\ status[r] # "none" => status'[r] # "none"
                               /\ status[r] = "denied" => status'[r] = "denied"
                               /\ status[r] \notin {"none", "pending"} => status'[r] \notin {"none", "pending"}
                               /\ status[r] \in Open => status'[r] \in Open
        /\ status'[q] # "none"
    BY <1>0, <1>2, FlowParts DEF Joins, Open, Working
  <1>5. /\ \A r \in Requests : Requested(r) \in Events /\ << "approve", r >> \in Events
                               /\ << "deny", r >> \in Events
        /\ \A p \in Promotions : p \in Requests /\ Approval(p) \in Events /\ Once(Approval(p))
                                 /\ Approval(p) = << "approve", p >>
                                 /\ Kind(Approval(p)) = "approve" /\ RequestOf(Approval(p)) = p
    BY EventParts, PermissionAssumption DEF Requested, Approval, Once
  <1>6. Kind(e) \in {"requested", "represented", "approve", "deny"} /\ e = << Kind(e), q >>
    BY <1>2, EventParts
  <1>7. Lives'
    <2>1. ASSUME NEW g \in Flows, Working(g)' PROVE status'[flows'[g].request] # "none"
      <3>1. CASE g = f
        BY <1>3, <1>4, <3>1
      <3>2. CASE g # f
        <4>1. PICK r \in Requests : r = flows[g].request /\ flows'[g].request = r /\ Working(g)
          BY <1>1, <1>4, <2>1, <3>2 DEF Working
        <4> QED BY <1>4, <4>1 DEF Serene, Lives, Working
      <3> QED BY <3>1, <3>2
    <2>2. \A r \in Requests : actions'[Requested(r)].action = "escalate"
            /\ actions'[Requested(r)].application # "pending" => status'[r] \notin {"none", "pending"}
      BY <1>1, <1>4 DEF Serene, Lives
    <2>3. ASSUME NEW c \in {"approve", "deny"}, NEW r \in Requests, events'[<< c, r >>] = "pending"
          PROVE  status'[r] \in Open
      <3>1. << c, r >> \in Events /\ Kind(<< c, r >>) = c /\ RequestOf(<< c, r >>) = r
        BY EventParts
      <3>2. << c, r >> = e
        BY <1>1, <2>3, <3>1 DEF Due
      <3> QED BY <1>2, <1>3, <1>4, <3>1, <3>2
    <2> QED BY <1>1, <2>1, <2>2, <2>3 DEF Lives, Working, Serene
  <1>8. LandsAlone'
    <2>1. ASSUME NEW g \in Flows, Working(g)', flows'[g].kind = "promotion"
          PROVE  /\ flows'[g].request \in Promotions /\ published'[flows'[g].request] = "none"
                 /\ \A h \in Flows \ {g} : Working(h)' => flows'[h].request # flows'[g].request
      <3>1. CASE g = f
        <4>1. q \in Promotions /\ status[q] = "none" /\ published[q] = "none"
          BY <1>3, <2>1, <3>1 DEF Serene, Publishing
        <4>2. \A h \in Flows \ {f} : Working(h)' => flows'[h].request # q
          BY <1>1, <4>1 DEF Serene, Lives, Working
        <4> QED BY <1>3, <3>1, <4>1, <4>2
      <3>2. CASE g # f
        <4>1. PICK p \in Promotions : p = flows[g].request /\ flows'[g].request = p /\ published[p] = "none"
          BY <1>1, <2>1, <3>2 DEF Serene, LandsAlone, Working
        <4>2. Working(g) /\ flows[g].kind = "promotion"
          BY <1>1, <2>1, <3>2 DEF Working
        <4>3. \A h \in Flows \ {g, f} : Working(h)' => flows'[h].request # p
          BY <1>1, <4>1, <4>2 DEF Serene, LandsAlone, Working
        <4>4. status[p] # "none"
          BY <4>1, <4>2 DEF Serene, Lives, Working
        <4>5. flows'[f].request # p
          BY <1>3, <4>1, <4>4
        <4> QED BY <1>3, <4>1, <4>3, <4>5
      <3> QED BY <3>1, <3>2
    <2> QED BY <2>1 DEF LandsAlone
  <1>9. Publishing'
    <2>1. \A p \in Promotions : Approval(p) = e =>
            k = "approve" /\ q = p /\ published[p] # "none" /\ status[p] \in Open
      BY <1>2, <1>3, <1>5 DEF KindOf
    <2>2. ASSUME NEW p \in Promotions, published'[p] = "none"
          PROVE  events'[Approval(p)] = "absent"
      BY <1>1, <1>3, <1>5, <2>1, <2>2 DEF Serene, Publishing
    <2>3. ASSUME NEW p \in Promotions, status'[p] = "none"
          PROVE  published'[p] = "none"
      BY <1>3, <1>4, <1>5, <2>3 DEF Serene, Publishing
    <2>4. ASSUME NEW p \in Promotions, Due(Approval(p))'
          PROVE  published'[p] = "awaiting_approval"
      <3>1. Approval(p) = e /\ events'[e] = "pending" /\ events[e] # "pending"
        BY <1>1, <1>5, <2>4 DEF Due
      <3>2. events[Approval(p)] = "absent" /\ published[p] # "none" /\ status[p] # "denied"
        BY <1>1, <1>5, <2>1, <3>1 DEF Open
      <3>3. published[p] \in Published
        BY <1>0 DEF Typed, TypeOK
      <3> QED BY <1>3, <3>2, <3>3 DEF Serene, Publishing, Published
    <2>5. \A p \in Promotions :
             actions'[Approval(p)].action = "recover"
               /\ actions'[Approval(p)].application \in {"applying", "applied"}
               => published'[p] # "awaiting_approval"
      BY <1>1, <1>3 DEF Serene, Publishing
    <2>6. ASSUME NEW p \in Promotions, published'[p] = "pending"
          PROVE  p \in authorized' /\ events'[Approval(p)] # "absent"
      BY <1>1, <1>3, <1>5, <2>6 DEF Serene, Publishing
    <2>7. ASSUME NEW p \in Promotions, published'[p] = "denied"
          PROVE  status'[p] = "denied"
      BY <1>3, <1>4, <1>5, <2>7 DEF Serene, Publishing
    <2> QED BY <2>2, <2>3, <2>4, <2>5, <2>6, <2>7 DEF Publishing
  <1>10. Denies'
    <2>1. ASSUME NEW g \in Flows, Working(g)', flows'[g].kind = "deny"
          PROVE  \E r \in Requests : r = flows'[g].request
                                     /\ (status'[r] = "denied" \/ Due(<< "deny", r >>)')
      <3>1. CASE g = f
        <4>1. e = << "deny", q >> /\ status[q] \in Open
          BY <1>3, <1>6, <2>1, <3>1 DEF KindOf
        <4>2. ASSUME events[e] # "absent" PROVE FALSE
          <5>1. events[e] = "decided" /\ actions[e].application # "pending"
            BY <1>0, <1>1, <4>2 DEF Due, Typed, TypeOK
          <5>2. Once(e) /\ actions[e].action # "none"
            BY <1>6, <4>1, <5>1, EventParts DEF Once, Inv, Ledger
          <5>3. actions[e].action = "deny"
            BY <4>1, <5>2 DEF Serene, Lives
          <5>4. status[q] = "denied"
            BY <1>2, <5>1, <5>3 DEF Inv, Finals, Unstarted, Final, Settling
          <5> QED BY <4>1, <5>4 DEF Open
        <4>3. Due(e)'
          BY <1>1, <4>2
        <4> QED BY <1>3, <3>1, <4>1, <4>3
      <3>2. CASE g # f
        <4>1. PICK r \in Requests : r = flows[g].request /\ flows'[g].request = r /\ Working(g)
                                    /\ flows[g].kind = "deny"
          BY <1>1, <1>4, <2>1, <3>2 DEF Working
        <4>2. status[r] = "denied"
          BY <1>1, <1>5, <4>1 DEF Serene, Denies
        <4> QED BY <1>4, <4>1, <4>2
      <3> QED BY <3>1, <3>2
    <2> QED BY <2>1 DEF Denies, Due
  <1> QED BY <1>7, <1>8, <1>9, <1>10

(* Each other step is steady. *)
LEMMA StillSteady ==
  ASSUME Inv, Serene, Grown,
         \/ UNCHANGED << status, authorized, published, ledgerVars, flows >>
         \/ \E f \in Flows : Leaves(f) /\ UNCHANGED << authorized, published >>
  PROVE  Steady
  <1>1. /\ UNCHANGED << authorized, published, events, actions >>
        /\ \A g \in Flows : Working(g)' =>
             Working(g) /\ flows'[g].kind = flows[g].kind /\ flows'[g].request = flows[g].request
    BY DEF Leaves, ledgerVars, Working
  <1>2. \A d \in Events : Due(d)' <=> Due(d)
    BY <1>1 DEF Due
  <1>3. \A r \in Requests : << "deny", r >> \in Events
    BY EventParts
  <1>4. \A d \in Events : events[d] = "pending" => status' = status
    BY DEF Leaves, Due
  <1> QED BY <1>1, <1>2, <1>3, <1>4 DEF Steady

LEMMA IssueSteady ==
  ASSUME Inv, Serene, Grown, NEW f \in Flows, NEW e \in Events, Issue(f, e)
  PROVE  Steady
  <1>1. /\ events[e] = "pending" /\ events'[e] = "decided"
        /\ actions'[e].action = Decided(e) /\ actions'[e].application = "pending"
        /\ \A d \in Events \ {e} : actions'[d] = actions[d] /\ events'[d] = events[d]
        /\ \A d \in Events : Due(d)' <=> Due(d)
    BY IssueKeepsOwnWork DEF Serene
  <1>2. UNCHANGED << status, authorized, published, flows >>
    BY DEF Issue, requestVars
  <1>3. \A r \in Requests : << "deny", r >> \in Events /\ Requested(r) \in Events
    BY EventParts DEF Requested
  <1>4. \A p \in Promotions : Approval(p) \in Events
    BY EventParts, PermissionAssumption DEF Approval
  <1> QED BY <1>1, <1>2, <1>3, <1>4 DEF Steady, Working

LEMMA ApplyEndsSteady ==
  ASSUME Inv, Serene, Grown, NEW f \in Flows, ApplyEnds(f)
  PROVE  Steady
  <1>1. PICK e \in Events : e = flows[f].event
    BY FlowParts DEF ApplyEnds, Inv
  <1>2. /\ \A d \in Events : ~Due(d) /\ ~Due(d)'
        /\ flows[f].phase = "applying" /\ flows'[f].phase = "sync"
        /\ flows'[f].kind = flows[f].kind /\ flows'[f].request = flows[f].request
        /\ \A g \in Flows \ {f} : flows'[g] = flows[g]
        /\ actions'[e].action = actions[e].action /\ actions'[e].application = "applied"
        /\ \A d \in Events \ {e} : actions'[d] = actions[d]
        /\ events' = events
    BY <1>1, ApplyEndsKeepsOwnWork DEF Serene
  <1>3. UNCHANGED << status, authorized, published >>
    BY DEF ApplyEnds, requestVars
  <1>4. \A r \in Requests : << "deny", r >> \in Events /\ Requested(r) \in Events
    BY EventParts DEF Requested
  <1>5. \A p \in Promotions : Approval(p) \in Events /\ Once(Approval(p))
    BY EventParts, PermissionAssumption DEF Approval, Once
  <1>6. Once(e) => actions[e].application = "applying"
    BY <1>1, <1>2 DEF Inv, Ledger
  <1>7. \A r \in Requests : Once(Requested(r))
    BY EventParts DEF Requested, Once
  <1> QED BY <1>2, <1>3, <1>4, <1>5, <1>6, <1>7 DEF Steady, Working

LEMMA StartsSteady ==
  ASSUME Inv, Serene, Grown, NEW f \in Flows, NEW e \in Events,
         StartGrant(f, e) \/ StartDeny(f, e) \/ StartEscalate(f, e) \/ StartRecover(f, e)
  PROVE  Steady
  <1> USE EventParts
  <1>0. Typed /\ status \in [Requests -> Status] /\ published \in [Promotions -> Published]
    BY DEF Inv, Typed, TypeOK
  <1>1. PICK a \in Action : /\ Starts(f, e, a)
                            /\ a = "deny" => status' = [status EXCEPT ![RequestOf(e)] = "denied"]
                            /\ a = "escalate" => status' = Escalated(RequestOf(e))
                            /\ a = "recover" <=> StartRecover(f, e)
    BY DEF StartGrant, StartDeny, StartEscalate, StartRecover, Starts, Action
  <1>2. /\ Due(e) /\ Owns(f, e) /\ \A d \in Events : ~Due(d)'
        /\ flows'[f].phase = "applying" /\ flows[f].phase = "sync"
        /\ flows'[f].kind = flows[f].kind /\ flows'[f].request = flows[f].request
        /\ \A g \in Flows \ {f} : flows'[g] = flows[g]
        /\ actions[e].action = a /\ actions[e].application = "pending"
        /\ actions'[e].action = a /\ actions'[e].application = "applying"
        /\ \A d \in Events \ {e} : actions'[d] = actions[d]
        /\ events' = events /\ \A d \in Events : Due(d) => d = e
    BY <1>1, StartsKeepsOwnWork DEF Serene
  <1>3. PICK r \in Requests : r = RequestOf(e)
    OBVIOUS
  <1>4. events[e] # "pending" /\ a # "none"
    BY <1>2 DEF Serene, OwnWork, Action
  <1>5. \A d \in Events : events'[d] = "pending" => FALSE
    BY <1>2 DEF Due
  <1>6. authorized \subseteq authorized'
    BY DEF StartGrant, StartDeny, StartEscalate, StartRecover
  <1>7. \A q \in Requests : Due(<< "deny", q >>) => status'[q] = "denied"
    <2>1. SUFFICES ASSUME NEW q \in Requests, Due(<< "deny", q >>) PROVE status'[q] = "denied"
      OBVIOUS
    <2>2. e = << "deny", q >> /\ q = r
      BY <1>2, <1>3, <2>1
    <2>3. a = "deny"
      BY <1>2, <1>4, <2>2 DEF Serene, Lives
    <2> QED BY <1>0, <1>1, <1>3, <2>2, <2>3
  <1>8. \A q \in Requests : actions'[Requested(q)].action = "escalate"
          /\ actions'[Requested(q)].application # "pending"
          => actions[Requested(q)].application # "pending" \/ status'[q] \notin {"none", "pending"}
    <2>1. SUFFICES ASSUME NEW q \in Requests, Requested(q) = e, a = "escalate"
                   PROVE  status'[q] \notin {"none", "pending"}
      BY <1>2 DEF Requested
    <2>2. q = r /\ status[r] # "none"
      <3>1. q = r /\ Once(e)
        BY <1>3, <2>1 DEF Requested, Once
      <3>2. events[e] # "absent"
        BY <1>2, <1>4, <3>1 DEF Inv, Ledger
      <3> QED BY <1>3, <3>1, <3>2 DEF Inv, Asked
    <2> QED BY <1>0, <1>1, <1>3, <2>1, <2>2 DEF Escalated
  <1>9. \A p \in Promotions :
          /\ p \in Requests /\ Approval(p) \in Events
          /\ Kind(Approval(p)) = "approve" /\ RequestOf(Approval(p)) = p /\ Once(Approval(p))
    BY PermissionAssumption DEF Approval, Once
  <1>10. CASE a # "recover"
    <2>1. published' = published
      BY <1>1, <1>10 DEF StartGrant, StartDeny, StartEscalate, StartRecover
    <2>2. \A p \in Promotions : actions'[Approval(p)].action = "recover"
              /\ actions'[Approval(p)].application \in {"applying", "applied"}
              => actions[Approval(p)].application \in {"applying", "applied"}
      BY <1>2, <1>9, <1>10
    <2>3. \A d \in Events : events'[d] = events[d] /\ actions'[d].action = actions[d].action
      BY <1>2
    <2> QED BY <1>2, <1>5, <1>6, <1>7, <1>8, <2>1, <2>2, <2>3 DEF Steady, Working
  <1>11. CASE a = "recover"
    <2>1. StartRecover(f, e)
      BY <1>1, <1>11
    <2>2. Kind(e) = "approve"
      BY <1>2, <1>11 DEF Inv, Decisions
    <2>3. flows[f].kind = "approve" /\ flows[f].request = r
      BY <1>2, <1>3, <2>2 DEF Owns, KindOf
    <2>4. r \in Promotions => e = Approval(r) /\ published[r] = "awaiting_approval"
      BY <1>2, <1>3, <2>2 DEF Serene, Publishing, Approval
    <2>5. /\ authorized' = authorized \cup {r}
          /\ published' = IF r \in Promotions THEN [published EXCEPT ![r] = "pending"] ELSE published
      BY <1>3, <2>1, <2>3 DEF StartRecover, Reviewed, Reviews
    <2>6. \A p \in Promotions : actions'[Approval(p)].action = "recover"
              /\ actions'[Approval(p)].application \in {"applying", "applied"}
              => \/ published'[p] # "awaiting_approval"
                 \/ actions[Approval(p)].application \in {"applying", "applied"}
      <3>1. SUFFICES ASSUME NEW p \in Promotions, Approval(p) = e
                     PROVE  published'[p] # "awaiting_approval"
        BY <1>2, <1>9
      <3>2. p = r
        BY <1>3, <1>9, <3>1
      <3> QED BY <1>0, <2>5, <3>2
    <2>7. events[e] # "absent"
      BY <1>2, <1>4, <2>2 DEF Once, Inv, Ledger
    <2>8. ASSUME NEW p \in Promotions
          PROVE  \/ published'[p] = published[p]
                 \/ /\ published[p] = "awaiting_approval" /\ published'[p] = "pending"
                    /\ p \in authorized' /\ events[Approval(p)] # "absent"
      <3>1. CASE p = r
        BY <1>0, <2>4, <2>5, <2>7, <3>1
      <3>2. CASE p # r
        BY <1>0, <2>5, <3>2
      <3> QED BY <3>1, <3>2
    <2>9. \A d \in Events : events'[d] = events[d] /\ actions'[d].action = actions[d].action
      BY <1>2
    <2> QED BY <1>2, <1>5, <1>6, <1>7, <1>8, <2>6, <2>8, <2>9 DEF Steady, Working
  <1> QED BY <1>10, <1>11

LEMMA ReturnSteady ==
  ASSUME Inv, Serene, Grown, NEW f \in Flows,
         AskReturns(f) \/ PromotionReturns(f) \/ DenialReturns(f)
  PROVE  Leaves(f) /\ Steady
  <1>0. Typed /\ status \in [Requests -> Status] /\ published \in [Promotions -> Published]
    BY DEF Inv, Typed, TypeOK
  <1>1. /\ flows'[f].phase = "idle" /\ \A g \in Flows \ {f} : flows'[g] = flows[g]
        /\ startup' \subseteq startup /\ UNCHANGED ledgerVars /\ Drained(f) /\ authorized' = authorized
    <2>1. Returned(f) /\ Drained(f) /\ UNCHANGED << ledgerVars, authorized >>
      BY DEF AskReturns, PromotionReturns, DenialReturns, Returns, requestVars
    <2>2. NoFlow \in FlowTypes /\ NoFlow.phase = "idle"
      BY DEF NoFlow, FlowTypes
    <2>3. flows'[f] = NoFlow /\ \A g \in Flows \ {f} : flows'[g] = flows[g]
      BY <1>0, <2>1, <2>2, ToTyped DEF Returned
    <2> QED BY <2>1, <2>2, <2>3 DEF Returned
  <1>2. \A d \in Events : ~Due(d)
    BY <1>1, NoneDue DEF Serene
  <1>3. Leaves(f)
    BY <1>1, <1>2 DEF Leaves
  <1>4. /\ \A d \in Events : ~Due(d)' /\ actions'[d] = actions[d] /\ events'[d] = events[d]
        /\ \A d \in Events : events'[d] # "pending"
    BY <1>1, <1>2 DEF Due, ledgerVars
  <1>5. PICK r \in Requests : r = flows[f].request
    BY <1>0, <1>1, FlowParts DEF Drained
  <1>6. Working(f) /\ status[r] # "none" /\ flows[f].phase = "sync"
    BY <1>1, <1>5 DEF Drained, Serene, Lives, Working, OwnWork
  <1>7. ASSUME NEW p \in Promotions
        PROVE  \/ published'[p] = published[p]
               \/ /\ published[p] = "none" /\ published'[p] = "awaiting_approval"
                  /\ status[p] # "none"
                  /\ \A g \in Flows : Working(g)' /\ flows'[g].kind = "promotion"
                                        => flows'[g].request # p
               \/ /\ published[p] = "awaiting_approval" /\ published'[p] = "denied"
                  /\ status'[p] = "denied"
    <2>1. CASE AskReturns(f)
      BY <2>1 DEF AskReturns, requestVars
    <2>2. CASE PromotionReturns(f)
      <3>1. SUFFICES ASSUME published'[p] # published[p]
                     PROVE  /\ published[p] = "none" /\ published'[p] = "awaiting_approval"
                            /\ status[p] # "none"
                            /\ \A g \in Flows : Working(g)' /\ flows'[g].kind = "promotion"
                                                  => flows'[g].request # p
        OBVIOUS
      <3>2. published' = [published EXCEPT ![r] = "awaiting_approval"] /\ flows[f].kind = "promotion"
        BY <1>5, <2>2, <3>1 DEF PromotionReturns, Returns
      <3>3. p = r /\ published'[p] = "awaiting_approval"
        BY <1>0, <3>1, <3>2
      <3>4. /\ published[p] = "none"
            /\ \A g \in Flows \ {f} : Working(g) => flows[g].request # p
        BY <1>5, <1>6, <3>2, <3>3 DEF Serene, LandsAlone
      <3>5. \A g \in Flows : Working(g)' => flows'[g].request # p
        BY <1>1, <3>4 DEF Working
      <3> QED BY <1>6, <3>3, <3>4, <3>5
    <2>3. CASE DenialReturns(f)
      <3>1. SUFFICES ASSUME published'[p] # published[p]
                     PROVE  /\ published[p] = "awaiting_approval" /\ published'[p] = "denied"
                            /\ status'[p] = "denied"
        OBVIOUS
      <3>2. /\ published' = IF r \in Promotions
                            THEN [published EXCEPT ![r] = IF @ = "awaiting_approval" THEN "denied" ELSE @]
                            ELSE published
            /\ flows[f].kind = "deny" /\ status' = status
        BY <1>5, <2>3 DEF DenialReturns, Returns
      <3>3. p = r /\ published[p] = "awaiting_approval" /\ published'[p] = "denied"
        BY <1>0, <3>1, <3>2
      <3>4. << "deny", r >> \in Events
        BY EventParts
      <3>5. status[r] = "denied"
        BY <1>2, <1>5, <1>6, <3>2, <3>4 DEF Serene, Denies
      <3> QED BY <3>2, <3>3, <3>5
    <2> QED BY <2>1, <2>2, <2>3
  <1>8. \A r1 \in Requests : << "deny", r1 >> \in Events /\ Requested(r1) \in Events
    BY EventParts DEF Requested
  <1>9. \A p \in Promotions : Approval(p) \in Events
    BY EventParts, PermissionAssumption DEF Approval
  <1>10. \A g \in Flows : Working(g)' =>
             Working(g) /\ flows'[g].kind = flows[g].kind /\ flows'[g].request = flows[g].request
    BY <1>1 DEF Working
  <1>11. Steady
    BY <1>1, <1>2, <1>4, <1>7, <1>8, <1>9, <1>10 DEF Steady
  <1> QED BY <1>3, <1>11

(***************************************************************************)
(* Without crash and failure: who has a paused sandbox                     *)
(***************************************************************************)
LEMMA StillPauses ==
  ASSUME Inv, Serene,
         \/ \E r \in Requests : Expire(r)
         \/ \E a \in Attempts : Stop(a) \/ Launch(a)
         \/ UNCHANGED vars
  PROVE  Pauses'
  <1>1. UNCHANGED << flows, events, actions >>
    BY DEF Expire, Stop, Launch, vars, ledgerVars
  <1>2. sandbox \in [Attempts -> Sandboxes]
    BY DEF Inv, Typed
  <1>3. ASSUME NEW a \in Attempts, sandbox'[a] = "paused" PROVE sandbox[a] = "paused"
    BY <1>2, <1>3 DEF Expire, Stop, Launch, vars, Stopped
  <1> QED BY <1>1, <1>3 DEF Serene, Pauses, Deciding, Due

LEMMA LeavePauses ==
  ASSUME Inv, Serene, NEW f \in Flows, Leaves(f), flows[f].phase = "sync", sandbox' = sandbox
  PROVE  Pauses'
  <1>1. SUFFICES ASSUME NEW a \in Attempts, sandbox[a] = "paused"
                 PROVE  \E g \in Flows : Deciding(g, a)'
    BY DEF Pauses
  <1>2. PICK g \in Flows : Deciding(g, a)
    BY <1>1 DEF Serene, Pauses
  <1>3. g # f
    <2>1. flows[f].request \in Requests
      BY FlowParts DEF Inv
    <2>2. Requested(flows[f].request) \in Events
      BY <2>1, EventParts DEF Requested
    <2> QED BY <1>2, <2>2 DEF Deciding, Leaves
  <1>4. flows'[g] = flows[g] /\ UNCHANGED << events, actions >>
    BY <1>3 DEF Leaves, ledgerVars
  <1> QED BY <1>2, <1>4 DEF Deciding, Due

LEMMA CheckpointFailsPauses ==
  ASSUME Inv, Serene, NEW f \in Flows, CheckpointFails(f)
  PROVE  Leaves(f) /\ Pauses'
  <1>0. Typed
    BY DEF Inv
  <1>1. NoFlow \in FlowTypes /\ NoFlow.phase = "idle"
    BY DEF NoFlow, FlowTypes
  <1>2. /\ flows'[f].phase = "idle" /\ \A g \in Flows \ {f} : flows'[g] = flows[g]
        /\ UNCHANGED ledgerVars /\ startup' = startup
    BY <1>0, <1>1, ToTyped DEF CheckpointFails
  <1>3. \A d \in Events : ~Due(d)
    BY NoneDue DEF Serene, CheckpointFails
  <1>4. SUFFICES ASSUME NEW a \in Attempts, sandbox'[a] = "paused"
                 PROVE  \E g \in Flows : Deciding(g, a)'
    BY <1>2, <1>3 DEF Leaves, Pauses
  <1>5. PICK x \in Attempts : x = AttemptOf[flows[f].request] /\ sandbox' = Resumed(x)
    BY <1>0, FlowParts, SandboxTyped DEF CheckpointFails
  <1>6. a # x /\ sandbox[a] = "paused"
    BY <1>0, <1>4, <1>5 DEF Resumed, Typed
  <1>7. PICK g \in Flows : Deciding(g, a)
    BY <1>6 DEF Serene, Pauses
  <1>8. g # f
    BY <1>5, <1>6, <1>7 DEF Deciding
  <1>9. flows'[g] = flows[g] /\ UNCHANGED << events, actions >>
    BY <1>2, <1>8 DEF ledgerVars
  <1> QED BY <1>7, <1>9 DEF Deciding, Due

(* A request that may be asked for again has no event yet. *)
LEMMA AskCapabilityPauses ==
  ASSUME Inv, Serene, NEW f \in Flows, NEW r \in Requests, AskCapability(f, r)
  PROVE  Leaves(f) /\ UNCHANGED << authorized, published >> /\ Pauses'
  <1> DEFINE new == [phase |-> "checkpoint", request |-> r]
  <1>0. Typed
    BY DEF Inv
  <1>1. /\ flows[f].phase = "idle" /\ flows' = [flows EXCEPT ![f] = new]
        /\ UNCHANGED ledgerVars /\ startup' = startup /\ UNCHANGED << authorized, published >>
        /\ status[r] \in {"none", "pending"}
        /\ sandbox' = [sandbox EXCEPT ![AttemptOf[r]] = "paused"]
    BY DEF AskCapability, Idle, To
  <1>2. /\ flows'[f] = new /\ \A g \in Flows \ {f} : flows'[g] = flows[g]
        /\ new.phase = "checkpoint" /\ new.request = r
    BY <1>0, <1>1 DEF Typed
  <1> HIDE DEF new
  <1>3. \A d \in Events : ~Due(d)
    BY NoneDue DEF Serene, AskCapability, Idle
  <1>4. Leaves(f)
    BY <1>1, <1>2, <1>3 DEF Leaves
  <1>5. Requested(r) \in Events /\ Once(Requested(r)) /\ RequestOf(Requested(r)) = r
        /\ Kind(Requested(r)) = "requested"
    BY EventParts DEF Requested, Once
  <1>6. events[Requested(r)] = "absent"
    <2>1. SUFFICES ASSUME events[Requested(r)] # "absent" PROVE FALSE
      OBVIOUS
    <2>2. events[Requested(r)] = "decided" /\ actions[Requested(r)].application # "pending"
      BY <1>0, <1>3, <1>5, <2>1 DEF Due, Typed, TypeOK
    <2>3. actions[Requested(r)].action \in Action
      BY <1>0, <1>5, <2>2 DEF Inv, Ledger, Typed, Applications
    <2>4. status[r] = "pending"
      BY <1>1, <1>5, <2>1 DEF Inv, Asked
    <2>5. actions[Requested(r)].action # "escalate"
      BY <2>2, <2>4 DEF Serene, Lives
    <2>6. actions[Requested(r)].action \notin Settling
      BY <1>5, <2>2, <2>4 DEF Inv, Finals, Unstarted, Final, Settling
    <2>7. actions[Requested(r)].action # "recover"
      BY <1>5 DEF Inv, Decisions
    <2> QED BY <2>3, <2>5, <2>6, <2>7 DEF Action, Settling
  <1>7. ASSUME NEW a \in Attempts, sandbox'[a] = "paused" PROVE \E g \in Flows : Deciding(g, a)'
    <2>1. CASE a = AttemptOf[r]
      <3>1. Deciding(f, a)'
        BY <1>1, <1>2, <1>6, <2>1 DEF Deciding, ledgerVars
      <3> QED BY <3>1
    <2>2. CASE a # AttemptOf[r]
      <3>1. sandbox[a] = "paused"
        BY <1>0, <1>1, <1>7, <2>2 DEF Typed
      <3>2. PICK g \in Flows : Deciding(g, a)
        BY <3>1 DEF Serene, Pauses
      <3>3. g # f
        BY <1>1, <3>2 DEF Deciding
      <3>4. flows'[g] = flows[g] /\ UNCHANGED << events, actions >>
        BY <1>1, <1>2, <3>3 DEF ledgerVars
      <3>5. Deciding(g, a)'
        BY <3>2, <3>4 DEF Deciding, Due
      <3> QED BY <3>5
    <2> QED BY <2>1, <2>2
  <1> QED BY <1>1, <1>4, <1>7 DEF Pauses

LEMMA JoinPauses ==
  ASSUME Inv, Serene, NEW f \in Flows, NEW k, NEW e \in Events, Joins(f, k, e),
         \A a \in Attempts : sandbox'[a] = "paused" => sandbox[a] = "paused",
         \/ flows[f].phase = "idle"
         \/ flows[f].phase = "checkpoint" /\ k = "tool" /\ e = Requested(flows[f].request)
  PROVE  Pauses'
  <1>0. Typed
    BY DEF Inv
  <1>1. SUFFICES ASSUME NEW a \in Attempts, sandbox[a] = "paused"
                 PROVE  \E g \in Flows : Deciding(g, a)'
    BY DEF Pauses
  <1>2. PICK g \in Flows : Deciding(g, a)
    BY <1>1 DEF Serene, Pauses
  <1>3. /\ flows'[f] = [phase |-> "sync", kind |-> k, request |-> RequestOf(e)]
        /\ \A h \in Flows \ {f} : flows'[h] = flows[h]
        /\ \A h \in Flows : flows[h].phase # "sync"
        /\ \A d \in Events \ {e} : events'[d] = events[d]
        /\ events[e] = "absent" => Due(e)'
    BY JoinEffects DEF Serene
  <1>4. flows'[f].phase = "sync" /\ flows'[f].kind = k /\ flows'[f].request = RequestOf(e)
    BY <1>3
  <1>5. CASE flows[g].phase = "applying"
    <2>1. g # f /\ flows'[g] = flows[g]
      BY <1>3, <1>5
    <2>2. Deciding(g, a)'
      BY <1>2, <1>3, <1>5, <2>1 DEF Deciding
    <2> QED BY <2>2
  <1>6. CASE flows[g].phase = "checkpoint"
    <2>1. PICK q \in Requests \ Promotions : q = flows[g].request
      BY <1>0, <1>6, FlowParts
    <2>2. /\ AttemptOf[q] = a /\ events[Requested(q)] = "absent"
          /\ Requested(q) \in Events /\ Kind(Requested(q)) = "requested" /\ RequestOf(Requested(q)) = q
      BY <1>2, <1>6, <2>1, EventParts DEF Deciding, Requested
    <2>3. CASE e = Requested(q)
      <3>1. k = "tool"
        BY <2>1, <2>2, <2>3 DEF Joins, KindOf
      <3>2. Due(Requested(q))' /\ flows'[f].request = q
        BY <1>3, <1>4, <2>2, <2>3
      <3>3. Deciding(f, a)'
        BY <1>4, <2>2, <3>1, <3>2 DEF Deciding, Due
      <3> QED BY <3>3
    <2>4. CASE e # Requested(q)
      <3>1. g # f /\ flows'[g] = flows[g]
        BY <1>3, <1>6, <2>1, <2>4
      <3>2. events'[Requested(q)] = "absent"
        BY <1>3, <2>2, <2>4
      <3>3. Deciding(g, a)'
        BY <1>6, <2>1, <2>2, <3>1, <3>2 DEF Deciding
      <3> QED BY <3>3
    <2> QED BY <2>3, <2>4
  <1> QED BY <1>2, <1>3, <1>5, <1>6 DEF Deciding

LEMMA WorkPauses ==
  ASSUME Inv, Serene, NEW f \in Flows, NEW e \in Events,
         \/ Issue(f, e) \/ StartGrant(f, e) \/ StartDeny(f, e) \/ StartEscalate(f, e)
         \/ StartRecover(f, e)
  PROVE  Pauses'
  <1>0. sandbox' = sandbox
    BY DEF Issue, StartGrant, StartDeny, StartEscalate, StartRecover, Starts
  <1>1. SUFFICES ASSUME NEW a \in Attempts, sandbox[a] = "paused"
                 PROVE  \E g \in Flows : Deciding(g, a)'
    BY <1>0 DEF Pauses
  <1>2. PICK g \in Flows : Deciding(g, a)
    BY <1>1 DEF Serene, Pauses
  <1>3. \A h \in Flows : flows[h].phase \in {"checkpoint", "sync", "applying"} =>
          flows[h].request \in Requests /\ Requested(flows[h].request) \in Events
    BY FlowParts, EventParts DEF Inv, Requested
  <1>4. CASE Issue(f, e)
    <2>1. /\ flows' = flows /\ events[e] = "pending"
          /\ \A d \in Events \ {e} : events'[d] = events[d]
          /\ \A d \in Events : Due(d)' <=> Due(d)
      <3>1. flows' = flows /\ events' = [events EXCEPT ![e] = "decided"]
        BY <1>4 DEF Issue
      <3>2. events \in [Events -> {"absent", "pending", "decided"}]
        BY DEF Inv, Typed, TypeOK
      <3>3. OwnWork
        BY DEF Serene
      <3>4. events[e] = "pending" /\ \A d \in Events : Due(d)' <=> Due(d)
        BY <1>4, <3>3, IssueKeepsOwnWork
      <3>5. \A d \in Events \ {e} : events'[d] = events[d]
        BY <3>1, <3>2
      <3> QED BY <3>1, <3>4, <3>5
    <2>2. CASE flows[g].phase = "checkpoint"
      <3>1. PICK q \in Requests : q = flows[g].request /\ Requested(q) \in Events
        BY <1>3, <2>2
      <3>2. events'[Requested(q)] = "absent" /\ AttemptOf[q] = a
        BY <1>2, <2>1, <2>2, <3>1 DEF Deciding
      <3>3. Deciding(g, a)'
        BY <2>1, <2>2, <3>1, <3>2 DEF Deciding
      <3> QED BY <3>3
    <2>3. CASE flows[g].phase = "sync"
      <3>1. PICK q \in Requests : q = flows[g].request /\ Requested(q) \in Events
        BY <1>3, <2>3
      <3>2. Due(Requested(q))' /\ AttemptOf[q] = a /\ flows[g].kind = "tool"
        BY <1>2, <2>1, <2>3, <3>1 DEF Deciding
      <3>3. Deciding(g, a)'
        BY <2>1, <2>3, <3>1, <3>2 DEF Deciding, Due
      <3> QED BY <3>3
    <2>4. CASE flows[g].phase = "applying"
      <3>1. Deciding(g, a)'
        BY <1>2, <2>1, <2>4 DEF Deciding
      <3> QED BY <3>1
    <2> QED BY <1>2, <2>2, <2>3, <2>4 DEF Deciding
  <1>5. CASE ~Issue(f, e)
    <2>1. PICK x \in Action : Starts(f, e, x)
      BY <1>5 DEF StartGrant, StartDeny, StartEscalate, StartRecover, Action
    <2>2. /\ flows'[f].phase = "applying" /\ flows[f].phase = "sync"
          /\ flows'[f].kind = flows[f].kind /\ flows'[f].request = flows[f].request
          /\ \A h \in Flows \ {f} : flows'[h] = flows[h] /\ flows[h].phase # "sync"
          /\ events' = events
      BY <2>1, StartsKeepsOwnWork DEF Serene
    <2>3. CASE g = f
      <3>1. Deciding(f, a)'
        BY <1>2, <2>2, <2>3 DEF Deciding
      <3> QED BY <3>1
    <2>4. CASE g # f
      <3>1. flows'[g] = flows[g] /\ flows[g].phase # "sync"
        BY <2>2, <2>4
      <3>2. Deciding(g, a)'
        BY <1>2, <2>2, <3>1 DEF Deciding
      <3> QED BY <3>2
    <2> QED BY <2>3, <2>4
  <1> QED BY <1>4, <1>5

LEMMA ApplyEndsPauses ==
  ASSUME Inv, Serene, NEW f \in Flows, ApplyEnds(f)
  PROVE  Pauses'
  <1>0. Typed
    BY DEF Inv
  <1>1. PICK e \in Events : e = flows[f].event
    BY <1>0, FlowParts DEF ApplyEnds
  <1>2. PICK x \in Attempts : x = AttemptOf[flows[f].request]
    BY <1>0, FlowParts, SandboxTyped DEF ApplyEnds
  <1>3. /\ Owns(f, e) /\ flows[f].phase = "applying"
        /\ \A g \in Flows \ {f} : flows'[g] = flows[g] /\ flows[g].phase # "sync"
        /\ events' = events
    BY <1>1, ApplyEndsKeepsOwnWork DEF Serene
  <1>4. /\ actions[e].action \in {"grant", "deny"} => sandbox' = Resumed(x)
        /\ actions[e].action = "escalate" /\ flows[f].kind = "tool" => sandbox' = Stopped({x})
        /\ sandbox' \in {Resumed(x), Stopped({x}), sandbox}
    BY <1>1, <1>2 DEF ApplyEnds
  <1>5. SUFFICES ASSUME NEW a \in Attempts, sandbox'[a] = "paused"
                 PROVE  \E g \in Flows : Deciding(g, a)'
    BY DEF Pauses
  <1>6. sandbox \in [Attempts -> Sandboxes] /\ sandbox[a] = "paused"
    BY <1>0, <1>4, <1>5 DEF Typed, Resumed, Stopped
  <1>7. PICK g \in Flows : Deciding(g, a)
    BY <1>6 DEF Serene, Pauses
  <1>8. ASSUME g = f PROVE FALSE
    <2>1. flows[f].kind = "tool" /\ a = x
      BY <1>2, <1>3, <1>7, <1>8 DEF Deciding
    <2>2. Kind(e) = "requested"
      BY <1>3, <2>1, EventParts DEF Owns, KindOf
    <2>3. actions[e].action \in {"grant", "deny", "escalate"}
      <3>1. actions[e].action # "none" /\ actions[e].action # "recover"
        BY <1>1, <1>3, <2>2 DEF Inv, Ledger, Decisions
      <3> QED BY <1>0, <3>1 DEF Typed, Applications, Action
    <2>4. Resumed(x)[x] # "paused" /\ Stopped({x})[x] # "paused"
      BY <1>6 DEF Resumed, Stopped
    <2> QED BY <1>4, <1>5, <2>1, <2>3, <2>4
  <1>9. flows'[g] = flows[g] /\ flows[g].phase # "sync"
    BY <1>3, <1>8
  <1>10. Deciding(g, a)'
    BY <1>3, <1>7, <1>9 DEF Deciding
  <1> QED BY <1>10

(***************************************************************************)
(* Without crash and failure: every step                                   *)
(***************************************************************************)
(* An approval that waits to be applied finds its publication waiting. *)
LEMMA NoRefusal ==
  ASSUME Inv, Serene, NEW f \in Flows, NEW e \in Events, RecoverRefused(f, e)
  PROVE  FALSE
  <1>1. /\ flows[f].phase = "sync" /\ actions[e].action = "recover"
        /\ actions[e].application = "pending"
    BY NextWork DEF Inv, RecoverRefused
  <1>2. PICK r \in Requests : r = RequestOf(e)
    BY EventParts
  <1>3. r \in Promotions /\ (flows[f].request \in Promotions
                               => published[flows[f].request] # "awaiting_approval")
    BY <1>2 DEF RecoverRefused, Reviewed
  <1>4. Due(e)
    BY <1>1 DEF Due
  <1>5. flows[f].request = r
    BY <1>1, <1>2, <1>4, OneDue DEF Serene, Owns
  <1>6. e = Approval(r)
    <2>1. Kind(e) = "approve"
      BY <1>1 DEF Inv, Decisions
    <2> QED BY <1>2, <2>1, EventParts DEF Approval
  <1>7. published[r] = "awaiting_approval"
    BY <1>3, <1>4, <1>6 DEF Serene, Publishing
  <1> QED BY <1>3, <1>5, <1>7

LEMMA JoinSerene ==
  ASSUME Inv, Serene, Typed', NEW f \in Flows, NEW k, NEW e \in Events, Joins(f, k, e),
         \A a \in Attempts : sandbox'[a] = "paused" => sandbox[a] = "paused",
         \/ flows[f].phase = "idle"
         \/ flows[f].phase = "checkpoint" /\ k = "tool" /\ e = Requested(flows[f].request)
  PROVE  Serene'
  <1>1. OwnWork'
    BY JoinKeepsOwnWork DEF Serene
  <1>2. Lives' /\ LandsAlone' /\ Publishing' /\ Denies'
    BY JoinKeeps
  <1>3. Pauses'
    BY JoinPauses
  <1> QED BY <1>1, <1>2, <1>3 DEF Serene

LEMMA CallSerene ==
  ASSUME Inv, Serene, Typed', Grown, NEW f \in Flows, Calls(f)
  PROVE  Serene'
  <1> USE EventParts
  <1>0. Typed
    BY DEF Inv
  <1>1. ASSUME NEW r \in Requests, AskCapability(f, r) PROVE Serene'
    <2>1. Leaves(f) /\ UNCHANGED << authorized, published >> /\ Pauses'
      BY <1>1, AskCapabilityPauses
    <2>2. OwnWork'
      BY <2>1, LeaveKeepsOwnWork DEF Serene
    <2>3. Steady
      BY <2>1, StillSteady
    <2> QED BY <2>1, <2>2, <2>3, SteadyKeeps DEF Serene
  <1>2. ASSUME NEW r \in Requests, AskPromotion(f, r) PROVE Serene'
    <2>1. /\ << "requested", r >> \in Events /\ Kind(<< "requested", r >>) = "requested"
          /\ RequestOf(<< "requested", r >>) = r
      OBVIOUS
    <2>2. status' = [status EXCEPT ![r] = IF @ = "none" THEN "pending" ELSE @]
          /\ status \in [Requests -> Status] /\ status[r] = "none" /\ r \in Promotions
      BY <1>0, <1>2 DEF AskPromotion, Created, Typed, TypeOK
    <2>3. /\ status'[r] # "none"
          /\ \A q \in Requests : status'[q] = status[q] \/ (status[q] = "none" /\ status'[q] = "pending")
      BY <2>2
    <2>4. Joins(f, "promotion", << "requested", r >>)
      BY <1>2, <2>1, <2>2, <2>3 DEF AskPromotion, Idle, Joins, KindOf
    <2>5. \A a \in Attempts : sandbox'[a] = "paused" => sandbox[a] = "paused"
      BY <1>0, <1>2 DEF AskPromotion, Typed
    <2>6. flows[f].phase = "idle"
      BY <1>2 DEF AskPromotion, Idle
    <2> QED BY <2>1, <2>4, <2>5, <2>6, JoinSerene
  <1>3. ASSUME NEW r \in Requests, NEW k \in {"approve", "deny"}, Resolve(f, r, k) PROVE Serene'
    <2>1. /\ << k, r >> \in Events /\ Kind(<< k, r >>) = k /\ RequestOf(<< k, r >>) = r
      OBVIOUS
    <2>2. Joins(f, k, << k, r >>)
      BY <1>3, <2>1 DEF Resolve, Idle, Joins, KindOf, requestVars, Open
    <2>3. sandbox' = sandbox /\ flows[f].phase = "idle"
      BY <1>3 DEF Resolve, Idle
    <2> QED BY <2>1, <2>2, <2>3, JoinSerene
  <1>4. ASSUME NEW r \in Requests, Represent(f, r) PROVE Serene'
    <2>1. /\ << "represented", r >> \in Events /\ Kind(<< "represented", r >>) = "represented"
          /\ RequestOf(<< "represented", r >>) = r
      OBVIOUS
    <2>2. Joins(f, "represent", << "represented", r >>)
      BY <1>4, <2>1 DEF Represent, Idle, Joins, KindOf, requestVars
    <2>3. sandbox' = sandbox /\ flows[f].phase = "idle"
      BY <1>4 DEF Represent, Idle
    <2> QED BY <2>1, <2>2, <2>3, JoinSerene
  <1>5. CASE CheckpointEnds(f)
    <2>1. PICK r \in Requests \ Promotions : r = flows[f].request /\ status[r] # "none"
      BY <1>0, <1>5, FlowParts DEF CheckpointEnds, Inv, Asked
    <2>2. /\ << "requested", r >> \in Events /\ Kind(<< "requested", r >>) = "requested"
          /\ RequestOf(<< "requested", r >>) = r
      BY <2>1
    <2>3. Joins(f, "tool", << "requested", r >>)
      BY <1>5, <2>1, <2>2 DEF CheckpointEnds, Joins, KindOf, requestVars
    <2>4. sandbox' = sandbox /\ flows[f].phase = "checkpoint"
          /\ << "requested", r >> = Requested(flows[f].request)
      BY <1>5, <2>1 DEF CheckpointEnds, Requested
    <2> QED BY <2>2, <2>3, <2>4, JoinSerene
  <1>6. CASE CheckpointFails(f)
    <2>1. Leaves(f) /\ Pauses'
      BY <1>6, CheckpointFailsPauses
    <2>2. OwnWork'
      BY <2>1, LeaveKeepsOwnWork DEF Serene
    <2>3. Steady
      BY <1>6, <2>1, StillSteady DEF CheckpointFails, requestVars
    <2> QED BY <2>1, <2>2, <2>3, SteadyKeeps DEF Serene
  <1>7. ASSUME NEW r \in Requests, StartupRecovers(f, r) PROVE FALSE
    BY <1>7 DEF StartupRecovers, Serene, OwnWork
  <1> QED BY <1>1, <1>2, <1>3, <1>4, <1>5, <1>6, <1>7 DEF Calls

LEMMA DrainSerene ==
  ASSUME Inv, Serene, Typed', Grown, NEW f \in Flows, Drains(f), ~ApplyFails(f)
  PROVE  Serene'
  <1>1. ASSUME NEW e \in Events, Issue(f, e) PROVE Serene'
    <2>1. OwnWork'
      BY <1>1, IssueKeepsOwnWork DEF Serene
    <2>2. Steady
      BY <1>1, IssueSteady
    <2>3. Pauses'
      BY <1>1, WorkPauses
    <2> QED BY <2>1, <2>2, <2>3, SteadyKeeps DEF Serene
  <1>2. ASSUME NEW e \in Events,
               StartGrant(f, e) \/ StartDeny(f, e) \/ StartEscalate(f, e) \/ StartRecover(f, e)
        PROVE  Serene'
    <2>1. PICK a \in Action : Starts(f, e, a)
      BY <1>2 DEF StartGrant, StartDeny, StartEscalate, StartRecover, Action
    <2>2. OwnWork'
      BY <2>1, StartsKeepsOwnWork DEF Serene
    <2>3. Steady
      BY <1>2, StartsSteady
    <2>4. Pauses'
      BY <1>2, WorkPauses
    <2> QED BY <2>2, <2>3, <2>4, SteadyKeeps DEF Serene
  <1>3. ASSUME NEW e \in Events, RecoverRefused(f, e) PROVE FALSE
    BY <1>3, NoRefusal
  <1>4. CASE ApplyEnds(f)
    <2>1. PICK e \in Events : e = flows[f].event
      BY <1>4, FlowParts DEF ApplyEnds, Inv
    <2>2. OwnWork'
      BY <1>4, <2>1, ApplyEndsKeepsOwnWork DEF Serene
    <2>3. Steady /\ Pauses'
      BY <1>4, ApplyEndsSteady, ApplyEndsPauses
    <2> QED BY <2>2, <2>3, SteadyKeeps DEF Serene
  <1>5. CASE AskReturns(f) \/ PromotionReturns(f) \/ DenialReturns(f)
    <2>1. Leaves(f) /\ Steady
      BY <1>5, ReturnSteady
    <2>2. OwnWork'
      BY <2>1, LeaveKeepsOwnWork DEF Serene
    <2>3. sandbox' = sandbox /\ flows[f].phase = "sync"
      BY <1>5 DEF AskReturns, PromotionReturns, DenialReturns, Returns, Drained, Serene, OwnWork
    <2>4. Pauses'
      BY <2>1, <2>3, LeavePauses
    <2> QED BY <2>1, <2>2, <2>4, SteadyKeeps DEF Serene
  <1>6. ASSUME RecoverReturns(f) PROVE FALSE
    BY <1>6 DEF RecoverReturns, Returns, Drained, Serene, OwnWork
  <1> QED BY DrainsIs, <1>1, <1>2, <1>3, <1>4, <1>5, <1>6

LEMMA StillSerene ==
  ASSUME Inv, Serene, Typed', Grown,
         \/ \E r \in Requests : Expire(r)
         \/ \E a \in Attempts : Stop(a) \/ Launch(a)
         \/ UNCHANGED vars
  PROVE  Serene'
  <1>1. UNCHANGED << status, authorized, published, ledgerVars, flows, startup >>
    BY DEF Expire, Stop, Launch, vars, requestVars
  <1>2. Steady
    BY <1>1, StillSteady
  <1>3. OwnWork'
    BY <1>1 DEF Serene, OwnWork, Due, Owns, Queued, ledgerVars
  <1>4. Pauses'
    BY StillPauses
  <1> QED BY <1>2, <1>3, <1>4, SteadyKeeps DEF Serene

LEMMA NothingCounted ==
  ASSUME NEW f \in Nat, NEW c \in Nat, NEW g \in {f, f + 1}, NEW d \in {c, c + 1}, g + d = 0
  PROVE  f = 0 /\ c = 0 /\ g # f + 1 /\ d # c + 1
  <1>1. g \in Nat /\ d \in Nat
    OBVIOUS
  <1>2. g = 0 /\ d = 0
    BY <1>1
  <1>3. g # f + 1 /\ d # c + 1
    BY <1>2
  <1> QED BY <1>2, <1>3

LEMMA CalmStep ==
  ASSUME Inv, CalmInv, [Next]_vars
  PROVE  CalmInv'
  <1>1. SUFFICES ASSUME Calm' PROVE Serene'
    BY DEF CalmInv
  <1>2. /\ failures \in Nat /\ crashes \in Nat
        /\ failures' \in {failures, failures + 1} /\ crashes' \in {crashes, crashes + 1}
        /\ (\E f \in Flows : ApplyFails(f)) => failures' = failures + 1
        /\ Crash => crashes' = crashes + 1
    <2>1. failures \in Nat /\ crashes \in Nat
      BY DEF Inv, Typed
    <2>2. ASSUME NEW f \in Flows, Calls(f) \/ Drains(f)
          PROVE  UNCHANGED << failures, crashes >>
                 \/ (failures' = failures + 1 /\ crashes' = crashes)
      BY <2>2 DEF Calls, Drains, AskCapability, AskPromotion, Represent, Resolve, StartupRecovers,
           CheckpointEnds, CheckpointFails, Issue, StartGrant, StartDeny, StartEscalate, StartRecover,
           Starts, RecoverRefused, ApplyEnds, ApplyFails, AskReturns, PromotionReturns, DenialReturns,
           RecoverReturns, faults
    <2>3. ASSUME ~\E f \in Flows : Calls(f) \/ Drains(f)
          PROVE  UNCHANGED << failures, crashes >> \/ (failures' = failures /\ crashes' = crashes + 1)
      BY <2>3 DEF Next, Expire, StartupSkips, Retry, Stop, Launch, Crash, vars, faults
    <2> QED BY <2>1, <2>2, <2>3 DEF ApplyFails, Crash
  <1>3. Calm /\ ~Crash /\ ~\E f \in Flows : ApplyFails(f)
    <2>1. failures' + crashes' = 0
      BY <1>1 DEF Calm
    <2>2. PICK f, c, g, d : f = failures /\ c = crashes /\ g = failures' /\ d = crashes'
      OBVIOUS
    <2>3. f = 0 /\ c = 0 /\ g # f + 1 /\ d # c + 1
      <3>1. f \in Nat /\ c \in Nat /\ g \in {f, f + 1} /\ d \in {c, c + 1} /\ g + d = 0
        BY <1>2, <2>1, <2>2
      <3> QED BY <3>1, NothingCounted
    <2> QED BY <1>2, <2>2, <2>3 DEF Calm
  <1>4. Serene /\ Typed' /\ Grown
    BY <1>3, StepKeeps, StatusStep DEF CalmInv, Inv
  <1>5. ASSUME NEW r \in Requests, StartupSkips(r) PROVE FALSE
    BY <1>4, <1>5 DEF StartupSkips, Serene, OwnWork
  <1>6. ASSUME NEW e \in Events, Retry(e) PROVE FALSE
    BY <1>4, <1>6 DEF Retry, Serene, OwnWork
  <1> QED BY <1>3, <1>4, <1>5, <1>6, CallSerene, DrainSerene, StillSerene DEF Next

LEMMA CalmInit ==
  ASSUME Init
  PROVE  Serene
  <1>1. /\ \A f \in Flows : flows[f].phase = "idle"
        /\ \A e \in Events : /\ events[e] = "absent" /\ actions[e].action = "none"
                             /\ actions[e].application = "none" /\ ~Due(e)
        /\ \A a \in Attempts : sandbox[a] # "paused"
        /\ startup = {} /\ \A p \in Promotions : published[p] = "none"
    BY DEF Init, NoFlow, NoAction, Due
  <1>2. \A r \in Requests : /\ Requested(r) \in Events /\ << "approve", r >> \in Events
                            /\ << "deny", r >> \in Events
    BY EventParts DEF Requested
  <1>3. \A p \in Promotions : Approval(p) \in Events
    BY EventParts, PermissionAssumption DEF Approval
  <1>4. OwnWork
    BY <1>1 DEF OwnWork
  <1>5. Lives
    BY <1>1, <1>2 DEF Lives
  <1>6. LandsAlone /\ Denies /\ Pauses
    BY <1>1 DEF LandsAlone, Denies, Pauses, Working
  <1>7. Publishing
    BY <1>1, <1>3 DEF Publishing
  <1> QED BY <1>4, <1>5, <1>6, <1>7 DEF Serene

LEMMA Calmness == Spec => [](Inv /\ CalmInv)
<1>1. Init => Inv /\ CalmInv
  BY InitHolds, CalmInit DEF CalmInv
<1>2. Inv /\ CalmInv /\ [Next]_vars => (Inv /\ CalmInv)'
  BY StepKeeps, CalmStep
<1> QED BY <1>1, <1>2, PTL DEF Spec

(* ADR-0027, for any number of calls at one time, as long as no process dies  *)
(* and no application fails: an approval publishes the candidate it was given *)
(* for and no other, and once it is applied that candidate waits no longer    *)
(* (execution/permission-workflow-service.ts).                                *)
THEOREM ApprovalsAreExact == Spec => []UndisturbedApproval
<1>1. Inv /\ CalmInv => UndisturbedApproval
  <2> SUFFICES ASSUME Inv, CalmInv, failures + crashes = 0
               PROVE  /\ ApprovalIsExact
                      /\ \A p \in Promotions :
                           actions[<< "approve", p >>] = [action |-> "recover", application |-> "applied"]
                             => published[p] # "awaiting_approval"
    BY DEF UndisturbedApproval
  <2>1. Publishing
    BY DEF CalmInv, Calm, Serene
  <2>2. ApprovalIsExact
    BY <2>1 DEF Publishing, ApprovalIsExact
  <2>3. ASSUME NEW p \in Promotions,
               actions[<< "approve", p >>] = [action |-> "recover", application |-> "applied"]
        PROVE  published[p] # "awaiting_approval"
    <3>1. actions[Approval(p)].action = "recover" /\ actions[Approval(p)].application = "applied"
      BY <2>3 DEF Approval
    <3> QED BY <2>1, <3>1 DEF Publishing
  <2> QED BY <2>2, <2>3
<1> QED BY <1>1, Calmness, PTL

(* As long as no process dies and no application fails, whoever finds a       *)
(* sandbox paused finds a call that will resume or stop it: no escalation,    *)
(* denial or failed checkpoint of another call leaves it behind.              *)
THEOREM PausesAreDecided == Spec => []PausedIsBeingDecided
<1>1. Inv /\ CalmInv => PausedIsBeingDecided
  <2> SUFFICES ASSUME Inv, CalmInv, failures + crashes = 0, NEW a \in Attempts, sandbox[a] = "paused"
               PROVE  \E f \in Flows : flows[f].phase # "idle" /\ AttemptOf[flows[f].request] = a
    BY DEF PausedIsBeingDecided
  <2>1. PICK f \in Flows : Deciding(f, a)
    BY DEF CalmInv, Calm, Serene, Pauses
  <2> QED BY <2>1 DEF Deciding
<1> QED BY <1>1, Calmness, PTL
=============================================================================
