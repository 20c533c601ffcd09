----------------------------- MODULE EventLedger -----------------------------
(***************************************************************************)
(* What the durable kernel workflow promises, whatever drains, crashes and *)
(* recoveries do underneath: an event enters the inbox once, receives one  *)
(* immutable decision, and that decision is completed at most once, in the *)
(* same step that puts its observation in the inbox.                       *)
(***************************************************************************)
CONSTANTS Events,   \* ids of the kernel events
          Actions   \* kinds of decision action the kernel may issue

VARIABLES stage,     \* stage[e]: how far the ledger has taken event e
          decision,  \* decision[e]: the action issued for e, or NoDecision
          observed   \* observed[e]: the observations stored when e was completed

ledger == <<stage, decision, observed>>

NoDecision == "none"

Stages == {"absent", "queued", "decided", "applied"}

Queue(S) == [e \in Events |->
               IF e \in S /\ stage[e] = "absent" THEN "queued" ELSE stage[e]]

Init == /\ stage = [e \in Events |-> "absent"]
        /\ decision = [e \in Events |-> NoDecision]
        /\ observed = [e \in Events |-> {}]

Enqueue == \E S \in SUBSET Events :
             /\ stage' = Queue(S)
             /\ UNCHANGED <<decision, observed>>

Decide(e) == /\ stage[e] = "queued"
             /\ stage' = [stage EXCEPT ![e] = "decided"]
             /\ \E a \in Actions : decision' = [decision EXCEPT ![e] = a]
             /\ UNCHANGED observed

Complete(e) == \E O \in SUBSET Events :
                 /\ stage[e] = "decided"
                 /\ stage' = [Queue(O) EXCEPT ![e] = "applied"]
                 /\ observed' = [observed EXCEPT ![e] = O]
                 /\ UNCHANGED decision

Next == Enqueue \/ \E e \in Events : Decide(e) \/ Complete(e)

Spec == Init /\ [][Next]_ledger
=============================================================================
