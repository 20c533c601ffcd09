---------------------------- MODULE AttemptRecord ----------------------------
(***************************************************************************)
(* What the store promises to keep of the attempts of a Task, whatever     *)
(* promises, sweeps, pauses, cancellations and restarts write to it: the   *)
(* attempts of a Subtask follow one another, and the next is ordered only  *)
(* when none holds the Subtask's place; an attempt is started once; it     *)
(* receives one outcome at most, in the step that ends it, and none once   *)
(* it has ended without; only a started one, which nobody has withdrawn    *)
(* or come to doubt, is published, in the step that seals its completion;  *)
(* and a withdrawal is final.                                              *)
(***************************************************************************)
EXTENDS Integers

CONSTANTS Subtasks, MaxAttempts

VARIABLES stage,      \* how far each attempt has come
          outcome,    \* the outcome it was sealed with, or "none"
          published   \* the attempts whose candidate was published

record == <<stage, outcome, published>>

Attempts == Subtasks \X (1..MaxAttempts)
Of(a) == a[1]

Stages == {"absent", "ordered", "started", "doubtful", "withdrawing", "ended", "withdrawn"}
Holding == {"ordered", "started", "withdrawing"}

Init == /\ stage = [a \in Attempts |-> "absent"]
        /\ outcome = [a \in Attempts |-> "none"]
        /\ published = {}

\* The attempts of A move, the others stay.
Moved(A, to) == stage' = [a \in Attempts |-> IF a \in A THEN to ELSE stage[a]]

IsNext(a) ==
  /\ stage[a] = "absent"
  /\ \A b \in Attempts : Of(b) = Of(a) =>
        /\ stage[b] \notin Holding
        /\ b[2] < a[2] => stage[b] # "absent"

Order(A) == /\ \A a \in A : IsNext(a)
            /\ Moved(A, "ordered")
            /\ UNCHANGED <<outcome, published>>

Start(a) == /\ stage[a] = "ordered"
            /\ Moved({a}, "started")
            /\ UNCHANGED <<outcome, published>>

Doubt(A) == /\ \A a \in A : stage[a] = "started"
            /\ Moved(A, "doubtful")
            /\ UNCHANGED <<outcome, published>>

\* Those of A have not been started and need no cleanup; those of B do, and
\* hold the place of their Subtask until they are cleaned up.
Withdraw(A, B) ==
  /\ \A a \in A : stage[a] = "ordered"
  /\ \A b \in B : stage[b] \in {"ordered", "started", "doubtful"}
  /\ stage' = [a \in Attempts |-> IF a \in A THEN "withdrawn"
                                  ELSE IF a \in B THEN "withdrawing" ELSE stage[a]]
  /\ \A b \in B, a \in Attempts : Of(a) = Of(b) /\ stage'[a] \in Holding => a = b
  /\ UNCHANGED <<outcome, published>>

CleanedUp(A) == /\ \A a \in A : stage[a] = "withdrawing"
                /\ Moved(A, "withdrawn")
                /\ UNCHANGED <<outcome, published>>

\* It ends without an outcome.
End(a) == /\ stage[a] = "started" /\ outcome[a] = "none"
          /\ Moved({a}, "ended")
          /\ UNCHANGED <<outcome, published>>

Seal(a, result) ==
  /\ outcome[a] = "none" /\ result # "none"
  /\ outcome' = [outcome EXCEPT ![a] = result]
  /\ \/ /\ stage[a] \in {"started", "doubtful"} /\ Moved({a}, "ended")
        /\ \/ published' = published
           \/ /\ stage[a] = "started" /\ result = "completed"
              /\ published' = published \cup {a}
     \/ /\ stage[a] \in {"withdrawing", "withdrawn"} /\ Moved({a}, "withdrawn")
        /\ published' = published

Results == {"completed", "failed", "contract_blocked", "heartbeat_lost", "task_paused"}

Next ==
  \/ \E A \in SUBSET Attempts : Order(A) \/ Doubt(A) \/ CleanedUp(A)
  \/ \E A, B \in SUBSET Attempts : Withdraw(A, B)
  \/ \E a \in Attempts : Start(a) \/ End(a) \/ \E result \in Results : Seal(a, result)

Spec == Init /\ [][Next]_record
=============================================================================
