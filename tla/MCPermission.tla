---------------------------- MODULE MCPermission -----------------------------
(* Permission with an attempt, the one that recovers its workspace, and a      *)
(* sibling.                                                                    *)
EXTENDS Permission, TLC

CONSTANTS first, again, sibling,   \* attempts
          ask, askAgain, other,    \* capability requests, two of them alike
          promote, promoteToo,     \* promotion requests
          f1, f2

Successor == [a \in Attempts |-> IF a = first /\ again \in Attempts THEN again ELSE NoAttempt]
Asker == [r \in Requests |-> IF r = other THEN sibling
                             ELSE IF r \in {askAgain, promoteToo} THEN again ELSE first]
Likeness == [r \in Requests |-> IF r = askAgain THEN ask ELSE r]
Effects == [r \in Requests |-> IF r = other THEN "allow" ELSE "sensitive"]
InterchangeableFlows == Permutations(Flows)
=============================================================================
