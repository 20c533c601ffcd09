-------------------------- MODULE MCAttemptExecution --------------------------
(***************************************************************************)
(* Small instances of AttemptExecution for TLC.                            *)
(***************************************************************************)
EXTENDS AttemptExecution, TLC

CONSTANTS s1, s2

\* The Subtasks are independent and nothing tells them apart.
Interchangeable == Permutations(Subtasks)

Safely == Init /\ [][Next]_vars
=============================================================================
