---------------------------- MODULE MCPublication ----------------------------
(* Publication on two independent Subtasks; the first, which comes first in    *)
(* the order of publication, may be attempted again.                           *)
EXTENDS Publication, TLC

CONSTANTS s1, s2

Ranks == [s \in Subtasks |-> IF s = s1 THEN 1 ELSE 2]
Attempted == [s \in Subtasks |-> IF s = s1 THEN 2 ELSE 1]
=============================================================================
