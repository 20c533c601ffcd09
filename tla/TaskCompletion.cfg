SPECIFICATION FairSpec
CONSTANTS
  Subtasks = {s1, s2}
  Decisions = {d1, d2, d3}
  Executions = {e1, e2}
  Sessions = {x1, x2}
  MaxUser = 4
  MaxCrashes = 2
CHECK_DEADLOCK FALSE
INVARIANTS
  AtMostOnce
  CompletionIsWhole
PROPERTIES
  EffectSettles
