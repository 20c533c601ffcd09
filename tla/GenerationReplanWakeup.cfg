SPECIFICATION Safely
CONSTANTS
  s1 = s1
  s2 = s2
  Subtasks = {s1, s2}
  MaxRevision = 3
  MaxLosses = 0
  MaxCancels = 1
SYMMETRY InterchangeableSubtasks
CHECK_DEADLOCK FALSE
INVARIANTS
  QuiescenceIsNoticed
