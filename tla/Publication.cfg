SPECIFICATION Spec
CONSTANTS
  s1 = s1
  s2 = s2
  Subtasks = {s1, s2}
  Rank <- Ranks
  MaxAttempts <- Attempted
  MaxCommits = 1
  MaxCancels = 1
  MaxCrashes = 1
  GitFaults = {"dirty", "conflict", "remove"}
CHECK_DEADLOCK FALSE
INVARIANTS
  OnlyApproved
  DoneIsMerged
  WaitingHasRow
