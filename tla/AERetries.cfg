SPECIFICATION Safely
CONSTANTS
  s1 = s1
  s2 = s2
  Subtasks = {s1, s2}
  MaxAttempts = 3
  MaxConcurrent = 2
  Occurs = {"retryable", "expires"}
  MaxPauses = 0
  MaxCancels = 0
  MaxCrashes = 0
SYMMETRY Interchangeable
CHECK_DEADLOCK FALSE
INVARIANTS
  CountedRetries
