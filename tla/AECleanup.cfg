SPECIFICATION Spec
CONSTANTS
  s1 = s1
  s2 = s2
  Subtasks = {s1, s2}
  MaxAttempts = 1
  MaxConcurrent = 2
  Occurs = {"unprepared", "unstoppable", "contract", "cancel_task"}
  MaxPauses = 0
  MaxCancels = 1
  MaxCrashes = 1
CHECK_DEADLOCK FALSE
PROPERTIES
  NothingAfterCancellation
  CancelledStaysCancelled
  CleanupIsRetried
