SPECIFICATION Safely
CONSTANTS
  s1 = s1
  s2 = s2
  Subtasks = {s1}
  MaxAttempts = 2
  MaxConcurrent = 2
  Occurs = {"stale", "expires", "retryable", "domain", "capacity", "contract", "cancel_task", "cancel_subtasks"}
  MaxPauses = 1
  MaxCancels = 1
  MaxCrashes = 2
CHECK_DEADLOCK FALSE
INVARIANTS
  TypeOK
  OneSandbox
  OwnershipHeld
  OutcomeIsAtomic
PROPERTIES
  ReleaseIsSealed
  ImplementsRecord
