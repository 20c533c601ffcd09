SPECIFICATION TaskServicesSpec
CONSTANTS
  s1 = s1
  s2 = s2
  Subtasks = {s1, s2}
  MaxRevision = 3
  MaxLosses = 1
  MaxCancels = 1
  first = first
  again = again
  sibling = sibling
  ask = ask
  askAgain = askAgain
  other = other
  promote = promote
  promoteToo = promoteToo
  f1 = f1
  f2 = f2
  Attempts = {first, again}
  FirstAttempts = {first}
  NextAttempt <- Successor
  Requests = {ask, askAgain, promote, promoteToo}
  AttemptOf <- Asker
  Promotions = {promote, promoteToo}
  Fingerprint <- Likeness
  Rule <- Effects
  MaxDistinct = 2
  Flows = {f1, f2}
  MaxFaults = 1
SYMMETRY Interchangeable
CHECK_DEADLOCK FALSE
INVARIANTS
  ReplanIsOrderly
  StallIsExplained
  GrantIsAuthorized
  UndisturbedApproval
  PausedIsBeingDecided
PROPERTIES
  LatePlanIsRejected
  DeniedIsFinal
