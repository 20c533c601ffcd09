SPECIFICATION Spec
CONSTANTS
  first = first
  again = again
  sibling = sibling
  ask = ask
  askAgain = askAgain
  other = other
  promote = promote
  promoteToo = promoteToo
  f1 = f1
  f2 = f2
  Attempts = {first, again}
  FirstAttempts = {first}
  NextAttempt <- Successor
  Requests = {promote, promoteToo}
  AttemptOf <- Asker
  Promotions = {promote, promoteToo}
  Fingerprint <- Likeness
  Rule <- Effects
  MaxDistinct = 2
  Flows = {f1, f2}
  MaxFaults = 1
SYMMETRY InterchangeableFlows
CHECK_DEADLOCK FALSE
INVARIANTS
  ApprovalIsExact
