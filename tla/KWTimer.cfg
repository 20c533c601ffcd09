SPECIFICATION TimerSpec
CONSTANTS
  Workflows <- TwinWorkflows
  Events <- TaskEvents
  Actions <- MCActions
  Inputs <- ExternalInputs
  StartupEvents <- Orphans
  Accepted <- TwinAccepted
  AcceptedAct <- TwinAcceptedAct
  Scope <- TwinScope
  Decides <- MCDecides
  Follows <- MCFollows
  Throwing <- TaskEvents
  Failing <- TaskEvents
  Recovering <- TwinWorkflows
  MaxDecisions = 2
  MaxTime = 1
  MaxCrashes = 1
  Blocking <- BlockingActions
CHECK_DEADLOCK FALSE
PROPERTIES
  DueEventDecided
