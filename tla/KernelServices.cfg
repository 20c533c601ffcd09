SPECIFICATION KernelServicesSpec
CONSTANTS
  one = one
  two = two
  red = red
  blue = blue
  Workflows <- TwoWorkflows
  Events <- TaskEvents
  Actions <- MCActions
  Inputs <- ExternalInputs
  StartupEvents <- Orphans
  Accepted <- TwoAccepted
  AcceptedAct <- TwoAcceptedAct
  Scope <- TwoScope
  Decides <- MCDecides
  Follows <- MCFollows
  Throwing <- TaskEvents
  Failing <- TaskEvents
  Recovering <- TwoWorkflows
  MaxDecisions = 2
  MaxTime = 1
  MaxCrashes = 1
  Workspaces = {"w1", "w2", "w3"}
  Checkpoints = {one, two}
  Objects = {red, blue}
  Owner <- TwoTasks
  MaxStorageCrashes = 1
  Messages = {"a", "b", "c"}
  Mixes <- MessageMixes
  Redelivered = {"a"}
  Executors = {one, two}
  Commands = {"a", "b"}
  Hosts <- TwoHosts
  MaxRegistrations = 2
  MaxDisturbances = 1
  Subtasks = {"a", "b", "c"}
  Classes = {"e1", "e2"}
  Covers <- Skills
  WorkGraphs <- Graphs
  Slots = 2
  Threshold = 1
  MaxProposals = 2
  MaxMishaps = 1
  three = three
  four = four
  five = five
  Tasks = {"t1", "t2"}
  Nodes = {one, two, three, four, five}
  TaskOf <- HandingTasks
  Items <- Contracts
  Refs <- Cited
  Resources <- TaskResources
  Interactions <- TaskInteractions
  Preferences <- TaskPreferences
  Quoted <- TaskQuotes
  Name <- FileName
  Responses <- ExecutorResponses
  MaxRetries = 1
  TextPerItem = 4
  TextPerEdge = 12
  TextPerNode = 24
  PathsPerItem = 2
  PathsPerEdge = 2
  PathsPerNode = 4
SYMMETRY Interchangeable
CHECK_DEADLOCK FALSE
INVARIANTS
  TypeOK
  IssuanceAtomic
  ClaimHeld
  ObservationDurable
  StoreIsConsistent
  RegistryIsSound
  ChatIsServed
  AdmissionIsSound
  DeliveryIsExact
  BudgetIsKept
PROPERTIES
  CompletionHasRun
  ImplementsLedger
