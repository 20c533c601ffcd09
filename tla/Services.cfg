SPECIFICATION ServicesSpec
CONSTANTS
  one = one
  two = two
  red = red
  blue = blue
  three = three
  Attempts = {one, two, three}
  Units = {red, blue}
  NoAttempt = NoAttempt
  SubtaskOf <- TwoSubtasks
  AgentClassOf <- OneClass
  GrantOf <- Grants
  UnitLease = 1
  ResourceLease = 1
  MaxTime = 2
  MaxDeaths = 1
  Tasks = {"t1", "t2", "t3"}
  Smoke = {"t3"}
  Found <- TaskStatuses
  Listed <- ListedThings
  Aims <- TypedLines
  Fragments <- TypedParts
  Nearest <- Corrections
  Unclosed = {"open"}
  HistoryLimit = 2
  SuggestionLimit = 2
  MaxCommands = 2
  MaxWords <- TypedWords
  MaxChanges = 1
  MaxEvents = 2
  Runs = {1, 2}
  MaxSandboxFaults = 1
  Turns = {"t1", "t2"}
  Plans = {"p", "q"}
  Modes <- PlannerModes
  Effects <- PlanEffects
  MaxQueued = 2
  MaxPlannerCrashes = 1
SYMMETRY Interchangeable
CHECK_DEADLOCK FALSE
INVARIANTS
  LeasesExclusive
  ProposalIsExact
  SandboxIsAccounted
  CommandsAreExact
PROPERTIES
  OnlyItsOwnRelease
