SPECIFICATION Spec
CONSTANTS
  Workflows = {w1, w2}
  Triggers = {"often", "rarely"}
  Period <- MCPeriod
  Skipped = "skipped"
  BadInterval = "badInterval"
  NoRow = "noRow"
  NoJob = NoJob
  MaxChanges = 2
  Faults = {"database", "restart"}
  MaxFaults = 2
INVARIANTS
  JobsHaveRows
PROPERTIES
  TimersRunOn
  ScheduleFires
  RemovedStops
