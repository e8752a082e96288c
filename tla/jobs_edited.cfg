SPECIFICATION Spec
CONSTANTS
  Workflows = {w1}
  Triggers = {"often", "rarely"}
  Period <- MCPeriod
  Skipped = "skipped"
  BadInterval = "badInterval"
  NoRow = "noRow"
  NoJob = NoJob
  MaxChanges = 1
  Faults = {}
  MaxFaults = 0
PROPERTIES
  EditTakesEffect
