SPECIFICATION Spec
CONSTANTS
  Workflows = {w1, w2}
  Triggers = {"often", "rarely"}
  Period <- MCPeriod
  Skipped = "skipped"
  BadInterval = "badInterval"
  NoRow = "noRow"
  NoJob = NoJob
  MaxChanges = 1
  Faults = {}
  MaxFaults = 0
PROPERTIES
  NewWorkflowGetsJob
