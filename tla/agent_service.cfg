SPECIFICATION Spec
CONSTANTS
  Names = {"sql_query", "unknown"}
  Registered = {"sql_query"}
  MaxCalls = 2
  RecursionLimit = 3
  Tasks <- MCTasks
  Supported = {"gemini", "claude"}
  Default = "gemini"
  None = None
  TaskCount = 2
  MaxTasks = 2
  MaxFaults = 2
INVARIANTS
  CallsAnswered
  VerdictMatches
  ToolClosed
  LogsAgree
PROPERTIES
  EveryTaskAnswered
  ServiceSpec
