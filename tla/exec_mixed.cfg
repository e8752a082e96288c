SPECIFICATION LiveSpec
CONSTANTS
  e1 = e1
  e2 = e2
  s1 = s1
  s2 = s2
  s3 = s3
  s4 = s4
  s5 = s5
  Object = Object
  Executions = {e1}
  StepIds <- MixedSteps
  TypeOf <- MixedType
  NextOf <- MixedNext
  BranchesOf <- MixedBranches
  First = s1
  WritesOf <- MixedWrites
  Given = {{}, {s1, s5}}
  None = None
  Unknown = Unknown
  TaskCount = 1
  ResultCount = 2
  MaxTasks = 3
  Faults = {"database", "statusPublish", "enqueue", "resultRead", "resultAck", "platformCrash", "agentPublish", "memoryWrite", "taskAck", "agentCrash"}
  MaxFaults = 3
INVARIANTS
  TerminalEventLast
  OutputIsAwaited
PROPERTIES
  EveryExecutionEnds
  EventsAnnounceCommitted
  TerminalRowStable
  LifecycleSpec
  ServiceSpec
CHECK_DEADLOCK FALSE
