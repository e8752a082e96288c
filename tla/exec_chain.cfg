SPECIFICATION Spec
CONSTANTS
  e1 = e1
  e2 = e2
  s1 = s1
  s2 = s2
  s3 = s3
  s4 = s4
  s5 = s5
  Object = Object
  Executions = {e1, e2}
  StepIds <- ChainSteps
  TypeOf <- ChainType
  NextOf <- ChainNext
  BranchesOf <- ChainBranches
  First = s1
  WritesOf <- NoWrites
  Given = {{}}
  None = None
  Unknown = Unknown
  TaskCount = 2
  ResultCount = 2
  MaxTasks = 4
  Faults = {"database", "enqueue", "resultRead", "resultAck", "platformCrash", "agentPublish", "memoryWrite", "taskAck", "agentCrash"}
  MaxFaults = 2
SYMMETRY Symmetry
INVARIANTS
  OutputAttribution
  OneOpenTask
  WaiterReachable
  CompletedAnswersAll
