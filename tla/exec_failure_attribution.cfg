SPECIFICATION Spec
CONSTANTS
  e1 = e1
  e2 = e2
  s1 = s1
  s2 = s2
  s3 = s3
  s4 = s4
  s5 = s5
  Object = Object
  Executions = {e1}
  StepIds <- ChainSteps
  TypeOf <- ChainType
  NextOf <- ChainNext
  BranchesOf <- ChainBranches
  First = s1
  WritesOf <- NoWrites
  Given = {{}}
  None = None
  Unknown = Unknown
  TaskCount = 1
  ResultCount = 1
  MaxTasks = 2
  Faults = {"memoryWrite"}
  MaxFaults = 1
INVARIANTS
  FailureAttribution
