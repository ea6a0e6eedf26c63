SPECIFICATION Spec
CONSTANTS
  v1 = v1
  v2 = v2
  NoVM = NoVM
  VMs = {v1}
  TaskVM <- MixedJob
  NTasks = 2
  NManage = 1
  HasUnzip = FALSE
  CopyFrom = FALSE
  MaxTries = 1
  MaxCrashes = 0
INVARIANT FinishMeansCompleted
