SPECIFICATION Spec
CONSTANTS
  v1 = v1
  v2 = v2
  NoVM = NoVM
  VMs = {v1, v2}
  TaskVM <- TwoMachineJob
  NTasks = 2
  NManage = 0
  HasUnzip = FALSE
  CopyFrom = FALSE
  MaxTries = 1
  MaxCrashes = 2
PROPERTIES ImplementsJob
