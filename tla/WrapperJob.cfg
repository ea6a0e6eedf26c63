SPECIFICATION FairSpec
CONSTANTS
  v1 = v1
  v2 = v2
  NoVM = NoVM
  VMs = {v1}
  TaskVM <- HostFirstJob
  NTasks = 3
  NManage = 1
  HasUnzip = TRUE
  CopyFrom = TRUE
  MaxTries = 1
  MaxCrashes = 2
INVARIANTS TypeOK CheckpointSound LostWorkBounded NormalFinish SuspendTracks
PROPERTIES QuitObeyed JobEnds
