SPECIFICATION FairSpec
CONSTANTS
  Configs <- Processes
  Calling <- Always
  Interval = 2
  MaxVersion = 2
  MaxBatches = 2
  MaxTrail = 2
  MaxFaults = 1
INVARIANT
  TypeOK
PROPERTIES
  QueuedSparingly
  LoopRecovers
  AdviceFollowsPlant
  MemoryLifecycle
