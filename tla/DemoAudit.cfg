SPECIFICATION Spec
CONSTANTS
  Configs <- QuickStart
  Calling <- Always
  Interval = 2
  MaxVersion = 2
  MaxBatches = 2
  MaxTrail = 2
  MaxFaults = 1
INVARIANT
  MemoryAudited
