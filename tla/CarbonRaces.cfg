SPECIFICATION Spec
CONSTANTS
  yesterday = yesterday
  today = today
  tomorrow = tomorrow
  daily = daily
  NoReport = NoReport
  scheduler = scheduler
  api = api
  api2 = api2
  Reports = {yesterday, today}
  Series = {daily}
  SeriesOf <- Daily
  Window <- Days
  Plants <- MCPlants
  PlantOf <- Olefin
  Slots = {scheduler, api, api2}
  Scheduler = scheduler
  Configs <- Running
  MaxTime = 0
  MaxData <- Samples
  MaxTrail = 5
  MaxSyncs = 0
  MaxFaults = 0
SYMMETRY ApiSlots
INVARIANTS
  LockedWasReviewed
  StatusOnTrail
  
PROPERTIES
  AssuranceRefined
