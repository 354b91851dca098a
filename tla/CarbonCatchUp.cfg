SPECIFICATION FairSpec
CONSTANTS
  yesterday = yesterday
  today = today
  tomorrow = tomorrow
  daily = daily
  NoReport = NoReport
  scheduler = scheduler
  api = api
  api2 = api2
  Reports = {yesterday, today, tomorrow}
  Series = {daily}
  SeriesOf <- Daily
  Window <- Days
  Plants <- MCPlants
  PlantOf <- Olefin
  Slots = {scheduler, api}
  Scheduler = scheduler
  Configs <- Either
  MaxTime = 1
  MaxData <- Samples
  MaxTrail = 3
  MaxSyncs = 1
  MaxFaults = 1
INVARIANTS
  TypeOK
  SubmissionsTraceable
PROPERTIES
  ReportsCatchUp
