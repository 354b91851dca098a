SPECIFICATION FairSpec
CONSTANTS
  consumer = consumer
  api = api
  Plants <- OnePlants
  Order <- OneOrder
  Consumer = consumer
  Api = {api}
  Qualities = {"good", "bad"}
  Unhealthy = {"bad"}
  NoPlant = NoPlant
  Stale = 0
  Cooldown = 1
  MaxTime = 1
  MaxSent = 2
  MaxAlerts = 0
  MaxFaults = 1
INVARIANTS
  TypeOK
  RowIsNewest
PROPERTIES
  PublishedIsStored
