SPECIFICATION Spec
CONSTANTS
  consumer = consumer
  api = api
  Plants <- TwoPlants
  Order <- TwoOrder
  Consumer = consumer
  Api = {api}
  Qualities = {"good", "bad"}
  Unhealthy = {"bad"}
  NoPlant = NoPlant
  Stale = 0
  Cooldown = 1
  MaxTime = 1
  MaxSent = 1
  MaxAlerts = 2
  MaxFaults = 0
INVARIANTS
  NoAlertStorm
  BadIsFlagged
