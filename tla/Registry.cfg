SPECIFICATION FairSpec
CONSTANTS
  trainer = trainer
  api = api
  v1 = v1
  v2 = v2
  v3 = v3
  NoVersion = NoVersion
  Trainer = trainer
  Api = {api}
  Settings <- Deployments
  Versions = {v1, v2, v3}
  MaxDist = 1
  MaxFaults = 1
INVARIANTS
  TypeOK
  NamedIsWhole
PROPERTIES
  DemoRecovers
