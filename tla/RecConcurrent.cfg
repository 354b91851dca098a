SPECIFICATION Spec
CONSTANTS
  r1 = r1
  temp = temp
  feed = feed
  press = press
  steam = steam
  NoRec = NoRec
  h1 = h1
  h2 = h2
  Recs = {r1}
  Plants <- MCPlants
  PlantOf <- Olefin
  Fields <- MCFields
  Handlers = {h1, h2}
  Configs <- AllConfigs
  MaxTrail = 5
INVARIANTS
  TypeOK
  WriteNeedsApproval
  WriteNeedsSim
  WriteAllowlisted
  ModeOnTrail
  LiveTrailMeansWritten
  RowOnTrail
PROPERTY
  LifecycleUnlessOvertaken
