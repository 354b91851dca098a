SPECIFICATION FairSpec
CONSTANTS
  Plants <- OnePlant
  Fields <- TwoFields
  Mapped <- AllMapped
  Slots = {h1, h2}
  Configs <- Deployments
  Content <- NodeContent
  NoSlot = NoSlot
  NoPlant = NoPlant
  NoTag = NoTag
  MaxVersion = 2
  MaxFaults = 1
INVARIANTS
  TypeOK
  SubscribedOnce
  NoticeIsNewest
PROPERTIES
  ReadEnds
