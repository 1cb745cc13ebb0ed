\* Liveness under fairness: two callers contend for the reader.
CONSTANTS
  sff = sff
  flat = flat
  dsp = dsp
  Modules <- SmallModules
  CMIS <- SmallCMIS
  Flat <- SmallFlat
  Banks <- SmallBanks
  LegacySlots <- SmallLegacySlots
  NoModule = NoModule
  Zero = Zero
  Missing = Missing
  Callers = {c1, c2}
  Interfaces = {eth0}
  NoInterface = NoInterface
  HasNetlink = TRUE
  Errnos = {EIO}
  Free = Free
  MaxSwaps = 1

SPECIFICATION FairSpec
PROPERTIES
  CallsReturn
