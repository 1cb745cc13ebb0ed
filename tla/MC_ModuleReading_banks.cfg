\* The same instance; the banks that were read against the lanes decoded.
CONSTANTS
  wide = wide
  mono = mono
  flat = flat
  qsfp = qsfp
  sfp = sfp
  Modules <- MCModules
  CMIS <- MCCMIS
  Flat <- MCFlat
  Banks <- MCBanks
  LegacySlots <- MCLegacySlots
  NoModule = NoModule
  Zero = Zero
  Missing = Missing
  Callers = {c1}
  Interfaces = {eth0}
  NoInterface = NoInterface
  HasNetlink = TRUE
  Errnos = {EIO}
  Free = Free
  MaxSwaps = 1
  LanesPerBank = 2
  Monitors <- MCMonitors
  Faults <- MCFaults
  AppEnd = AppEnd
  Apps <- MCApps
  LowerFlags <- MCLowerFlags
  Advert <- MCAdvert
  FaultAdvert <- MCFaultAdvert
  Limits <- MCLimits
  Exceeded <- MCExceeded
  LaneData <- MCLaneData
  ZeroPages <- MCZeroPages
  SFF8472 <- MCSFF8472
  SFF8636 <- MCSFF8636
  FlagBits <- MCFlagBits
  HasDDM <- MCHasDDM
  Blocks <- MCBlocks
  Crossed <- MCCrossed

SPECIFICATION Spec
INVARIANTS
  ReadBanksAreDecoded
