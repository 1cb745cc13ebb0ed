\* Safety of the reader with netlink: two callers, one interface, one swap.
CONSTANTS
  sff = sff
  flat = flat
  dsp = dsp
  Modules <- MCModules
  CMIS <- MCCMIS
  Flat <- MCFlat
  Banks <- MCBanks
  LegacySlots <- MCLegacySlots
  NoModule = NoModule
  Zero = Zero
  Missing = Missing
  Callers = {c1, c2}
  Interfaces = {eth0}
  NoInterface = NoInterface
  HasNetlink = TRUE
  Errnos = {EIO}
  Free = Free
  MaxSwaps = 1

SPECIFICATION Spec
INVARIANTS
  TypeOK
  Serialized
  NoPrematureFailure
  CMISPrefersNetlink
  OthersStayOnIoctl
  UpperPagesWellFounded
PROPERTIES
  ClosedReaderFails
  ImplementsContract
