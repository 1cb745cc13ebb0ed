\* Safety of the reader without netlink: two callers, two interfaces, one swap.
CONSTANTS
  sff = sff
  flat = flat
  dsp = dsp
  Modules <- MCModules
  CMIS <- MCCMIS
  Flat <- MCFlat
  Banks <- MCBanks
  LegacySlots <- MCLegacySlots
  NoModule = NoModule
  Zero = Zero
  Missing = Missing
  Callers = {c1, c2}
  Interfaces = {eth0, eth1}
  NoInterface = NoInterface
  HasNetlink = FALSE
  Errnos = {EIO, EOPNOTSUPP}
  Free = Free
  MaxSwaps = 1

SPECIFICATION Spec
INVARIANTS
  NoPrematureFailure
PROPERTIES
  ImplementsContract
