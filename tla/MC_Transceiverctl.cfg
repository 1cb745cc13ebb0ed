\* Every way a run of the command can go with up to three interfaces.
CONSTANTS
  eth0 = eth0
  eth1 = eth1
  eth2 = eth2
  Interfaces <- MCInterfaces
  BlankName = BlankName
  FlagLists <- MCFlagLists
  Discoveries <- MCDiscoveries

SPECIFICATION FairSpec
INVARIANTS
  TypeOK
  ExitTellsTheTruth
  ReaderIsReleased
  SilenceIsExplained
  NamedAreAccountedFor
PROPERTIES
  CommandEnds
CHECK_DEADLOCK FALSE
