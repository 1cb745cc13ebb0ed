\* Two concurrent scrapes under fairness, with auto-discovery, explicit and repeated flags.
CONSTANTS
  dsp = dsp
  dac = dac
  lr = lr
  qsfp = qsfp
  odd = odd
  latin = latin
  eth0 = eth0
  eth1 = eth1
  eth2 = eth2
  Scrapes = {s1, s2}
  Interfaces <- MCInterfaces
  FlagLists <- MCFlagLists
  Physical <- MCPhysical
  Supports <- MCSupports
  ReaderPaths <- IoctlOnly
  Modules <- MCModules
  NoModule = NoModule
  Decoded <- MCDecoded
  Undecodable = Undecodable
  Unprintable <- MCUnprintable
  MaxEvents = 1

SPECIFICATION FairSpec
INVARIANTS
  TypeOK
  ServedWhole
  RefusedOnlyForRepeats
  ExplicitAlwaysJudged
  UnsupportedStaysSilent
PROPERTIES
  ImplementsVerdicts
  ScrapesEnd
