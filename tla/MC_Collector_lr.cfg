\* One scrape of a host with a 10GBASE-LR module.
CONSTANTS
  dsp = dsp
  dac = dac
  lr = lr
  qsfp = qsfp
  odd = odd
  latin = latin
  eth0 = eth0
  eth1 = eth1
  eth2 = eth2
  Scrapes = {s1}
  Interfaces <- MCInterfaces
  FlagLists <- AutoOnly
  Physical <- MCPhysical
  Supports <- MCSupports
  ReaderPaths <- BothPaths
  Modules <- LRModules
  NoModule = NoModule
  Decoded <- MCDecoded
  Undecodable = Undecodable
  Unprintable = {}
  MaxEvents = 1

SPECIFICATION Spec
INVARIANTS
  DecodedIsExported
