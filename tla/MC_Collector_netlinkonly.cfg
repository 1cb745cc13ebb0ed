\* One scrape of a host whose driver reads modules by netlink only.
CONSTANTS
  dsp = dsp
  dac = dac
  lr = lr
  qsfp = qsfp
  odd = odd
  latin = latin
  eth0 = eth0
  eth1 = eth1
  eth2 = eth2
  Scrapes = {s1}
  Interfaces <- MCInterfaces
  FlagLists <- AutoOnly
  Physical <- MCPhysical
  Supports <- NetlinkOnly
  ReaderPaths <- BothPaths
  Modules <- MCModules
  NoModule = NoModule
  Decoded <- MCDecoded
  Undecodable = Undecodable
  Unprintable <- MCUnprintable
  MaxEvents = 1

SPECIFICATION Spec
INVARIANTS
  SupportedIsReported
