\* One cage with one kind of module; what becomes of a discovery that fails.
CONSTANTS
  dsp = dsp
  qsfp = qsfp
  lr = lr
  odd = odd
  For <- MCFor
  Interfaces = {eth0}
  Modules <- OnlyQsfp
  NoModule = NoModule
  Format <- MCFormat
  Lanes <- MCLanes
  Signs <- MCSigns
  Misread <- MCMisread
  Unprintable = {}
  Repeating = {}
  Hidden = {}
  AutoDiscovery = TRUE
  Unknown = Unknown
  Target = Target

SPECIFICATION FairSpec
PROPERTIES
  SilenceIsTicketed
