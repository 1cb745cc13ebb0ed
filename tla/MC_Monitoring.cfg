\* One cage and every module; drivers hang and the process dies at any moment.
CONSTANTS
  dsp = dsp
  qsfp = qsfp
  lr = lr
  odd = odd
  For <- MCFor
  Interfaces = {eth0}
  Modules <- MCModules
  NoModule = NoModule
  Format <- MCFormat
  Lanes <- MCLanes
  Signs <- MCSigns
  Misread <- MCMisread
  Unprintable = {odd}
  Repeating = {lr}
  Hidden = {}
  AutoDiscovery = TRUE
  Unknown = Unknown
  Target = Target

SPECIFICATION FairSpec
INVARIANTS
  TypeOK
  FiresOnlyForCause
  StandingIsFiring
PROPERTIES
  AlertsClear
  OutageIsNoticed
