SPECIFICATION Spec

CONSTANTS
  Grace = 1
  Holdoff = 4
  Settings <- MostSettings

INVARIANTS
  TypeOK
  OneProcedure
  FastMeansFast

PROPERTIES
  ConnectAsksForSession
  ForegroundGetsFastLink
  RelaxesAfterHoldoff
  UnattendedAsksForIdle
