CONSTANTS
  d1 = d1
  d2 = d2
  Devices <- MCDevices
  Walk <- MCWalk
  NoDevice = NoDevice
  Assets <- MCAssets
  Reference <- MCReference
  Offers <- TwoOffers
  ReconnectMayFail = FALSE
  Menu <- AllFleetCalls
  MaxCalls = 3
  MaxLosses = 1
SPECIFICATION Spec
INVARIANTS TypeOK StaleFlagIsRepaired FlagInv WillCoversDevices PlatformKnowsDevices NoContradiction
CHECK_DEADLOCK FALSE
