CONSTANTS
  d1 = d1
  d2 = d2
  Devices <- OneDevice
  Walk <- MCWalk
  NoDevice = NoDevice
  Assets <- MCAssets
  Reference <- MCReference
  Offers <- MCOffers
  ReconnectMayFail = FALSE
  Menu <- FleetCalls
  MaxCalls = 3
  MaxLosses = 1
SPECIFICATION Spec
INVARIANTS AcceptedAssetsReachPlatform
CHECK_DEADLOCK FALSE
