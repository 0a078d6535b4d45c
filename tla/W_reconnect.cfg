CONSTANTS
  d1 = d1
  d2 = d2
  Devices <- OneDevice
  Walk <- MCWalk
  NoDevice = NoDevice
  Assets <- MCAssets
  Reference <- MCReference
  Offers <- NoOffers
  ReconnectMayFail = TRUE
  Menu <- ConnectionCalls
  MaxCalls = 3
  MaxLosses = 1
SPECIFICATION Spec
INVARIANTS AddedDevicesAreRegistered
CHECK_DEADLOCK FALSE
