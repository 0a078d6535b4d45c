CONSTANTS
  d1 = d1
  d2 = d2
  Devices <- OneDevice
  Walk <- MCWalk
  NoDevice = NoDevice
  Assets <- MCAssets
  Reference <- MCReference
  Offers <- NoOffers
  ReconnectMayFail = FALSE
  Menu <- ConnectionCalls
  MaxCalls = 3
  MaxLosses = 1
SPECIFICATION Spec
PROPERTIES DisconnectSticks
CHECK_DEADLOCK FALSE
