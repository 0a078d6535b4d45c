CONSTANTS
  d1 = d1
  d2 = d2
  Devices <- OneDevice
  Walk <- MCWalk
  NoDevice = NoDevice
  Assets <- MCAssets
  Reference <- MCReference
  Offers <- NoOffers
  ReconnectMayFail = FALSE
  Menu <- DataCalls
  MaxCalls = 3
  MaxLosses = 1
SPECIFICATION FairSpec
INVARIANTS StoredDataIsSent
PROPERTIES EndsConnected RetryDoesNotStarve
CHECK_DEADLOCK FALSE
