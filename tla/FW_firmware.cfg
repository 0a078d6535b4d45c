SPECIFICATION FairSpec
CONSTANTS
  Devices <- OneDevice
  d1 = d1
  NoDevice = NoDevice
  MaxRequests = 3
  MaxSessions = 2
INVARIANTS TypeOK OneOutcomePerInstallation CourseInv PlatformKnowsVersions VersionInv
PROPERTIES VersionsDoNotGoBack AbortIsNotBlocked
CHECK_DEADLOCK FALSE
