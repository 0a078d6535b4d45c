CONSTANTS
  Symbol <- MCSymbol
  Delimiter = "+"
  Devices <- OneDevice
  References <- OddReferences
  AllDevices = AllDevices
  BatchSize = 2
  MaxAccepted <- EveryKindBounds
  MaxCrashes = 1
SPECIFICATION Spec
INVARIANTS TypeOK NoStaleStatus RemovalIsOfWhatWasSent RightDevice
PROPERTIES ImplementsOutbox
