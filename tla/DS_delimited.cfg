CONSTANTS
  Symbol <- MCSymbol
  Delimiter = "+"
  Devices <- DelimitedDevices
  References <- OneReference
  AllDevices = AllDevices
  BatchSize = 2
  MaxAccepted <- BacklogBounds
  MaxCrashes = 1
SPECIFICATION Spec
INVARIANTS RightDevice
