CONSTANTS
  Symbol <- MCSymbol
  Delimiter = "+"
  Devices <- PlainDevices
  References <- OneReference
  AllDevices = AllDevices
  BatchSize = 2
  MaxAccepted <- BacklogBounds
  MaxCrashes = 1
SPECIFICATION FairSpec
INVARIANTS NoLoss NoOvertaking RepeatsOnlyAfterCrash
PROPERTIES ImplementsOutbox PublishEnds CleanCallDrains OnlyAskedDevice
