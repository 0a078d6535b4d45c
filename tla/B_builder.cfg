CONSTANTS
  Mandatory <- OnePart
  MaxPersistences = 1
  MaxBuilds = 2
SPECIFICATION Spec
INVARIANTS TypeOK LastSetIsUsed
PROPERTIES PersistenceHasOneOwner
