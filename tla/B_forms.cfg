CONSTANTS
  Mandatory <- OnePart
  MaxPersistences = 1
  MaxBuilds = 1
SPECIFICATION Spec
INVARIANTS ErrorIsTrue
