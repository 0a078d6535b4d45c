CONSTANTS
  d1 = d1
  d2 = d2
  Devices <- TwoDevices
  NoDevice = NoDevice
  Actuators <- MCActuators
  ConfigurationItems <- MCItems
  Status = "status"
  Configuration = "configuration"
  Walk <- MCWalk
  AssetWalk <- MCAssetWalk
  PlatformMessages <- Messages
  Unsendable <- MCUnsendable
  Answers <- MCAnswers
  Scenarios <- MCScenarios
SPECIFICATION Spec
INVARIANTS TypeOK RequestsAreAnswered PlatformKnowsState WholeConfigurations
PROPERTIES CarriedOutInOrder ReportsInOrder
CHECK_DEADLOCK FALSE
