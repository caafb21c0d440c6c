SPECIFICATION Spec
CONSTANTS
  Sections <- MCSections
  Names <- MCNames
  Buckets = 2
  hash <- MCHash
  Setups <- MCSetups
  LineSize = 5
  WTexts <- MCWTexts
  MaxMessages = 3
  MaxRotations = 2
INVARIANTS OptionsAsGiven EveryMessageHeard LogComplete SyslogComplete
PROPERTY RotationFollowed
CHECK_DEADLOCK FALSE
