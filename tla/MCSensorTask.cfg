SPECIFICATION Spec
CONSTANTS
  SensorList <- MCSensorList
  Kind <- MCKind
  Slope <- MCSlope
  Bias <- MCBias
  Raw <- MCRaw
  Values <- MCValues
  Pins <- MCPins
INVARIANTS
  TypeOK
  OwnPinShown
  SharedPinSilences
  ForceNeverShown
