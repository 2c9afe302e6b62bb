SPECIFICATION Spec
CONSTANTS
  Tasks <- MCTasks
  Controls <- MCControls
  Locations <- MCLocations
  ValveList <- MCValveList
  NormallyClosed <- MCNormallyClosed
  GroundLocations <- MCGroundLocations
  SensorList <- MCSensorList
  LedValves <- MCLedValves
  SensorKind <- MCNothing
  SensorPins <- MCNothing
  Slope <- MCNothing
  Bias <- MCNothing
  RoundsDown = {490}
  Raw <- MCValues
  Values <- MCValues
  Garbage <- MCGarbage
  SafeLower <- MCBoundary
  WarnUpper <- MCBoundary
  SafeUpper <- MCBoundary
  InitEstimate = 0
  Arrivals <- MCArrivals
  AutosequenceDelay = 1
  RequestInterval = 2
  SendInterval = 1
  SensorInterval = 1
  ValveInterval = 9
  BlinkInterval = 0
  MaxTime = 5
INVARIANTS
  TypeOK
  IgniterHeld
  SignalsMeanStates
  NoCrashIfWellFormed
PROPERTIES
  ProgressionAnswered
