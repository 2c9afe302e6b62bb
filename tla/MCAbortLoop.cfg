SPECIFICATION Spec
CONSTANTS
  Tasks <- MCTasks
  Controls <- MCControls
  Locations <- MCLocations
  ValveList <- MCValveList
  NormallyClosed <- MCNormallyClosed
  GroundLocations <- MCGroundLocations
  SensorList <- MCSensorList
  LedValves <- MCLedValves
  SensorKind <- MCSensorKind
  SensorPins <- MCSensorPins
  Slope <- MCSlope
  Bias <- MCBias
  RoundsDown = {490}
  Raw <- MCRaw
  Values <- MCValues
  Garbage <- MCGarbage
  SafeLower <- MCSafeLower
  WarnUpper <- MCWarnUpper
  SafeUpper <- MCSafeUpper
  InitEstimate = 600
  Arrivals <- MCArrivals
  AutosequenceDelay = 1
  RequestInterval = 2
  SendInterval = 1
  SensorInterval = 1
  ValveInterval = 1
  BlinkInterval = 0
  MaxTime = 2
INVARIANTS
  AbortFollowed
  FlagsDrained
  CriticalAborts
