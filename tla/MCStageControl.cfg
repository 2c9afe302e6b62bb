SPECIFICATION Spec
CONSTANTS
  Locations <- MCLocations
  Valves <- MCValves
  GroundLocations <- MCGroundLocations
  GroundAsks <- MCGroundAsks
  HasPT2 = TRUE
  Pressures <- MCPressures
  RoundsDown <- MCRoundsDown
  AutosequenceDelay = 2
  RequestInterval = 4
  SendInterval = 1
  MaxTime = 8
INVARIANTS
  TypeOK
  NoPostburn
  IgnitionNotEarly
  
PROPERTIES
  PressurizedBeforeAutosequence
  ImplementsSequence
