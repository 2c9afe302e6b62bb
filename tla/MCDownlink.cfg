SPECIFICATION Spec
CONSTANTS
  MaxPackets = 4
  MaxTime = 2
INVARIANTS
  TypeOK
  ArrivalOrder
  StaleViewExplained
PROPERTIES
  AllReceived
