SPECIFICATION Spec
CONSTANTS
  Locations <- MCLocations
  ValveList <- MCValveList
  NormallyClosed <- MCNormallyClosed
  TypeCodes <- MCTypeCodes
  PriorityCodes <- MCPriorityCodes
INVARIANTS
  TypeOK
  OpenReportTrusted
  ClosedReportExplained
PROPERTY
  RequestNotLost
CHECK_DEADLOCK FALSE
