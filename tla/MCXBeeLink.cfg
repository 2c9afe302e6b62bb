SPECIFICATION Spec
CONSTANTS
  MaxSent = 3
INVARIANTS
  OnlyWholeTexts
  RepeatsExplained
PROPERTIES
  ImplementsLink
  IntactDelivered
