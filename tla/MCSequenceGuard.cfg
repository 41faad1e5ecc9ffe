SPECIFICATION GuardSpec
CONSTANTS
  Inputs <- MCInputs
  NonFinite = NonFinite
  Undefined = Undefined
  MAX_TRACKED_GAP_SPAN = 3
INVARIANTS
  GuardTypeOK
  GapsExact
PROPERTIES
  AcceptsOnlyNews
