CONSTANTS
  N = 2
  Window = 2
  CanBreak = FALSE
SPECIFICATION Spec
CHECK_DEADLOCK FALSE
INVARIANT InOrderOfLocations
