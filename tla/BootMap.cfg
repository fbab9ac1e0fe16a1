CONSTANTS
  NumFrames = 5
  NumPages = 6
  MaxEntries = 3
SPECIFICATION Spec
INVARIANTS
  EstablishesMapping
PROPERTY Completes
CHECK_DEADLOCK FALSE
