CONSTANTS
  ProcessorIds <- MCProcessorIds
  BspId = 0
SPECIFICATION Spec
INVARIANTS
  TypeOK
  NoAssertionFires
  TrampolineIntact
  IndicesDistinct
PROPERTY AllCoresOnline
CHECK_DEADLOCK FALSE
