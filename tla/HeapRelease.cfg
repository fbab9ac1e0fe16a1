CONSTANTS
  NumFrames = 8
  NumPages = 8
  BootReserved <- MCBootReserved
  BootUsed <- MCBootUsed
  Gaps <- MCGaps
  SpanSize = 2
  Sizes = {1, 4}
  MaxRegions = 2
SPECIFICATION Spec
PROPERTY EntireRangeReleased
CHECK_DEADLOCK FALSE
