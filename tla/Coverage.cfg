SPECIFICATION Spec
CONSTANTS
  MaxEnd = 3
  MaxU64 = 7
  NoRange = NoRange
  Chunk = {1, 2, 3, 7}
INVARIANTS SpansCanonical CoverageWithinRead PlansReachGaps PrefixIsLongest SegmentsPartition
PROPERTY TimelineSpec
CHECK_DEADLOCK FALSE
