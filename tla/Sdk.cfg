CONSTANTS
  MaxEnd = 3
  MaxU64 = 9
  NoRange = NoRange
  Program <- MCProgram
  MaxForks = 1
  ChunkBlocks = 2
SPECIFICATION FairSpec
INVARIANTS ReportedOnce CheckpointHolds
PROPERTIES TailRepaired ClientsCatchUp
CHECK_DEADLOCK FALSE
