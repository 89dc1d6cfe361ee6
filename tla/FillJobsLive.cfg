SPECIFICATION FairSpec
CONSTANTS
  a = a
  b = b
  t = t
  w1 = w1
  w2 = w2
  NoTopic = NoTopic
  NoWorker = NoWorker
  Address <- MCAddress
  Topic <- MCTopic
  Positions <- MCPositions
  Worker <- MCWorker
  SelectorId <- SingleIds
  SelectorTable <- SingleTable
  Row <- MCRow
  Chunk <- TwoBlocks
  MaxJobs = 2
  MaxAddresses = 2
  Purpose <- BothPurposes
  InternalAttempts = 1
  DbErrors = TRUE
  Stoppable <- OneWorker
CHECK_DEADLOCK FALSE
INVARIANTS
  OneActiveJob
PROPERTIES
  EveryJobEnds
