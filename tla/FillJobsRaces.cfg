SPECIFICATION Spec
CONSTANTS
  a = a
  b = b
  t = t
  w1 = w1
  w2 = w2
  NoTopic = NoTopic
  NoWorker = NoWorker
  Address <- MCAddress
  Topic <- MCTopic
  Positions <- MCPositions
  Worker <- MCWorker
  SelectorId <- PairIds
  SelectorTable <- PairTable
  Row <- MCRow
  Chunk <- OneBlock
  MaxJobs = 2
  MaxAddresses = 2
  Purpose <- QueryOnly
  InternalAttempts = 0
  DbErrors = FALSE
  Stoppable <- MCWorker
SYMMETRY WorkerSymmetry
CHECK_DEADLOCK FALSE
INVARIANTS
  TypeOK
  NoOrphanedJob
  ServedComplete
  DoneMeansCovered
PROPERTIES
  TerminalIsFinal
