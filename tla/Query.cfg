SPECIFICATION FairSpec
CONSTANTS
  MaxEnd = 3
  MaxU64 = 7
  NoRange = NoRange
  c1 = c1
  Client = {c1}
  Request <- MCRequest
  Others <- MCOthers
  Allowance = 1
  Chunk = 2
  SafeLag = 1
  AttachBlocks = 0
  StartLatest = 2
CHECK_DEADLOCK FALSE
INVARIANTS
  TypeOK
  ResumeLosesNothing
  BudgetHolds
PROPERTIES
  DurableAnswerExact
  AnchorVouches
  PollsServe
