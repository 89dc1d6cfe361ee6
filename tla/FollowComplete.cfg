CONSTANTS
  a = a
  b = b
  x = x
  y = y
  LogSel = {a, b}
  BlockSel = {}
  Kind = {x, y}
  Matches <- Overlapping
  Logged <- Dense
  MaxHeight = 4
  MaxForks = 1
  Depth = 0
  Shrinking = FALSE
  SafeLag = 3
  FinalizedLag = 3
  Cap = 4
  HeaderCap = 4
  Window = 1
  l1 = l1
  Leader = {l1}
  none = none
  NoLeader = none
  Expiring = TRUE
  Faults = TRUE
  Filling = {}
  Asked <- HotQuery
SPECIFICATION Spec
INVARIANTS TypeOK CoveredExact HeadVouches
PROPERTIES DurableKept
