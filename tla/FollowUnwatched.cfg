CONSTANTS
  a = a
  b = b
  x = x
  y = y
  LogSel = {a}
  BlockSel = {}
  Kind = {x}
  Matches <- One
  Logged <- Alternating
  MaxHeight = 4
  MaxForks = 1
  Depth = 0
  Shrinking = FALSE
  SafeLag = 2
  FinalizedLag = 3
  Cap = 4
  HeaderCap = 4
  Window = 4
  l1 = l1
  Leader = {l1}
  none = none
  NoLeader = none
  Expiring = TRUE
  Faults = FALSE
  Filling = {}
  Asked = {}
SPECIFICATION Spec
INVARIANTS DurableCanonical
