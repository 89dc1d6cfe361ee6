CONSTANTS
  a = a
  b = b
  x = x
  y = y
  LogSel = {a}
  BlockSel = {"blocks"}
  Kind = {x}
  Matches <- One
  Logged <- Alternating
  MaxHeight = 4
  MaxForks = 1
  Depth = 0
  Shrinking = TRUE
  SafeLag = 2
  FinalizedLag = 3
  Cap = 4
  HeaderCap = 4
  Window = 1
  l1 = l1
  Leader = {l1}
  none = none
  NoLeader = none
  Expiring = FALSE
  Faults = FALSE
  Filling <- HeaderFill
  Asked = {}
SPECIFICATION FairSpec
INVARIANTS DurableCanonical VerifiedHeadCommits OneHashPerHeight
PROPERTIES CatchesUp
