SPECIFICATION FetchSpec
CONSTANTS
  a = a
  b = b
  c = c
  t = t
  u = u
  Address <- MCAddress
  Topic <- MCTopic
  NoTopic = NoTopic
  Positions <- MCPositions
  Pool <- MCPool
  MaxMembers = 3
  MaxAddresses = 2
  Gaps <- MCGaps
  Logs <- MCLogs
  MinRange = 1
  MaxRange = 4
  Streak = 2
INVARIANTS GroupsFit GroupsMissNothing FetchedComplete
PROPERTY FetchEnds
CHECK_DEADLOCK FALSE
