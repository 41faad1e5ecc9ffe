SPECIFICATION FairLogSpec
CONSTANTS
  s1 = s1
  p1 = p1
  p2 = p2
  Members <- MCMembers
  TTL = 1
  MaxEvents <- MCMaxEvents
  MaxServerEnds = 1
  MaxTime = 2
INVARIANTS
  EndsSeparated
  OverdueIsOpen
PROPERTIES
  EngagementSpec
  StartsClosed
CHECK_DEADLOCK FALSE
