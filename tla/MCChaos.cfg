SPECIFICATION FairSpec
CONSTANTS
  r1 = r1
  p = p
  q = q
  Recipients = {r1}
  Subjects = {p, q}
  MAX_REORDER_WINDOW = 2
  Requests <- MCRequests
  MaxMessages = 3
  MaxRoster = 1
  MaxMoves = 2
  MaxUpsets = 2
INVARIANTS
  ChaosTypeOK
  EverySendAccounted
  BufferBounded
  TrackerWithinPage
PROPERTIES
  PatchesNeverGoBack
  HeldIsReleased
CHECK_DEADLOCK FALSE
