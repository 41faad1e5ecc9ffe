SPECIFICATION Spec
CONSTANTS
  p1 = p1
  p2 = p2
  p3 = p3
  s1 = s1
  s2 = s2
  a = a
  b = b
  Pids = {p1, p2, p3}
  Points = {a, b}
  Sids = {s1, s2}
  Socks = {c1, c2, c3}
  NoPid = NoPid
  Rooms <- MCRooms
  Moves <- MCMoves
  Skews <- MCSkews
  PARTICIPANT_TTL_MS = 0
  PATCH_SETTLE_WINDOW_MS = 1
  MaxSeq = 1
  MaxTick = 2
  MaxTime = 1
INVARIANTS
  TypeOK
  DirtyFlagsFlushable
  HubIndexed
  RosterMatchesHub
  NoOrphanParticipant
  SettleIsCurrent
PROPERTIES
  SentToOwnRoom
  LastWriterWins
  LeaveReachesPeers
VIEW MCView
SYMMETRY MCSymmetry
CHECK_DEADLOCK FALSE
