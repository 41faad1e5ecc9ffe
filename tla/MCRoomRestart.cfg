SPECIFICATION RoomRestartSpec
CONSTANTS
  p1 = p1
  p2 = p2
  c1 = c1
  c2 = c2
  c3 = c3
  c4 = c4
  a = a
  b = b
  d = d
  Pids = {p1, p2}
  Points = {a, b}
  Sids = {s1}
  Socks = {c1, c2, c3, c4}
  NoPid = NoPid
  Rooms <- MCRooms
  Moves <- RestartMoves
  Skews <- MCSkews
  SocketsOf <- RestartSocketsOf
  PARTICIPANT_TTL_MS = 0
  PATCH_SETTLE_WINDOW_MS = 1
  CURSOR_REMOVE_MS = 1
  MaxSeq = 3
  MaxTick = 1
  Viewer = p1
  MovesOf <- MCMovesOf
  LastSeqOf <- RestartLastSeqOf
  MaxWire = 2
  MaxTime = 0
INVARIANTS
  ViewMatchesPresence
VIEW MCView
SYMMETRY MCSymmetry
CHECK_DEADLOCK FALSE
