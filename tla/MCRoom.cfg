SPECIFICATION RoomSpec
CONSTANTS
  p1 = p1
  p2 = p2
  c1 = c1
  c2 = c2
  c3 = c3
  c4 = c4
  a = a
  b = b
  d = d
  Pids = {p1, p2}
  Points = {a, b, d}
  Sids = {s1}
  Socks = {c1, c2, c3}
  NoPid = NoPid
  Rooms <- MCRooms
  Moves <- MCMoves
  Skews <- MCSkews
  SocketsOf <- MCSocketsOf
  PARTICIPANT_TTL_MS = 0
  PATCH_SETTLE_WINDOW_MS = 1
  CURSOR_REMOVE_MS = 1
  MaxSeq = 2
  MaxTick = 2
  Viewer = p1
  MovesOf <- MCMovesOf
  LastSeqOf <- MCLastSeqOf
  MaxWire = 2
  MaxTime = 1
INVARIANTS
  RoomTypeOK
  ViewMatchesPresence
  PeersVisible
  PatchesInFlightAreNews
VIEW MCView
SYMMETRY MCSymmetry
CHECK_DEADLOCK FALSE
