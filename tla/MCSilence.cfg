SPECIFICATION SilenceSpec
CONSTANTS
  Pids = {p1}
  Points = {"a"}
  Sids = {s1}
  Socks = {c1}
  NoPid = NoPid
  Rooms <- MCRooms
  Moves <- MCMoves
  Skews <- MCSkews
  PARTICIPANT_TTL_MS = 1
  PATCH_SETTLE_WINDOW_MS = 1
  MaxSeq = 2
  MaxTick = 1
  MaxTime = 2
PROPERTIES
  OnlySilentReaped
CHECK_DEADLOCK FALSE
