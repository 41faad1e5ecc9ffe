SPECIFICATION FairSpec
CONSTANTS
  Self = Self
  Peers = {p, q}
  NoPeer = NoPeer
  CURSOR_STALE_MS = 1
  CURSOR_REMOVE_MS = 2
INVARIANTS
  ViewTypeOK
  NoGhostCursor
  FollowYieldsToUser
PROPERTIES
  SilentVanish
CHECK_DEADLOCK FALSE
