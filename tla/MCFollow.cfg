SPECIFICATION Spec
CONSTANTS
  Self = Self
  Peers = {p}
  NoPeer = NoPeer
  CURSOR_STALE_MS = 1
  CURSOR_REMOVE_MS = 2
PROPERTY
  OnlyUserReleases
CHECK_DEADLOCK FALSE
