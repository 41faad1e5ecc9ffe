SPECIFICATION FairSpec
CONSTANTS
  t1 = t1
  t2 = t2
  MaxTasks = 2
  NoEvent = NoEvent
  Tabs = {t1, t2}
  OUTBOX_MAX_ENTRIES = 1
  MaxEvents <- MCMaxEvents
  MaxFlushes <- MCMaxFlushes
  MaxSockets <- MCMaxSockets
INVARIANTS
  OutboxTypeOK
  StoreBounded
PROPERTIES
  EntrustingMailSpec
  ReplayReachesAll
CHECK_DEADLOCK FALSE
