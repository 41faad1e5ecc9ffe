SPECIFICATION FairSpec
CONSTANT
  MaxSeq = 5
INVARIANTS
  TransportTypeOK
  QueueIsUnsent
  ReconnectArmed
PROPERTIES
  QuietAfterDisconnect
  KeepsTrying
CHECK_DEADLOCK FALSE
