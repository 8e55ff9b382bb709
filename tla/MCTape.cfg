SPECIFICATION FairSpec

CONSTANTS
  BatchSize = 2
  ChannelSize = 2
  InboxSize = 1
  MaxMessages = 5

INVARIANTS
  Accounted
  Drained

PROPERTIES
  ImplementsTape
  RowsLeave
  InterruptStops

CHECK_DEADLOCK FALSE
