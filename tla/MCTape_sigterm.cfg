SPECIFICATION Spec

CONSTANTS
  BatchSize = 2
  ChannelSize = 2
  InboxSize = 1
  MaxMessages = 2

INVARIANT
  SigtermDrains

CHECK_DEADLOCK FALSE
