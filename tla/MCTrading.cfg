SPECIFICATION FairSpec

CONSTANTS
  ShortWindow = 1
  LongWindow = 2
  Fixtures <- MCFixtures
  InboxSize = 1
  MaxFaults = 1
  Stoppable = {"core", "logic"}
  Nothing = Nothing
  MaxSignals = 2

INVARIANTS
  SignalsAreCrossovers
  Traceable

PROPERTY
  SignalsAreFilled

CHECK_DEADLOCK FALSE
