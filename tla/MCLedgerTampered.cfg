SPECIFICATION TamperedFairSpec

CONSTANTS
  Writer = {w1, w2}
  Payload = {p1, p2}
  Unsigned <- MCUnsigned
  Genesis <- MCGenesis
  Key = key
  OtherKey = otherKey
  ZeroHash = ZeroHash
  None = None
  Hash <- MCHash
  Sign <- MCSign
  MaxSequence = 3
  PowerLoss = TRUE
  Length = 3
  MaxEdits = 2

INVARIANTS
  ChainVerifies
  HeadMetadataMatches
  FailsOnlyOnGenesis
  ObservedReplays
  AckedSurvive
  AcceptedIsHistory
  BreakLocated

PROPERTIES
  AppendOnly
  ImplementsLog
  AppendAnswered

CHECK_DEADLOCK FALSE
