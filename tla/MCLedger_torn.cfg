SPECIFICATION Spec

CONSTANTS
  Writer = {w1}
  Payload = {p1}
  Unsigned <- MCUnsigned
  Genesis <- MCGenesis
  Key = key
  ZeroHash = ZeroHash
  None = None
  Hash <- MCHash
  Sign <- MCSign
  MaxSequence = 1
  PowerLoss = FALSE

INVARIANT
  OpenSucceeds
