SPECIFICATION FairSpec

CONSTANTS
  Agent = {a1, a2}
  Finite = {a1}
  Silent = {a2}
  Unbuildable = {a2}
  Unreachable = {a1}
  Budget = 1
  MaxFailures = 2
  None = None

INVARIANTS
  ShutdownCalledOnce
  HeartbeatOwned
  AbortReachesHealthy

PROPERTIES
  BeatsInOrder
  RaiseEndsProcess
  OnlyIdleOutlives

CHECK_DEADLOCK FALSE
