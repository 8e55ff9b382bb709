SPECIFICATION FairSpec

CONSTANTS
  Agent = {a1}
  Finite = {}
  Silent = {a1}
  Unbuildable = {}
  Unreachable = {}
  Budget = 0
  MaxFailures = 0
  None = None

PROPERTY
  ShutdownCompletes

CHECK_DEADLOCK FALSE
