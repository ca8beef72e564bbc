\* One request, on a machine that may have a gap in its cpus.
CONSTANTS
  CpuNumbers = {0, 1, 2, 3}
  PresentSets = {{0, 1}, {0, 1, 2}, {0, 1, 3}}
  SocketOf <- MCSocketOf
  LexRank <- MCLexRank
  MaxHotplugs = 2
  ConfigBits = {0, 1}
  Requests <- MCRequests
SPECIFICATION Spec
INVARIANTS
  TypeOK
  OpenedWhereAsked
  KernelAttr
  SteadyOutcome
PROPERTIES
  OpenedAwake
CHECK_DEADLOCK FALSE
