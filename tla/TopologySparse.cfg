\* A machine with a gap in its cpus, such as "0-1,3".
CONSTANTS
  CpuNumbers = {0, 1, 2, 3}
  PresentSets = {{0, 1, 3}}
  SocketOf <- MCSocketOf
  LexRank <- MCLexRank
  MaxHotplugs = 1
  ConfigBits = {0, 1}
  Requests <- MCRequests
SPECIFICATION Spec
INVARIANTS
  AllCPUsPresent
CHECK_DEADLOCK FALSE
