\* Two goroutines, two PerfEvents, activations of up to two counters and one
\* descriptor less than both together may ask for.
CONSTANTS
  c1 = c1
  c2 = c2
  e1 = e1
  e2 = e2
  Callers <- MCCallers
  PerfEvents <- MCPerfEvents
  Free = Free
  Orphan = Orphan
  MaxFds = 3
  MaxEvents = 2
  OnExec = {FALSE}
  Faults = {"config", "open"}
  Exclusive = TRUE
SYMMETRY MCSymmetry
SPECIFICATION Spec
INVARIANTS
  TypeOK
  OwnDescriptor
  Accounted
  LeaderWaits
  ResultCounts
  GroupIsUnit
  AttrRestored
  IInv
PROPERTIES
  Isolation
  SessionsSpec
