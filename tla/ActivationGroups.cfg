\* One goroutine and groups of up to three, so that a member is between the
\* leader and the last one, with enable-on-exec and every fault.
CONSTANTS
  c1 = c1
  c2 = c2
  e1 = e1
  e2 = e2
  Callers = {c1}
  PerfEvents <- MCPerfEvents
  Free = Free
  Orphan = Orphan
  MaxFds = 4
  MaxEvents = 3
  OnExec = {FALSE, TRUE}
  Faults = {"config", "open", "ioctl"}
  Exclusive = TRUE
SPECIFICATION Spec
INVARIANTS
  LeaderWaits
  ResultCounts
  GroupIsUnit
  AttrRestored
