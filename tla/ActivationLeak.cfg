\* One goroutine, the ioctls on the leader may fail.
CONSTANTS
  c1 = c1
  c2 = c2
  e1 = e1
  e2 = e2
  Callers = {c1}
  PerfEvents <- MCPerfEvents
  Free = Free
  Orphan = Orphan
  MaxFds = 4
  MaxEvents = 2
  OnExec = {FALSE}
  Faults = {"ioctl"}
  Exclusive = TRUE
SPECIFICATION Spec
INVARIANTS
  Accounted
