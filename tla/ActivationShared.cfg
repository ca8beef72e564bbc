\* Two goroutines that share one PerfEvent without any rule, every fault of the
\* system, and fairness of the calls in progress.
CONSTANTS
  c1 = c1
  c2 = c2
  e1 = e1
  e2 = e2
  Callers <- MCCallers
  PerfEvents = {e1}
  Free = Free
  Orphan = Orphan
  MaxFds = 2
  MaxEvents = 2
  OnExec = {FALSE}
  Faults = {"open", "ioctl"}
  Exclusive = FALSE
SPECIFICATION FairSpec
INVARIANTS
  OwnDescriptor
PROPERTIES
  CallsReturn
