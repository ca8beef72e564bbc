----------------------------- MODULE PerfKernel -----------------------------
(***************************************************************************)
(* The kernel side of iaevents, as unixes.go uses it: the process's file   *)
(* descriptor table and the perf counters behind the descriptors.  This is *)
(* not code of the repository; it models the four system calls of the      *)
(* interface unixHelper, perf_event_open, close, ioctl and (by the table)  *)
(* what a read would reach.                                                *)
(*                                                                         *)
(* A counter is named by the ActiveEvent whose activation opened it, a     *)
(* pair <<caller, index>>: table[f] = <<c, i>> says that descriptor f is   *)
(* the counter of the i-th event of caller c's activation.  That name is   *)
(* what a recycled descriptor number can get wrong.                        *)
(***************************************************************************)
EXTENDS Integers

CONSTANTS
  Callers,    \* goroutines that use the library
  MaxFds,     \* RLIMIT_NOFILE: how many descriptors the process may have open
  MaxEvents,  \* bound on the events or placements of one activation
  Free,       \* table entry of a descriptor number that is not in use
  Orphan      \* table entry of an open counter that no ActiveEvent names

Fds     == 0 .. (MaxFds - 1)
NoFd    == -1                         \* a closed ActiveEvent's FileDescriptor
Slots   == 1 .. MaxEvents
Handles == Callers \X Slots           \* the ActiveEvents

ASSUME KernelAssumption ==
  /\ MaxFds \in Nat
  /\ MaxEvents \in Nat \ {0}
  /\ Free # Orphan
  /\ Free \notin Handles
  /\ Orphan \notin Handles

VARIABLES
  table,      \* descriptor -> Free, Orphan or the ActiveEvent it was opened for
  enabled,    \* descriptors whose counter is enabled
  group       \* descriptor -> descriptor of its perf group's leader

kernelVars == <<table, enabled, group>>

KernelTypeOK ==
  /\ table \in [Fds -> Handles \cup {Free, Orphan}]
  /\ enabled \in SUBSET Fds
  /\ group \in [Fds -> Fds]

KernelInit ==
  /\ table = [f \in Fds |-> Free]
  /\ enabled = {}
  /\ group = [f \in Fds |-> f]

OpenFds == {f \in Fds : table[f] # Free}

\* open(2) and its kin return the lowest descriptor number that is free.
LowestFree(f) ==
  /\ f \in Fds \ OpenFds
  /\ \A g \in Fds \ OpenFds : f <= g

\* group_fd must be an open counter that is itself a leader, or -1.
CanLead(g) == g \in OpenFds /\ group[g] = g

MayOpen(groupFd) == OpenFds # Fds /\ (groupFd = NoFd \/ CanLead(groupFd))

\* perf_event_open: the counter counts from here unless attr.disabled is set.
PerfEventOpen(f, owner, disabled, groupFd) ==
  /\ LowestFree(f)
  /\ MayOpen(groupFd)
  /\ table' = [table EXCEPT ![f] = owner]
  /\ enabled' = IF disabled THEN enabled ELSE enabled \cup {f}
  /\ group' = [group EXCEPT ![f] = IF groupFd = NoFd THEN f ELSE groupFd]

\* close: the members of a closed leader become groups of their own.
Close(f) ==
  /\ f \in OpenFds
  /\ table' = [table EXCEPT ![f] = Free]
  /\ enabled' = enabled \ {f}
  /\ group' = [g \in Fds |-> IF group[g] = f THEN g ELSE group[g]]

\* EBADF, of close and of ioctl.
BadFd(f) == f \notin OpenFds

\* ioctl PERF_EVENT_IOC_ENABLE with argument 0: this counter, not its group.
IoctlEnable(f) ==
  /\ f \in OpenFds
  /\ enabled' = enabled \cup {f}
  /\ UNCHANGED <<table, group>>

\* The last reference to caller c's ActiveEvents is gone: a counter that is
\* still open can never be named again.
Forget(c) ==
  /\ table' = [f \in Fds |-> IF table[f] \in {c} \X Slots THEN Orphan ELSE table[f]]
  /\ UNCHANGED <<enabled, group>>
=============================================================================
