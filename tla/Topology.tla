------------------------------ MODULE Topology ------------------------------
(***************************************************************************)
(* topology.go: the cpus that sysfs shows.  The list of present cpus is    *)
(* fixed when the machine boots; cpus other than the first, whose online   *)
(* file does not exist, go offline and come back at any time.              *)
(***************************************************************************)
EXTENDS Integers, FiniteSetsExt

CONSTANTS
  CpuNumbers,   \* the numbers a cpu may have
  PresentSets,  \* the sets of cpus that a machine may have
  SocketOf,     \* the physical_package_id of each cpu
  LexRank,      \* the rank of each cpu's path as glob sorts them: cpu10 before cpu2
  MaxHotplugs   \* bound on the times cpus go offline or online

ASSUME TopologyAssumption ==
  /\ CpuNumbers \subseteq Nat
  /\ PresentSets \subseteq SUBSET CpuNumbers
  /\ \A S \in PresentSets : 0 \in S /\ IsFiniteSet(S)
  /\ DOMAIN SocketOf = CpuNumbers
  /\ LexRank \in [CpuNumbers -> Nat]
  /\ MaxHotplugs \in Nat

VARIABLES
  present,   \* the cpus of the machine
  online,    \* those of them that are online
  hotplugs   \* how often a cpu has gone or come

machineVars == <<present, online, hotplugs>>

MachineTypeOK ==
  /\ present \in PresentSets
  /\ online \in SUBSET present /\ 0 \in online
  /\ hotplugs \in 0 .. MaxHotplugs

MachineInit ==
  /\ present \in PresentSets
  /\ online \in {S \in SUBSET present : 0 \in S}
  /\ hotplugs = 0

\* Somebody writes to a cpu's online file (external).
Hotplug ==
  /\ hotplugs < MaxHotplugs
  /\ hotplugs' = hotplugs + 1
  /\ \E cpu \in present \ {0} :
       online' = IF cpu \in online THEN online \ {cpu} ELSE online \cup {cpu}
  /\ UNCHANGED present
-----------------------------------------------------------------------------
\* /sys/devices/system/cpu/present, such as "0-1,3" (external).
PresentList ==
  {r \in [first : present, last : present] :
     /\ r.first .. r.last \subseteq present /\ r.first <= r.last
     /\ r.first - 1 \notin present /\ r.last + 1 \notin present}

ParseCPURange(ranges) == MapThenSumSet(LAMBDA r : r.last - r.first + 1, ranges)

CpusNum == ParseCPURange(PresentList)

AllCPUs == 0 .. (CpusNum - 1)

\* (mutant) A cpu without an online file counts as offline.
CpuOnlineStrict(cpu) == cpu \in online \ {0}

\* cpuOnline: a cpu without an online file, such as the first or one that the
\* machine does not have, counts as online.
CpuOnline(cpu) == cpu \in present \ {0} => cpu \in online

\* glob of cpu*/topology/physical_package_id: cpus that are offline have none.
GlobPackageIds == online

\* The path of cpu is the first of those that glob returned and are left.
IsFirst(cpu, cpus) == cpu \in cpus /\ \A other \in cpus : LexRank[cpu] <= LexRank[other]

\* (mutant) The first cpu that glob finds stays.
AssignFirst(map, cpu) ==
  [s \in DOMAIN map \cup {SocketOf[cpu]} |->
     IF s \in DOMAIN map THEN map[s] ELSE cpu]

\* (mutant) Cpu and socket are swapped.
AssignSwapped(map, cpu) ==
  [s \in DOMAIN map \cup {cpu} |-> IF s = cpu THEN SocketOf[cpu] ELSE map[s]]

\* One round of assignCPUToSocket's loop.
Assign(map, cpu) ==
  [s \in DOMAIN map \cup {SocketOf[cpu]} |->
     IF s = SocketOf[cpu] /\ (s \in DOMAIN map => cpu < map[s]) THEN cpu ELSE map[s]]
-----------------------------------------------------------------------------
\* What topology.go:281 says: "AllCPUs returns slice of all available cpus."
AllCPUsPresent == AllCPUs = present
=============================================================================
