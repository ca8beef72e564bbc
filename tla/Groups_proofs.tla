--------------------------- MODULE Groups_proofs ----------------------------
(***************************************************************************)
(* Proofs about event groups, for any number of goroutines, PerfEvents,    *)
(* descriptors and counters and any faults: the counters of a group are    *)
(* scheduled as a unit; and, as long as clients keep to Exclusive, leaders *)
(* wait for their members, every counter of a result counts and Attr is    *)
(* what it was.                                                            *)
(***************************************************************************)
EXTENDS Activation_proofs

USE KernelAssumption, ActivationAssumption

-----------------------------------------------------------------------------
\* The counters of a group belong to its leader while that is open.
Grouped ==
  \A c \in Callers, i \in Slots :
    op[c] = "group" /\ InHand(c, 1) /\ InHand(c, i) /\ fd[c][1] # NoFd /\ fd[c][i] # NoFd
      => group[fd[c][i]] = fd[c][1]

\* Counters in hand are of different descriptors.
LEMMA InHandApart ==
  ASSUME IInv, NEW c \in Callers, NEW i \in Slots, InHand(c, i), fd[c][i] # NoFd,
         NEW d \in Callers, NEW j \in Slots, InHand(d, j), fd[d][j] = fd[c][i]
  PROVE  c = d /\ i = j
<1>1. table[fd[c][i]] = <<c, i>> /\ table[fd[d][j]] = <<d, j>>
  BY DEF IInv, OwnDescriptor
<1> QED
  BY <1>1

\* A step that leaves the kernel's groups and all descriptors alone, and gives
\* nobody more in hand.
LEMMA GroupedQuiet ==
  ASSUME IInv, Grouped, UNCHANGED <<group, fd, op>>,
         \A c \in Callers, i \in Slots : InHand(c, i)' => InHand(c, i)
  PROVE  Grouped'
<1>1. 1 \in Slots
  BY DEF Slots
<1> QED
  BY <1>1 DEF Grouped

\* Closing a member takes it out of its group; closing the leader ends it.
LEMMA GroupedClose ==
  ASSUME IInv, Grouped, NEW d \in Callers, NEW k \in Slots, InHand(d, k),
         DeactivateFile(fd[d][k]), UNCHANGED op,
         \A c \in Callers, i \in Slots :
           InHand(c, i)' => InHand(c, i) /\ fd'[c][i] \in {fd[c][i], NoFd},
         Close(fd[d][k]) => ~InHand(d, k)' \/ fd'[d][k] = NoFd
  PROVE  Grouped'
<1>1. SUFFICES ASSUME NEW c \in Callers, NEW i \in Slots, op[c] = "group",
                      InHand(c, 1)', InHand(c, i)', fd'[c][1] # NoFd, fd'[c][i] # NoFd
               PROVE  group'[fd'[c][i]] = fd'[c][1]
  BY DEF Grouped
<1>2. 1 \in Slots
  BY DEF Slots
<1>3. /\ InHand(c, 1) /\ fd'[c][1] = fd[c][1]
      /\ InHand(c, i) /\ fd'[c][i] = fd[c][i]
  BY <1>1, <1>2
<1>4. group[fd[c][i]] = fd[c][1] /\ fd[c][i] \in Fds
  BY <1>1, <1>3 DEF Grouped, IInv, TypeOK
<1>5. CASE Close(fd[d][k])
  <2>1. fd[c][1] # fd[d][k]
    BY <1>1, <1>2, <1>3, <1>5, InHandApart
  <2> QED
    BY <1>3, <1>4, <1>5, <2>1 DEF Close
<1>6. CASE ~Close(fd[d][k])
  BY <1>3, <1>4, <1>6 DEF DeactivateFile, kernelVars
<1> QED
  BY <1>5, <1>6

\* A new counter of a group is given the leader's descriptor; the leader's own
\* is new itself.
LEMMA GroupedOpen ==
  ASSUME IInv, Grouped, NEW d \in Callers, Open(d)
  PROVE  Grouped'
<1>1. opened[d] + 1 \in Slots /\ opened[d] \in Nat /\ 1 \in Slots
  BY CurrentEvent DEF Open, IInv, TypeOK, Slots
<1>2. PICK g \in Fds :
        /\ PerfEventOpen(g, <<d, opened[d] + 1>>, attr[d], GroupFd(d))
        /\ fd' = [fd EXCEPT ![d][opened[d] + 1] = g]
  BY DEF Open
<1>3. /\ g \notin OpenFds
      /\ group' = [group EXCEPT ![g] = IF GroupFd(d) = NoFd THEN g ELSE GroupFd(d)]
      /\ group \in [Fds -> Fds]
  BY <1>2 DEF PerfEventOpen, LowestFree, IInv, TypeOK, KernelTypeOK
<1>4. SUFFICES ASSUME NEW c \in Callers, NEW i \in Slots, op[c] = "group",
                      InHand(c, 1)', InHand(c, i)', fd'[c][1] # NoFd, fd'[c][i] # NoFd
               PROVE  group'[fd'[c][i]] = fd'[c][1]
  BY DEF Grouped, Open
<1>5. CASE c = d /\ i = opened[d] + 1
  <2>1. fd'[d][i] = g
    BY <1>1, <1>2, <1>5 DEF IInv, TypeOK
  <2>2. CASE opened[d] = 0
    BY <1>3, <1>5, <2>1, <2>2 DEF GroupFd
  <2>3. CASE opened[d] > 0
    <3>1. InHand(d, 1) /\ fd[d][1] # NoFd
      BY <1>1, <2>3 DEF Open, InHand, Starting, IInv, HoldsWhatItOpened
    <3>2. GroupFd(d) = fd[d][1] /\ fd'[d][1] = fd[d][1]
      BY <1>1, <1>2, <1>4, <1>5, <2>3 DEF GroupFd, IInv, TypeOK
    <3> QED
      BY <1>3, <1>5, <2>1, <3>1, <3>2
  <2> QED
    BY <1>1, <2>2, <2>3
<1>6. CASE ~(c = d /\ i = opened[d] + 1)
  <2>1. InHand(c, i) /\ fd'[c][i] = fd[c][i]
    BY <1>1, <1>2, <1>4, <1>6 DEF Open, InHand, IInv, TypeOK, Slots
  <2>2. InHand(c, 1) /\ fd'[c][1] = fd[c][1]
    BY <1>1, <1>2, <1>4, <1>6 DEF Open, InHand, IInv, TypeOK, Slots
  <2>3. fd[c][i] \in OpenFds /\ fd[c][i] \in Fds
    BY <1>4, <2>1, InHandOpen DEF OpenFds
  <2>4. group[fd[c][i]] = fd[c][1]
    BY <1>4, <2>1, <2>2 DEF Grouped
  <2> QED
    BY <1>3, <2>1, <2>2, <2>3, <2>4
<1> QED
  BY <1>5, <1>6

\* A call of an activator begins in one way.
LEMMA BeginOf ==
  ASSUME NEW c, Activate(c) \/ ActivateMulti(c) \/ ActivateGroup(c)
  PROVE  \E kind, list, first : Begin(c, kind, list, first)
<1>1. CASE Activate(c)
  BY <1>1 DEF Activate
<1>2. CASE ActivateMulti(c)
  BY <1>2 DEF ActivateMulti
<1>3. CASE ActivateGroup(c)
  BY <1>3 DEF ActivateGroup
<1> QED
  BY <1>1, <1>2, <1>3

\* Every step keeps the groups together.
LEMMA GroupedStep ==
  ASSUME IInv, Grouped, NEW d \in Callers, Step(d) \/ Call(d)
  PROVE  Grouped'
<1> USE DEF IInv, TypeOK
<1>1. CASE Open(d)
  BY <1>1, GroupedOpen
<1>2. CASE Undo(d)
  <2>1. PICK k \in Slots : k = next[d] /\ InHand(d, k)
    BY <1>2 DEF Undo, Slots, InHand
  <2>2. \A c \in Callers, i \in Slots :
          InHand(c, i)' => InHand(c, i) /\ fd'[c][i] \in {fd[c][i], NoFd}
    BY <1>2 DEF Undo, InHand, Slots
  <2>3. ~InHand(d, k)'
    BY <1>2, <2>1 DEF Undo, InHand, Slots
  <2> QED
    BY <1>2, <2>1, <2>2, <2>3, GroupedClose DEF Undo
<1>3. CASE CloseNext(d)
  <2>1. PICK k \in Slots : k = next[d] /\ InHand(d, k)
    BY <1>3 DEF CloseNext, Shape, Starting, Slots, InHand
  <2>2. \A c \in Callers, i \in Slots :
          InHand(c, i)' => InHand(c, i) /\ fd'[c][i] \in {fd[c][i], NoFd}
    BY <1>3 DEF CloseNext, InHand
  <2>3. Close(fd[d][k]) => fd'[d][k] = NoFd
    BY <1>3, <2>1 DEF CloseNext, Close, BadFd
  <2> QED
    BY <1>3, <2>1, <2>2, <2>3, GroupedClose DEF CloseNext
<1>4. ASSUME NEW k \in Slots, Deactivate(d, k)
      PROVE  Grouped'
  <2>1. InHand(d, k) /\ fd'[d][k] = NoFd
    BY <1>4 DEF Deactivate, InHand
  <2>2. \A c \in Callers, i \in Slots :
          InHand(c, i)' => InHand(c, i) /\ fd'[c][i] \in {fd[c][i], NoFd}
    BY <1>4 DEF Deactivate, InHand
  <2> QED
    BY <1>4, <2>1, <2>2, GroupedClose DEF Deactivate, DeactivateFile
<1>5. CASE Refuse(d)
  <2>1. \A i \in Slots : fd'[d][i] = NoFd
    BY <1>5 DEF Refuse
  <2>2. \A c \in Callers, i \in Slots : c # d => fd'[c] = fd[c] /\ (InHand(c, i)' => InHand(c, i))
    BY <1>5 DEF Refuse, InHand
  <2>3. op' = op /\ group' = group /\ 1 \in Slots
    BY <1>5 DEF Refuse, Forget, Slots
  <2> QED
    BY <2>1, <2>2, <2>3 DEF Grouped
<1>6. CASE Activate(d) \/ ActivateMulti(d) \/ ActivateGroup(d)
  <2>1. PICK kind, list, first : Begin(d, kind, list, first)
    BY <1>6, BeginOf
  <2>2. \A i \in Slots : fd'[d][i] = NoFd
    BY <2>1 DEF Begin, Released
  <2>3. \A c \in Callers, i \in Slots :
          c # d => op'[c] = op[c] /\ fd'[c] = fd[c] /\ (InHand(c, i)' => InHand(c, i))
    BY <2>1 DEF Begin, InHand
  <2>4. group' = group /\ 1 \in Slots
    BY <2>1 DEF Begin, kernelVars, Slots
  <2> QED
    BY <2>2, <2>3, <2>4 DEF Grouped
<1>7. CASE \/ SetDisable(d) \/ Prepare(d) \/ PrepareFails(d) \/ OpenFails(d) \/ Reset(d)
           \/ Enable(d) \/ IoctlFails(d) \/ Restore(d) \/ Return(d) \/ DeactivateAll(d)
           \/ AllClosed(d)
  <2>1. UNCHANGED <<group, fd, op>>
    BY <1>7 DEF SetDisable, Prepare, PrepareFails, OpenFails, Abandon, Reset, Enable, IoctlEnable,
                IoctlFails, Restore, Return, DeactivateAll, AllClosed, kernelVars
  <2>2. \A c \in Callers, i \in Slots : InHand(c, i)' => InHand(c, i)
    BY <1>7 DEF SetDisable, Prepare, PrepareFails, OpenFails, Abandon, Reset, Enable, IoctlFails,
                Restore, Return, DeactivateAll, AllClosed, InHand, Slots, Shape
  <2> QED
    BY <2>1, <2>2, GroupedQuiet
<1> QED
  BY <1>1, <1>2, <1>3, <1>4, <1>5, <1>6, <1>7 DEF Step, Call

\* The open counters of a group belong to its leader while the leader is open
\* (README.md, "Events grouping"; event.go:274-279).
THEOREM GroupsAreUnits == Spec => []GroupIsUnit
<1>1. Init => Grouped
  BY DEF Init, Grouped
<1>2. IInv /\ Grouped /\ [Next]_vars => Grouped'
  <2> SUFFICES ASSUME IInv, Grouped, [Next]_vars PROVE Grouped'
    OBVIOUS
  <2>1. CASE UNCHANGED vars
    BY <2>1, GroupedQuiet DEF vars, callVars, kernelVars, InHand
  <2> QED
    BY <2>1, GroupedStep DEF Next
<1>3. IInv /\ Held /\ Grouped => GroupIsUnit
  <2> SUFFICES ASSUME IInv, Held, Grouped, NEW c \in Callers, NEW i \in Slots,
                      op[c] = "group", held[c], i <= opened[c], fd[c][1] # NoFd, fd[c][i] # NoFd
               PROVE  group[fd[c][i]] = fd[c][1]
    BY DEF GroupIsUnit
  <2>1. pc[c] # "undo"
    BY DEF Held, Starting
  <2>2. InHand(c, 1) /\ InHand(c, i) /\ 1 \in Slots
    BY <2>1 DEF InHand, Slots, IInv, TypeOK
  <2> QED
    BY <2>2 DEF Grouped
<1> QED
  BY <1>1, <1>2, <1>3, Invariance, HeldInvariance, PTL DEF Spec
-----------------------------------------------------------------------------
\* Only open counters are enabled.
EnabledOpen == enabled \subseteq OpenFds

LEMMA EnabledOpenStep ==
  ASSUME IInv, EnabledOpen, NEW d \in Callers, Step(d) \/ Call(d)
  PROVE  EnabledOpen'
<1> USE DEF EnabledOpen, OpenFds
<1>a. table \in [Fds -> Handles \cup {Free, Orphan}] /\ Free # Orphan
  BY DEF IInv, TypeOK, KernelTypeOK
<1>b. ASSUME NEW f, DeactivateFile(f) PROVE EnabledOpen'
  BY <1>a, <1>b DEF DeactivateFile, Close, kernelVars
<1>1. CASE Open(d)
  <2>1. opened[d] + 1 \in Slots
    BY <1>1, CurrentEvent DEF Open
  <2>2. PICK f \in Fds : PerfEventOpen(f, <<d, opened[d] + 1>>, attr[d], GroupFd(d))
    BY <1>1 DEF Open
  <2> QED
    BY <1>a, <2>1, <2>2, Distinct DEF PerfEventOpen
<1>2. CASE Undo(d) \/ CloseNext(d)
  BY <1>b, <1>2 DEF Undo, CloseNext
<1>3. ASSUME NEW k \in Slots, Deactivate(d, k) PROVE EnabledOpen'
  BY <1>b, <1>3 DEF Deactivate, DeactivateFile
<1>4. CASE Refuse(d)
  BY <1>a, <1>4 DEF Refuse, Forget
<1>5. CASE Enable(d)
  BY <1>a, <1>5 DEF Enable, IoctlEnable
<1>6. CASE \/ SetDisable(d) \/ Prepare(d) \/ PrepareFails(d) \/ OpenFails(d)
           \/ Reset(d) \/ IoctlFails(d) \/ Restore(d) \/ Return(d) \/ AllClosed(d)
           \/ Activate(d) \/ ActivateMulti(d) \/ ActivateGroup(d) \/ DeactivateAll(d)
  BY <1>6 DEF SetDisable, Prepare, PrepareFails, OpenFails, Abandon, Reset, IoctlFails, Restore,
              Return, AllClosed, Activate, ActivateMulti, ActivateGroup, Begin, DeactivateAll,
              kernelVars
<1> QED
  BY <1>1, <1>2, <1>3, <1>4, <1>5, <1>6 DEF Step, Call

\* A step of one caller leaves the calls and the results of others alone.
Still(c) ==
  /\ pc'[c] = pc[c] /\ op'[c] = op[c] /\ events'[c] = events[c] /\ opened'[c] = opened[c]
  /\ fd'[c] = fd[c] /\ attr'[c] = attr[c] /\ saved'[c] = saved[c] /\ next'[c] = next[c]
  /\ held'[c] = held[c] /\ slice'[c] = slice[c]

LEMMA OthersStill ==
  ASSUME TypeOK, NEW d \in Callers, Step(d) \/ Call(d), NEW c \in Callers, c # d
  PROVE  Still(c)
<1> USE DEF TypeOK, Still
<1>1. CASE SetDisable(d) \/ Prepare(d) \/ Reset(d) \/ Enable(d) \/ IoctlFails(d) \/ Restore(d)
  BY <1>1 DEF SetDisable, Prepare, Reset, Enable, IoctlFails, Restore
<1>2. CASE PrepareFails(d) \/ OpenFails(d)
  BY <1>2 DEF PrepareFails, OpenFails, Abandon
<1>3. CASE Open(d)
  BY <1>3 DEF Open
<1>4. CASE Undo(d) \/ CloseNext(d)
  BY <1>4 DEF Undo, CloseNext
<1>5. CASE Refuse(d) \/ Return(d) \/ DeactivateAll(d) \/ AllClosed(d)
  BY <1>5 DEF Refuse, Return, DeactivateAll, AllClosed
<1>6. CASE \E i \in Slots : Deactivate(d, i)
  BY <1>6 DEF Deactivate
<1>7. CASE Activate(d) \/ ActivateMulti(d) \/ ActivateGroup(d)
  <2>1. PICK kind, list, first : Begin(d, kind, list, first)
    BY <1>7, BeginOf
  <2>2. saved'[c] = saved[c]
    BY <1>7 DEF Activate, ActivateMulti, ActivateGroup
  <2> QED
    BY <2>1, <2>2 DEF Begin
<1> QED
  BY <1>1, <1>2, <1>3, <1>4, <1>5, <1>6, <1>7 DEF Step, Call

\* A counter in hand after a step was in hand before, enabled as before unless
\* it is the leader that the step has enabled; or the step has opened it.
LEMMA EnabledStep ==
  ASSUME IInv, GroupsApart, EnabledOpen, NEW d \in Callers, Step(d) \/ Call(d),
         NEW c \in Callers, NEW i \in Slots, InHand(c, i)', fd'[c][i] # NoFd
  PROVE  \/ /\ InHand(c, i) /\ fd'[c][i] = fd[c][i]
            /\ fd[c][i] \in enabled => fd[c][i] \in enabled'
            /\ fd[c][i] \in enabled' => fd[c][i] \in enabled \/ (c = d /\ i = 1 /\ Enable(d))
         \/ /\ c = d /\ Open(d) /\ i = opened[d] + 1
            /\ fd'[c][i] \in enabled' <=> ~attr[d]
<1> USE DEF IInv, TypeOK
<1>1. CASE c # d
  <2>1. InHand(c, i) /\ fd'[c][i] = fd[c][i]
    BY <1>1, OthersStill DEF Still, InHand
  <2>2. table[fd[c][i]] = <<c, i>> /\ fd[c][i] \in Fds
    BY <2>1, InHandOpen DEF OpenFds
  <2>3. table[fd[c][i]] \in {c} \X Slots
    BY <2>2
  <2>4. Untouched(c)
    BY <1>1, StepApart
  <2>5. fd[c][i] \in enabled' <=> fd[c][i] \in enabled
    BY <2>2, <2>3, <2>4 DEF Untouched
  <2> QED
    BY <2>1, <2>5
<1>2. CASE c = d /\ Open(d)
  <2>1. opened[d] + 1 \in Slots
    BY <1>2, CurrentEvent DEF Open
  <2>2. PICK g \in Fds :
          /\ PerfEventOpen(g, <<d, opened[d] + 1>>, attr[d], GroupFd(d))
          /\ fd' = [fd EXCEPT ![d][opened[d] + 1] = g]
    BY <1>2 DEF Open
  <2>3. /\ g \notin OpenFds /\ g \notin enabled
        /\ enabled' = IF attr[d] THEN enabled ELSE enabled \cup {g}
    BY <2>2 DEF PerfEventOpen, LowestFree, EnabledOpen
  <2>4. CASE i = opened[d] + 1
    BY <1>2, <2>1, <2>2, <2>3, <2>4
  <2>5. CASE i # opened[d] + 1
    <3>1. InHand(c, i) /\ fd'[c][i] = fd[c][i]
      BY <1>2, <2>1, <2>2, <2>5 DEF Open, InHand, Slots
    <3>2. fd[c][i] # g
      BY <2>3, <3>1, InHandOpen
    <3> QED
      BY <2>3, <3>1, <3>2
  <2> QED
    BY <2>4, <2>5
<1>3. CASE c = d /\ (Undo(d) \/ CloseNext(d) \/ \E k \in Slots : Deactivate(d, k))
  <2>1. PICK k \in Slots :
          /\ InHand(d, k) /\ DeactivateFile(fd[d][k])
          /\ InHand(d, i) /\ fd'[d][i] = fd[d][i]
          /\ Close(fd[d][k]) => i # k
    <3>1. CASE Undo(d)
      <4>1. PICK k \in Slots : k = next[d] /\ InHand(d, k)
        BY <3>1 DEF Undo, Slots, InHand
      <4>2. i # k /\ InHand(d, i) /\ fd'[d][i] = fd[d][i]
        BY <1>3, <3>1, <4>1 DEF Undo, InHand, Slots
      <4> QED
        BY <3>1, <4>1, <4>2 DEF Undo
    <3>2. CASE CloseNext(d)
      <4>1. PICK k \in Slots : k = next[d] /\ InHand(d, k)
        BY <3>2 DEF CloseNext, Shape, Starting, Slots, InHand
      <4>2. InHand(d, i) /\ fd'[d][i] = fd[d][i] /\ (Close(fd[d][k]) => i # k)
        BY <1>3, <3>2, <4>1 DEF CloseNext, InHand, Slots, Close, BadFd
      <4> QED
        BY <3>2, <4>1, <4>2 DEF CloseNext
    <3>3. ASSUME NEW k \in Slots, Deactivate(d, k)
          PROVE  /\ InHand(d, k) /\ DeactivateFile(fd[d][k])
                 /\ InHand(d, i) /\ fd'[d][i] = fd[d][i] /\ i # k
      BY <1>3, <3>3 DEF Deactivate, InHand, DeactivateFile
    <3> QED
      BY <1>3, <3>1, <3>2, <3>3
  <2> HIDE DEF IInv, TypeOK
  <2>2. fd[d][i] # NoFd
    BY <1>3, <2>1
  <2>3. CASE Close(fd[d][k])
    <3>1. fd[d][i] # fd[d][k]
      BY <2>1, <2>2, <2>3, InHandApart
    <3> QED
      BY <1>3, <2>1, <2>3, <3>1 DEF Close
  <2>4. CASE ~Close(fd[d][k])
    <3>1. enabled' = enabled
      BY <2>1, <2>4 DEF DeactivateFile, kernelVars
    <3> QED
      BY <1>3, <2>1, <3>1
  <2> QED
    BY <2>3, <2>4
<1>4. CASE c = d /\ (Activate(d) \/ ActivateMulti(d) \/ ActivateGroup(d) \/ Refuse(d))
  <2>1. fd'[d][i] = NoFd
    <3>1. CASE Refuse(d)
      BY <3>1 DEF Refuse
    <3>2. CASE Activate(d) \/ ActivateMulti(d) \/ ActivateGroup(d)
      <4>1. PICK kind, list, first : Begin(d, kind, list, first)
        BY <3>2, BeginOf
      <4> QED
        BY <4>1 DEF Begin, Released
    <3> QED
      BY <1>4, <3>1, <3>2
  <2> QED
    BY <1>4, <2>1
<1>5. CASE c = d /\ Enable(d)
  <2>1. InHand(d, i) /\ fd'[d][i] = fd[d][i] /\ fd[d][i] # NoFd
    BY <1>5 DEF Enable, InHand
  <2>2. InHand(d, 1) /\ 1 \in Slots /\ enabled' = enabled \cup {fd[d][1]}
    BY <1>5, Leader DEF Enable, IoctlEnable, InHand, Slots, Shape
  <2>3. i # 1 => fd[d][i] # fd[d][1]
    BY <2>1, <2>2, InHandApart
  <2> QED
    BY <1>5, <2>1, <2>2, <2>3
<1>6. CASE /\ c = d
           /\ \/ SetDisable(d) \/ Prepare(d) \/ PrepareFails(d) \/ OpenFails(d) \/ Reset(d)
              \/ IoctlFails(d) \/ Restore(d) \/ Return(d) \/ DeactivateAll(d) \/ AllClosed(d)
  <2>1. UNCHANGED <<kernelVars, fd>>
    BY <1>6 DEF SetDisable, Prepare, PrepareFails, OpenFails, Abandon, Reset, IoctlFails, Restore,
                Return, DeactivateAll, AllClosed
  <2>2. InHand(d, i)
    BY <1>6 DEF SetDisable, Prepare, PrepareFails, OpenFails, Abandon, Reset, IoctlFails, Restore,
                Return, DeactivateAll, AllClosed, InHand, Slots
  <2> QED
    BY <1>6, <2>1, <2>2 DEF kernelVars
<1> QED
  BY <1>1, <1>2, <1>3, <1>4, <1>5, <1>6 DEF Step, Call
-----------------------------------------------------------------------------
\* The PerfEvent of a group's leader.
LeadEvent(c) == events[c][1].event

\* What Exclusive asks for: nobody uses a PerfEvent that another's group has.
Alone ==
  \A c, d \in Callers, e \in PerfEvents : Leads(c, e) /\ Uses(d, e) => c = d

\* The bit that a group has saved, and the one it has restored, is set only if
\* an earlier failure left it so.
AttrRight ==
  /\ AttrRestored
  /\ \A c \in Callers : op[c] = "group" /\ pc[c] \in Starting =>
       /\ saved[c] => LeadEvent(c) \in spoiled
       /\ pc[c] = "return" /\ disabled[LeadEvent(c)] => LeadEvent(c) \in spoiled

\* A group's leader is prepared disabled, opened disabled and disabled still.
LeaderHeld ==
  \A c \in Callers : op[c] = "group" =>
    /\ pc[c] = "prepare" /\ opened[c] = 0 => disabled[LeadEvent(c)]
    /\ pc[c] = "open" /\ opened[c] = 0 => attr[c]
    /\ opened[c] > 0 /\ pc[c] \in {"prepare", "open", "reset", "enable"}
         => fd[c][1] \notin enabled

\* Why a counter may be open and not count.
Waits(c, i) ==
  \/ events[c][i].onExec
  \/ events[c][i].event \in spoiled
  \/ op[c] = "group" /\ events[c][i].event = LeadEvent(c)

\* Every other counter in hand counts, a leader from its enabling on.
Counted ==
  \A c \in Callers :
    /\ pc[c] = "open" /\ attr[c] => Waits(c, opened[c] + 1)
    /\ \A i \in Slots :
         InHand(c, i) /\ fd[c][i] # NoFd
           => fd[c][i] \in enabled \/ (op[c] = "group" /\ i = 1) \/ Waits(c, i)
    /\ op[c] = "group" /\ InHand(c, 1) /\ fd[c][1] # NoFd
         /\ pc[c] \in {"restore", "return", "idle", "closing"}
         => fd[c][1] \in enabled

\* A step that begins no call makes nobody use or lead more.
LEMMA NoBegin ==
  ASSUME TypeOK, NEW d \in Callers,
         Step(d) \/ DeactivateAll(d) \/ \E i \in Slots : Deactivate(d, i)
  PROVE  /\ op' = op /\ events' = events
         /\ \A c \in Callers : pc'[c] \in Starting => pc[c] \in Starting
<1> USE DEF TypeOK, Starting
<1>1. CASE SetDisable(d) \/ Prepare(d) \/ Reset(d) \/ Enable(d) \/ IoctlFails(d) \/ Restore(d)
  BY <1>1 DEF SetDisable, Prepare, Reset, Enable, IoctlFails, Restore
<1>2. CASE PrepareFails(d) \/ OpenFails(d)
  BY <1>2 DEF PrepareFails, OpenFails, Abandon
<1>3. CASE Open(d)
  BY <1>3 DEF Open
<1>4. CASE Undo(d) \/ CloseNext(d)
  BY <1>4 DEF Undo, CloseNext
<1>5. CASE Refuse(d) \/ Return(d) \/ DeactivateAll(d) \/ AllClosed(d)
  BY <1>5 DEF Refuse, Return, DeactivateAll, AllClosed
<1>6. CASE \E i \in Slots : Deactivate(d, i)
  BY <1>6 DEF Deactivate
<1> QED
  BY <1>1, <1>2, <1>3, <1>4, <1>5, <1>6 DEF Step

\* Clients keep to Exclusive when they start a call, and then it stays so.
LEMMA AloneStep ==
  ASSUME Exclusive, IInv, Alone, NEW d \in Callers, Step(d) \/ Call(d)
  PROVE  Alone'
<1>1. CASE Step(d) \/ DeactivateAll(d) \/ \E i \in Slots : Deactivate(d, i)
  <2>1. /\ op' = op /\ events' = events
        /\ \A c \in Callers : pc'[c] \in Starting => pc[c] \in Starting
    BY <1>1, NoBegin DEF IInv
  <2> QED
    BY <2>1 DEF Alone, Leads, Uses
<1>2. CASE Activate(d) \/ ActivateMulti(d) \/ ActivateGroup(d)
  <2>1. PICK kind, list, first : Begin(d, kind, list, first)
    BY <1>2, BeginOf
  <2>2. \A c \in Callers \ {d} : pc'[c] = pc[c] /\ op'[c] = op[c] /\ events'[c] = events[c]
    BY <2>1 DEF Begin
  <2>3. \A c \in Callers \ {d}, e \in PerfEvents :
          (Leads(c, e)' <=> Leads(c, e)) /\ (Uses(c, e)' <=> Uses(c, e))
    BY <2>2 DEF Leads, Uses
  <2>4. op'[d] = kind /\ events'[d] = list
    BY <2>1 DEF Begin, IInv, TypeOK
  <2>5. \A c \in Callers \ {d}, e \in PerfEvents : Leads(c, e) => ~Uses(d, e)'
    BY <2>1, <2>4 DEF Begin, MayStart, Uses
  <2>6. \A c \in Callers \ {d}, e \in PerfEvents : Leads(d, e)' => ~Uses(c, e)
    BY <2>1, <2>4 DEF Begin, MayStart, Leads
  <2> QED
    BY <2>3, <2>5, <2>6 DEF Alone
<1> QED
  BY <1>1, <1>2 DEF Call
-----------------------------------------------------------------------------
\* A group that is being activated leads and uses its leader's PerfEvent.
LEMMA LeadsOwn ==
  ASSUME IInv, NEW c \in Callers, op[c] = "group", pc[c] \in Starting
  PROVE  /\ LeadEvent(c) \in PerfEvents
         /\ Leads(c, LeadEvent(c)) /\ Uses(c, LeadEvent(c))
         /\ \A e : Leads(c, e) => e = LeadEvent(c)
<1>1. LeadEvent(c) \in PerfEvents /\ Len(events[c]) \in 1 .. MaxEvents
  BY Leader DEF LeadEvent
<1>2. 1 \in DOMAIN events[c]
  <2>1. events[c] \in EventLists
    BY DEF IInv, TypeOK
  <2> QED
    BY <1>1, <2>1, ListFacts
<1> QED
  BY <1>1, <1>2 DEF Leads, Uses, LeadEvent

\* The events of a call in progress are used.
LEMMA UsesOwn ==
  ASSUME IInv, NEW c \in Callers, pc[c] \in {"prepare", "open"}
  PROVE  /\ Current(c).event \in PerfEvents /\ Uses(c, Current(c).event)
         /\ Current(c) = events[c][opened[c] + 1]
<1>1. /\ opened[c] + 1 \in 1 .. Len(events[c]) /\ Current(c) \in CustomizableEvent
      /\ events[c] \in EventLists
  BY CurrentEvent DEF IInv, TypeOK
<1>2. opened[c] + 1 \in DOMAIN events[c]
  BY <1>1, ListFacts
<1> QED
  BY <1>1, <1>2 DEF Uses, Current, CustomizableEvent, Starting

\* Two groups that are being activated have different leaders.
LEMMA LeadersDiffer ==
  ASSUME IInv, Alone, NEW c \in Callers, NEW d \in Callers, c # d,
         op[c] = "group", pc[c] \in Starting, op[d] = "group", pc[d] \in Starting
  PROVE  LeadEvent(c) # LeadEvent(d)
BY LeadsOwn DEF Alone

\* A call that begins has its bit saved while nobody else leads its PerfEvent.
LEMMA AttrRightBegin ==
  ASSUME Exclusive, IInv, AttrRight, NEW d \in Callers,
         Activate(d) \/ ActivateMulti(d) \/ ActivateGroup(d)
  PROVE  AttrRight'
<1>1. PICK kind, list, first : Begin(d, kind, list, first)
  BY BeginOf
<1>2. /\ \A c \in Callers \ {d} :
           pc'[c] = pc[c] /\ op'[c] = op[c] /\ events'[c] = events[c] /\ saved'[c] = saved[c]
      /\ disabled' = disabled /\ spoiled' = spoiled
      /\ pc[d] = "idle" /\ op'[d] = kind /\ events'[d] = list /\ pc'[d] = first
  <2>1. \A c \in Callers \ {d} : saved'[c] = saved[c]
    BY DEF Activate, ActivateMulti, ActivateGroup, IInv, TypeOK
  <2> QED
    BY <1>1, <2>1 DEF Begin, IInv, TypeOK
<1>3. AttrRestored'
  <2> SUFFICES ASSUME NEW e \in PerfEvents, disabled'[e]
               PROVE  e \in spoiled' \/ \E c \in Callers : Leads(c, e)'
    BY DEF AttrRestored
  <2>1. e \in spoiled \/ \E c \in Callers : Leads(c, e)
    BY <1>2 DEF AttrRight, AttrRestored
  <2>2. \A c \in Callers : Leads(c, e) => Leads(c, e)'
    BY <1>2 DEF Leads, Starting
  <2> QED
    BY <1>2, <2>1, <2>2
<1>4. op'[d] # "group" \/ (saved'[d] => LeadEvent(d)' \in spoiled)
  <2>1. CASE ActivateGroup(d)
    <3>1. PICK l \in EventLists \ {<<>>} :
            /\ Begin(d, "group", l, "disable")
            /\ saved' = [saved EXCEPT ![d] = disabled[l[1].event]]
      BY <2>1 DEF ActivateGroup
    <3>2. events'[d] = l /\ saved'[d] = disabled[l[1].event]
      BY <3>1 DEF Begin, IInv, TypeOK
    <3>3. l[1].event \in PerfEvents /\ 1 \in DOMAIN l
      BY ListFacts, EmptySeq DEF CustomizableEvent
    <3>4. \A c \in Callers : ~Leads(c, l[1].event)
      <4>1. ~Leads(d, l[1].event)
        BY <1>2 DEF Leads, Starting
      <4> QED
        BY <3>1, <3>3, <4>1 DEF Begin, MayStart
    <3>5. disabled[l[1].event] => l[1].event \in spoiled
      BY <3>3, <3>4 DEF AttrRight, AttrRestored
    <3> QED
      BY <3>2, <3>5 DEF LeadEvent
  <2>2. CASE Activate(d) \/ ActivateMulti(d)
    BY <2>2 DEF Activate, ActivateMulti, Begin, IInv, TypeOK
  <2> QED
    BY <2>1, <2>2
<1>5. op'[d] = "group" => pc'[d] # "return"
  BY DEF Activate, ActivateMulti, ActivateGroup, Begin, IInv, TypeOK
<1>6. ASSUME NEW c \in Callers, op'[c] = "group", pc'[c] \in Starting
      PROVE  /\ saved'[c] => LeadEvent(c)' \in spoiled'
             /\ pc'[c] = "return" /\ disabled'[LeadEvent(c)'] => LeadEvent(c)' \in spoiled'
  <2>1. CASE c = d
    BY <1>2, <1>4, <1>5, <1>6, <2>1
  <2>2. CASE c # d
    BY <1>2, <1>6, <2>2 DEF AttrRight, LeadEvent
  <2> QED
    BY <2>1, <2>2
<1> QED
  BY <1>3, <1>6 DEF AttrRight, LeadEvent

\* A group sets its leader's bit, and writes back what it has saved.
LEMMA AttrRightStep ==
  ASSUME Exclusive, IInv, Alone, AttrRight, NEW d \in Callers, Step(d) \/ Call(d)
  PROVE  AttrRight'
<1>1. CASE Activate(d) \/ ActivateMulti(d) \/ ActivateGroup(d)
  BY <1>1, AttrRightBegin
<1>2. CASE SetDisable(d)
  <2>1. op[d] = "group" /\ pc[d] \in Starting
    BY <1>2 DEF SetDisable, IInv, Shape, Starting
  <2>2. /\ disabled' = [disabled EXCEPT ![LeadEvent(d)] = TRUE]
        /\ UNCHANGED <<op, events, saved, spoiled>>
        /\ pc' = [pc EXCEPT ![d] = "prepare"]
    BY <1>2 DEF SetDisable, LeadEvent
  <2>3. \A c \in Callers : pc'[c] \in Starting <=> pc[c] \in Starting
    BY <2>1, <2>2 DEF IInv, TypeOK, Starting
  <2>4. \A c \in Callers, e \in PerfEvents : Leads(c, e)' <=> Leads(c, e)
    BY <2>2, <2>3 DEF Leads
  <2>5. AttrRestored'
    BY <2>1, <2>2, <2>4, LeadsOwn DEF AttrRight, AttrRestored, IInv, TypeOK
  <2>6. ASSUME NEW c \in Callers, op[c] = "group", pc'[c] \in Starting
        PROVE  /\ saved[c] => LeadEvent(c) \in spoiled
               /\ pc'[c] = "return" /\ disabled'[LeadEvent(c)] => LeadEvent(c) \in spoiled
    <3>1. CASE c = d
      BY <2>1, <2>2, <2>6, <3>1 DEF AttrRight, IInv, TypeOK
    <3>2. CASE c # d
      <4>1. pc'[c] = pc[c] /\ LeadEvent(c) # LeadEvent(d) /\ LeadEvent(c) \in PerfEvents
        BY <2>1, <2>2, <2>3, <2>6, <3>2, LeadersDiffer, LeadsOwn DEF IInv, TypeOK
      <4>2. disabled'[LeadEvent(c)] = disabled[LeadEvent(c)]
        BY <2>2, <4>1 DEF IInv, TypeOK
      <4> QED
        BY <2>3, <2>6, <4>1, <4>2 DEF AttrRight
    <3> QED
      BY <3>1, <3>2
  <2> QED
    BY <2>2, <2>5, <2>6 DEF AttrRight, LeadEvent
<1>3. CASE Restore(d)
  <2>1. op[d] = "group" /\ pc[d] \in Starting
    BY <1>3 DEF Restore, IInv, Shape, Starting
  <2>2. /\ disabled' = [disabled EXCEPT ![LeadEvent(d)] = saved[d]]
        /\ UNCHANGED <<op, events, spoiled>>
        /\ saved' = [saved EXCEPT ![d] = FALSE]
        /\ pc' = [pc EXCEPT ![d] = "return"]
    BY <1>3 DEF Restore, LeadEvent
  <2>3. \A c \in Callers : pc'[c] \in Starting <=> pc[c] \in Starting
    BY <2>1, <2>2 DEF IInv, TypeOK, Starting
  <2>4. \A c \in Callers, e \in PerfEvents : Leads(c, e)' <=> Leads(c, e)
    BY <2>2, <2>3 DEF Leads
  <2>5. saved[d] => LeadEvent(d) \in spoiled
    BY <2>1 DEF AttrRight
  <2>6. disabled'[LeadEvent(d)] = saved[d]
    BY <2>1, <2>2, LeadsOwn DEF IInv, TypeOK
  <2>7. AttrRestored'
    <3> SUFFICES ASSUME NEW e \in PerfEvents, disabled'[e]
                 PROVE  e \in spoiled' \/ \E c \in Callers : Leads(c, e)'
      BY DEF AttrRestored
    <3>1. CASE e = LeadEvent(d)
      BY <2>2, <2>5, <2>6, <3>1
    <3>2. CASE e # LeadEvent(d)
      <4>1. disabled[e]
        BY <2>2, <3>2 DEF IInv, TypeOK
      <4> QED
        BY <2>2, <2>4, <4>1 DEF AttrRight, AttrRestored
    <3> QED
      BY <3>1, <3>2
  <2>8. ASSUME NEW c \in Callers, op[c] = "group", pc'[c] \in Starting
        PROVE  /\ saved'[c] => LeadEvent(c) \in spoiled
               /\ pc'[c] = "return" /\ disabled'[LeadEvent(c)] => LeadEvent(c) \in spoiled
    <3>1. CASE c = d
      BY <2>2, <2>5, <2>6, <3>1 DEF IInv, TypeOK
    <3>2. CASE c # d
      <4>1. /\ pc'[c] = pc[c] /\ saved'[c] = saved[c]
            /\ LeadEvent(c) # LeadEvent(d) /\ LeadEvent(c) \in PerfEvents
        BY <2>1, <2>2, <2>3, <2>8, <3>2, LeadersDiffer, LeadsOwn DEF IInv, TypeOK
      <4>2. disabled'[LeadEvent(c)] = disabled[LeadEvent(c)]
        BY <2>2, <4>1 DEF IInv, TypeOK
      <4> QED
        BY <2>3, <2>8, <4>1, <4>2 DEF AttrRight
    <3> QED
      BY <3>1, <3>2
  <2> QED
    BY <2>2, <2>7, <2>8 DEF AttrRight, LeadEvent
<1>4. CASE Refuse(d) \/ Return(d)
  <2>1. /\ disabled' = disabled /\ op' = op /\ events' = events /\ spoiled \subseteq spoiled'
        /\ pc' = [pc EXCEPT ![d] = "idle"]
        /\ \A c \in Callers \ {d} : saved'[c] = saved[c]
    BY <1>4 DEF Refuse, Return, IInv, TypeOK
  <2>2. \A c \in Callers \ {d} : pc'[c] = pc[c]
    BY <2>1 DEF IInv, TypeOK
  <2>3. op[d] = "group" /\ disabled[LeadEvent(d)] => LeadEvent(d) \in spoiled'
    BY <1>4 DEF Refuse, Return, AttrRight, LeadEvent, Starting
  <2>4. pc[d] \in Starting /\ pc'[d] \notin Starting
    BY <1>4, <2>1 DEF Refuse, Return, IInv, TypeOK, Starting
  <2>5. AttrRestored'
    <3> SUFFICES ASSUME NEW e \in PerfEvents, disabled[e], e \notin spoiled'
                 PROVE  \E c \in Callers : Leads(c, e)'
      BY <2>1 DEF AttrRestored
    <3>1. PICK c \in Callers : Leads(c, e)
      BY <2>1 DEF AttrRight, AttrRestored
    <3>2. c # d
      BY <2>3, <2>4, <3>1 DEF Leads, LeadEvent
    <3> QED
      BY <2>1, <2>2, <3>1, <3>2 DEF Leads
  <2> QED
    BY <2>1, <2>2, <2>4, <2>5 DEF AttrRight, LeadEvent
<1>5. CASE \/ Prepare(d) \/ PrepareFails(d) \/ Open(d) \/ OpenFails(d) \/ Undo(d) \/ Reset(d)
           \/ Enable(d) \/ IoctlFails(d) \/ CloseNext(d) \/ AllClosed(d) \/ DeactivateAll(d)
           \/ \E i \in Slots : Deactivate(d, i)
  <2>1. UNCHANGED <<disabled, spoiled, op, events, saved>>
    BY <1>5 DEF Prepare, PrepareFails, OpenFails, Abandon, Open, Undo, Reset, Enable, IoctlFails,
                CloseNext, AllClosed, DeactivateAll, Deactivate
  <2>2. \A c \in Callers :
          /\ pc'[c] \in Starting <=> pc[c] \in Starting
          /\ pc'[c] = "return" => pc[c] = "return" \/ op[c] # "group"
    <3>1. CASE Open(d)
      BY <3>1 DEF Open, AfterOpen, IInv, TypeOK, Starting
    <3>2. CASE PrepareFails(d) \/ OpenFails(d)
      BY <3>2 DEF PrepareFails, OpenFails, Abandon, IInv, TypeOK, Starting
    <3>3. CASE Prepare(d) \/ Undo(d) \/ Reset(d) \/ Enable(d) \/ IoctlFails(d)
      BY <3>3 DEF Prepare, Undo, Reset, Enable, IoctlFails, IInv, TypeOK, Starting
    <3>4. CASE \/ CloseNext(d) \/ AllClosed(d) \/ DeactivateAll(d)
               \/ \E i \in Slots : Deactivate(d, i)
      BY <3>4 DEF CloseNext, AllClosed, DeactivateAll, Deactivate, IInv, TypeOK, Starting
    <3> QED
      BY <1>5, <3>1, <3>2, <3>3, <3>4
  <2>3. AttrRestored'
    BY <2>1, <2>2 DEF AttrRight, AttrRestored, Leads
  <2> QED
    BY <2>1, <2>2, <2>3 DEF AttrRight, LeadEvent
<1> QED
  BY <1>1, <1>2, <1>3, <1>4, <1>5 DEF Step, Call
-----------------------------------------------------------------------------
\* What another caller's step does to a leader that is being prepared: its bit
\* stays set.
LEMMA BitStays ==
  ASSUME IInv, Alone, NEW d \in Callers, Step(d) \/ Call(d),
         NEW c \in Callers, c # d, op[c] = "group", pc[c] \in Starting, disabled[LeadEvent(c)]
  PROVE  disabled'[LeadEvent(c)]
<1>1. LeadEvent(c) \in PerfEvents
  BY LeadsOwn
<1>2. CASE SetDisable(d)
  BY <1>1, <1>2 DEF SetDisable, IInv, TypeOK
<1>3. CASE Restore(d)
  <2>1. op[d] = "group" /\ pc[d] \in Starting
    BY <1>3 DEF Restore, IInv, Shape, Starting
  <2>2. LeadEvent(c) # LeadEvent(d)
    BY <2>1, LeadersDiffer
  <2> QED
    BY <1>1, <1>3, <2>2 DEF Restore, LeadEvent, IInv, TypeOK
<1>4. CASE ~(SetDisable(d) \/ Restore(d))
  <2>1. disabled' = disabled
    BY <1>4 DEF Step, Call, Prepare, PrepareFails, OpenFails, Abandon, Open, Undo, Refuse, Reset,
                Enable, IoctlFails, Return, CloseNext, AllClosed, Activate, ActivateMulti,
                ActivateGroup, Begin, DeactivateAll, Deactivate
  <2> QED
    BY <2>1
<1> QED
  BY <1>2, <1>3, <1>4

\* A group's leader does not count before it is enabled.
LEMMA LeaderHeldStep ==
  ASSUME IInv, GroupsApart, EnabledOpen, Alone, LeaderHeld, NEW d \in Callers, Step(d) \/ Call(d)
  PROVE  LeaderHeld'
<1> SUFFICES ASSUME NEW c \in Callers, op'[c] = "group"
             PROVE  /\ pc'[c] = "prepare" /\ opened'[c] = 0 => disabled'[LeadEvent(c)']
                    /\ pc'[c] = "open" /\ opened'[c] = 0 => attr'[c]
                    /\ opened'[c] > 0 /\ pc'[c] \in {"prepare", "open", "reset", "enable"}
                         => fd'[c][1] \notin enabled'
  BY DEF LeaderHeld, LeadEvent
<1>a. 1 \in Slots
  BY DEF Slots
<1>b. ASSUME opened'[c] > 0, opened'[c] \in Nat,
             pc'[c] \in {"prepare", "open", "reset", "enable"},
             op[c] = "group", opened[c] > 0, opened[c] \in Nat,
             pc[c] \in {"prepare", "open", "reset", "enable"}, ~(c = d /\ Enable(d))
      PROVE  fd'[c][1] \notin enabled'
  <2>1. InHand(c, 1)' /\ 1 # opened[c] + 1
    BY <1>b DEF InHand
  <2>a. fd[c][1] \notin enabled
    BY <1>b DEF LeaderHeld
  <2>2. CASE fd'[c][1] = NoFd
    BY <2>2, EnabledOpenStep DEF EnabledOpen, OpenFds, Fds, NoFd
  <2>3. CASE fd'[c][1] # NoFd
    BY <1>a, <1>b, <2>1, <2>a, <2>3, EnabledStep
  <2> QED
    BY <2>2, <2>3
<1>1. CASE c # d
  <2>1. Still(c)
    BY <1>1, OthersStill DEF IInv
  <2>2. op[c] = "group" /\ opened[c] \in Nat
    BY <2>1 DEF Still, IInv, TypeOK
  <2>3. pc[c] = "prepare" /\ opened[c] = 0 => disabled'[LeadEvent(c)]
    BY <1>1, <2>2, BitStays DEF LeaderHeld, Starting
  <2> QED
    BY <1>1, <1>b, <2>1, <2>2, <2>3 DEF Still, LeaderHeld, LeadEvent
<1>2. CASE c = d /\ SetDisable(d)
  <2>1. op[c] = "group" /\ pc[c] = "disable" /\ opened[c] = 0
    BY <1>2 DEF SetDisable, IInv, Shape
  <2>2. LeadEvent(c) \in PerfEvents
    BY <2>1, LeadsOwn DEF Starting
  <2> QED
    BY <1>2, <2>1, <2>2 DEF SetDisable, LeadEvent, IInv, TypeOK
<1>3. CASE c = d /\ Prepare(d)
  <2>1. op[c] = "group" /\ opened'[c] = opened[c] /\ pc[c] = "prepare" /\ pc'[c] = "open"
        /\ opened[c] \in Nat
    BY <1>3 DEF Prepare, IInv, TypeOK
  <2>2. opened[c] = 0 => attr'[c]
    <3>1. attr'[c] = (disabled[Current(c).event] \/ Current(c).onExec)
      BY <1>3 DEF Prepare, IInv, TypeOK
    <3>2. opened[c] = 0 => Current(c).event = LeadEvent(c)
      BY DEF Current, LeadEvent
    <3> QED
      BY <2>1, <3>1, <3>2 DEF LeaderHeld
  <2>3. opened[c] > 0 => fd'[c][1] \notin enabled'
    BY <1>3, <1>b, <2>1 DEF Prepare, Enable
  <2> QED
    BY <2>1, <2>2, <2>3
<1>4. CASE c = d /\ Open(d)
  <2>1. /\ op[c] = "group" /\ opened'[c] = opened[c] + 1 /\ pc[c] = "open" /\ opened[c] \in Nat
        /\ pc'[c] # "open"
    BY <1>4 DEF Open, AfterOpen, IInv, TypeOK
  <2>2. CASE opened[c] > 0
    <3>1. pc'[c] \in {"prepare", "reset"} => fd'[c][1] \notin enabled'
      BY <1>4, <1>b, <2>1, <2>2 DEF Enable
    <3>2. pc'[c] \notin {"enable"}
      BY <1>4 DEF Open, AfterOpen, IInv, TypeOK
    <3> QED
      BY <2>1, <2>2, <3>1, <3>2
  <2>3. CASE opened[c] = 0
    <3>1. attr[c] /\ ~InHand(c, 1) /\ InHand(c, 1)'
      BY <1>4, <2>1, <2>3 DEF LeaderHeld, InHand, Open, AfterOpen
    <3>2. fd'[c][1] = NoFd \/ fd'[c][1] \notin enabled'
      BY <1>4, <1>a, <2>3, <3>1, EnabledStep
    <3>3. NoFd \notin enabled'
      BY EnabledOpenStep DEF EnabledOpen, OpenFds, Fds, NoFd
    <3> QED
      BY <2>1, <3>2, <3>3
  <2> QED
    BY <2>1, <2>2, <2>3
<1>5. CASE c = d /\ Reset(d)
  <2>1. /\ op[c] = "group" /\ opened'[c] = opened[c] /\ opened[c] \in Nat
        /\ pc[c] = "reset" /\ pc'[c] = "enable"
    BY <1>5 DEF Reset, IInv, TypeOK
  <2> QED
    BY <1>5, <1>b, <2>1 DEF Enable
<1>6. CASE c = d /\ (Activate(d) \/ ActivateMulti(d) \/ ActivateGroup(d))
  <2>1. pc'[c] = "disable"
    BY <1>6 DEF Activate, ActivateMulti, ActivateGroup, Begin, IInv, TypeOK
  <2> QED
    BY <2>1
<1>7. CASE c = d /\ (PrepareFails(d) \/ OpenFails(d) \/ Undo(d) \/ Refuse(d) \/ Enable(d)
                      \/ IoctlFails(d) \/ Restore(d) \/ Return(d) \/ CloseNext(d) \/ AllClosed(d)
                      \/ DeactivateAll(d) \/ \E i \in Slots : Deactivate(d, i))
  <2>1. pc'[c] \notin {"prepare", "open", "reset", "enable"}
    BY <1>7 DEF PrepareFails, OpenFails, Abandon, Undo, Refuse, Enable, IoctlFails, Restore, Return,
                CloseNext, AllClosed, DeactivateAll, Deactivate, IInv, TypeOK
  <2> QED
    BY <2>1
<1> QED
  BY <1>1, <1>2, <1>3, <1>4, <1>5, <1>6, <1>7 DEF Step, Call
-----------------------------------------------------------------------------
\* A reason to wait stays one until the caller's next call.
LEMMA WaitsOn ==
  ASSUME IInv, NEW d \in Callers, Step(d) \/ Call(d), NEW c \in Callers, NEW i,
         c = d => ~(Activate(d) \/ ActivateMulti(d) \/ ActivateGroup(d))
  PROVE  op'[c] = op[c] /\ (Waits(c, i) => Waits(c, i)')
<1>1. op'[c] = op[c] /\ events'[c] = events[c]
  <2>1. CASE c # d
    BY <2>1, OthersStill DEF Still, IInv
  <2>2. CASE c = d
    BY <2>2, NoBegin DEF Call, IInv
  <2> QED
    BY <2>1, <2>2
<1>2. spoiled \subseteq spoiled'
  <2>1. CASE Refuse(d)
    BY <2>1 DEF Refuse
  <2>2. CASE Activate(d) \/ ActivateMulti(d) \/ ActivateGroup(d)
    BY <2>2, BeginOf DEF Begin
  <2>3. CASE \/ SetDisable(d) \/ Prepare(d) \/ PrepareFails(d) \/ Open(d) \/ OpenFails(d)
             \/ Undo(d) \/ Reset(d) \/ Enable(d) \/ IoctlFails(d) \/ Restore(d) \/ Return(d)
             \/ CloseNext(d) \/ AllClosed(d) \/ DeactivateAll(d)
             \/ \E k \in Slots : Deactivate(d, k)
    BY <2>3 DEF SetDisable, Prepare, PrepareFails, OpenFails, Abandon, Open, Undo, Reset, Enable,
                IoctlFails, Restore, Return, CloseNext, AllClosed, DeactivateAll, Deactivate
  <2> QED
    BY <2>1, <2>2, <2>3 DEF Step, Call
<1> QED
  BY <1>1, <1>2 DEF Waits, LeadEvent

\* An attribute is prepared disabled for a reason.
LEMMA PreparedWaits ==
  ASSUME IInv, Alone, AttrRight, NEW d \in Callers, Prepare(d), attr'[d]
  PROVE  Waits(d, opened[d] + 1)
<1>1. pc[d] \in {"prepare", "open"} /\ pc[d] \in Starting
  BY DEF Prepare, Starting
<1>2. /\ Current(d).event \in PerfEvents /\ Uses(d, Current(d).event)
      /\ Current(d) = events[d][opened[d] + 1]
  BY <1>1, UsesOwn
<1>3. disabled[Current(d).event] \/ Current(d).onExec
  BY DEF Prepare, IInv, TypeOK
<1>4. CASE disabled[Current(d).event] /\ Current(d).event \notin spoiled
  <2>1. PICK c \in Callers : Leads(c, Current(d).event)
    BY <1>2, <1>4 DEF AttrRight, AttrRestored
  <2>2. c = d
    BY <1>2, <2>1 DEF Alone
  <2>3. op[d] = "group"
    BY <2>1, <2>2 DEF Leads
  <2>4. Current(d).event = LeadEvent(d)
    BY <1>1, <2>1, <2>2, <2>3, LeadsOwn
  <2> QED
    BY <1>2, <2>3, <2>4 DEF Waits
<1> QED
  BY <1>2, <1>3, <1>4 DEF Waits

\* The counters in hand that are not enabled are those that wait.
LEMMA CountedMembers ==
  ASSUME IInv, GroupsApart, EnabledOpen, Counted, NEW d \in Callers, Step(d) \/ Call(d),
         NEW c \in Callers, NEW i \in Slots, InHand(c, i)', fd'[c][i] # NoFd
  PROVE  fd'[c][i] \in enabled' \/ (op'[c] = "group" /\ i = 1) \/ Waits(c, i)'
<1>1. CASE c = d /\ (Activate(d) \/ ActivateMulti(d) \/ ActivateGroup(d))
  BY <1>1, BeginOf DEF Begin, Released
<1>2. CASE ~(c = d /\ (Activate(d) \/ ActivateMulti(d) \/ ActivateGroup(d)))
  <2>1. op'[c] = op[c] /\ (Waits(c, i) => Waits(c, i)')
    BY <1>2, WaitsOn
  <2>2. CASE InHand(c, i) /\ fd'[c][i] = fd[c][i] /\ (fd[c][i] \in enabled => fd[c][i] \in enabled')
    BY <2>1, <2>2 DEF Counted
  <2>3. CASE c = d /\ Open(d) /\ i = opened[d] + 1 /\ (fd'[c][i] \in enabled' <=> ~attr[d])
    <3>1. attr[d] => Waits(d, i)
      BY <2>3 DEF Open, Counted
    <3> QED
      BY <2>1, <2>3, <3>1
  <2> QED
    BY <2>2, <2>3, EnabledStep
<1> QED
  BY <1>1, <1>2

\* A group's leader counts from its enabling on.
LEMMA CountedLeader ==
  ASSUME IInv, GroupsApart, EnabledOpen, Counted, NEW d \in Callers, Step(d) \/ Call(d),
         NEW c \in Callers, op'[c] = "group", InHand(c, 1)', fd'[c][1] # NoFd,
         pc'[c] \in {"restore", "return", "idle", "closing"}
  PROVE  fd'[c][1] \in enabled'
<1>a. 1 \in Slots
  BY DEF Slots
<1>b. ASSUME op[c] = "group", pc[c] \in {"restore", "return", "idle", "closing"}
      PROVE  fd'[c][1] \in enabled'
  <2>1. ~(c = d /\ Open(d))
    BY <1>b DEF Open
  <2>2. /\ InHand(c, 1) /\ fd'[c][1] = fd[c][1]
        /\ fd[c][1] \in enabled => fd[c][1] \in enabled'
    BY <1>a, <2>1, EnabledStep
  <2> QED
    BY <1>b, <2>2 DEF Counted
<1>1. CASE c # d
  BY <1>1, <1>b, OthersStill DEF Still, IInv
<1>2. CASE c = d /\ (Restore(d) \/ Return(d) \/ DeactivateAll(d) \/ CloseNext(d) \/ AllClosed(d)
                      \/ \E k \in Slots : Deactivate(d, k))
  BY <1>2, <1>b DEF Restore, Return, DeactivateAll, CloseNext, AllClosed, Deactivate, IInv, TypeOK
<1>3. CASE c = d /\ Enable(d)
  BY <1>3 DEF Enable, IoctlEnable
<1>4. CASE c = d /\ Refuse(d)
  BY <1>a, <1>4 DEF Refuse, IInv, TypeOK
<1>5. CASE c = d /\ (Activate(d) \/ ActivateMulti(d) \/ ActivateGroup(d))
  BY <1>5 DEF Activate, ActivateMulti, ActivateGroup, Begin, IInv, TypeOK
<1>6. CASE c = d /\ Open(d)
  BY <1>6 DEF Open, AfterOpen, IInv, TypeOK
<1>7. CASE c = d /\ (SetDisable(d) \/ Prepare(d) \/ PrepareFails(d) \/ OpenFails(d) \/ Undo(d)
                      \/ Reset(d) \/ IoctlFails(d))
  BY <1>7 DEF SetDisable, Prepare, PrepareFails, OpenFails, Abandon, Undo, Reset, IoctlFails,
              IInv, TypeOK
<1> QED
  BY <1>1, <1>2, <1>3, <1>4, <1>5, <1>6, <1>7 DEF Step, Call

LEMMA CountedStep ==
  ASSUME IInv, GroupsApart, EnabledOpen, Alone, AttrRight, Counted,
         NEW d \in Callers, Step(d) \/ Call(d)
  PROVE  Counted'
<1>1. ASSUME NEW c \in Callers, pc'[c] = "open", attr'[c]
      PROVE  Waits(c, opened[c] + 1)'
  <2>1. CASE c # d
    <3>1. pc[c] = "open" /\ attr[c] /\ opened'[c] = opened[c]
      BY <1>1, <2>1, OthersStill DEF Still, IInv
    <3>2. PICK i : i = opened[c] + 1
      OBVIOUS
    <3>3. Waits(c, i)'
      BY <2>1, <3>1, <3>2, WaitsOn DEF Counted
    <3> QED
      BY <3>1, <3>2, <3>3 DEF Waits, LeadEvent
  <2>2. CASE c = d
    <3>a. pc'[d] = "open"
      BY <1>1, <2>2
    <3>1. Prepare(d)
      <4>1. CASE SetDisable(d) \/ PrepareFails(d) \/ OpenFails(d) \/ Undo(d) \/ Refuse(d)
        BY <3>a, <4>1 DEF SetDisable, PrepareFails, OpenFails, Abandon, Undo, Refuse, IInv, TypeOK
      <4>2. CASE Open(d)
        BY <3>a, <4>2 DEF Open, AfterOpen, IInv, TypeOK
      <4>3. CASE \/ Reset(d) \/ Enable(d) \/ IoctlFails(d) \/ Restore(d) \/ Return(d)
                 \/ CloseNext(d) \/ AllClosed(d)
        BY <3>a, <4>3 DEF Reset, Enable, IoctlFails, Restore, Return, CloseNext, AllClosed,
                          IInv, TypeOK
      <4>4. CASE Call(d)
        BY <3>a, <4>4 DEF Call, Activate, ActivateMulti, ActivateGroup, Begin, DeactivateAll,
                          Deactivate, IInv, TypeOK
      <4> QED
        BY <4>1, <4>2, <4>3, <4>4 DEF Step
    <3>2. PICK i : i = opened[d] + 1
      OBVIOUS
    <3>3. Waits(d, i)
      BY <1>1, <2>2, <3>1, <3>2, PreparedWaits
    <3>4. ~(Activate(d) \/ ActivateMulti(d) \/ ActivateGroup(d)) /\ opened' = opened
      BY <3>1 DEF Prepare, Activate, ActivateMulti, ActivateGroup, Begin
    <3>5. Waits(d, i)'
      BY <3>3, <3>4, WaitsOn
    <3> QED
      BY <2>2, <3>2, <3>4, <3>5 DEF Waits, LeadEvent
  <2> QED
    BY <2>1, <2>2
<1> QED
  BY <1>1, CountedMembers, CountedLeader DEF Counted
-----------------------------------------------------------------------------
\* The invariants of the clients that keep to Exclusive.
AloneInv == Alone /\ AttrRight /\ LeaderHeld /\ Counted

THEOREM AloneInvariance ==
  ASSUME Exclusive
  PROVE  Spec => []AloneInv /\ []EnabledOpen
<1> USE DEF AloneInv
<1>1. Init => AloneInv
  BY DEF Init, Alone, AttrRight, AttrRestored, LeaderHeld, Counted, Leads, Starting, InHand, Slots
<1>2. Init => EnabledOpen
  BY DEF Init, KernelInit, EnabledOpen
<1>3. IInv /\ EnabledOpen /\ [Next]_vars => EnabledOpen'
  BY EnabledOpenStep
  DEF Next, vars, kernelVars, EnabledOpen, OpenFds
<1>4. IInv /\ GroupsApart /\ EnabledOpen /\ AloneInv /\ [Next]_vars => AloneInv'
  <2> SUFFICES ASSUME IInv, GroupsApart, EnabledOpen, AloneInv, [Next]_vars
               PROVE  AloneInv'
    OBVIOUS
  <2>1. CASE UNCHANGED vars
    BY <2>1 DEF vars, callVars, kernelVars, Alone, AttrRight, AttrRestored, LeaderHeld, Counted,
                Leads, Uses, LeadEvent, InHand, Waits
  <2>2. ASSUME NEW d \in Callers, Step(d) \/ Call(d) PROVE AloneInv'
    BY <2>2, AloneStep, AttrRightStep, LeaderHeldStep, CountedStep
  <2> QED
    BY <2>1, <2>2 DEF Next
<1> QED
  BY <1>1, <1>2, <1>3, <1>4, Invariance, ApartInvariance, PTL DEF Spec

\* Only while a call leads a group with it, or after such a call has failed, does
\* a PerfEvent have the Disabled bit: an ActivateGroup that succeeds writes back
\* the Attr it has saved, which is the original one (event.go:263 and 300).
THEOREM AttrIsRestored ==
  ASSUME Exclusive
  PROVE  Spec => []AttrRestored
<1>1. AloneInv => AttrRestored
  BY DEF AloneInv, AttrRight
<1> QED
  BY <1>1, AloneInvariance, PTL

\* While the members of a group are opened their leader does not count, so that
\* all begin at once (event.go:264-293).
THEOREM LeadersWait ==
  ASSUME Exclusive
  PROVE  Spec => []LeaderWaits
<1>1. AloneInv => LeaderWaits
  BY DEF AloneInv, LeaderHeld, LeaderWaits
<1> QED
  BY <1>1, AloneInvariance, PTL

\* Every counter that a client gets from an activator counts, but for those
\* that wait for exec, those of a PerfEvent that an earlier failure has left
\* disabled and the members that repeat their leader's PerfEvent (event.go:125,
\* 227 and 253).
THEOREM ResultsCount ==
  ASSUME Exclusive
  PROVE  Spec => []ResultCounts
<1>1. IInv /\ Held /\ AloneInv => ResultCounts
  <2> SUFFICES ASSUME IInv, Held, Counted, NEW c \in Callers, NEW i \in Slots,
                      held[c], i <= opened[c], fd[c][i] # NoFd
               PROVE  \/ fd[c][i] \in enabled
                      \/ /\ ~(op[c] = "group" /\ i = 1)
                         /\ \/ events[c][i].onExec
                            \/ events[c][i].event \in spoiled
                            \/ op[c] = "group" /\ i > 1 /\ events[c][i].event = events[c][1].event
    BY DEF AloneInv, ResultCounts
  <2>1. pc[c] \in {"idle", "closing"}
    BY DEF Held, IInv, TypeOK
  <2>2. InHand(c, i) /\ i \in Nat /\ i >= 1
    BY <2>1 DEF InHand, Slots
  <2>3. CASE op[c] = "group" /\ i = 1
    BY <2>1, <2>2, <2>3 DEF Counted
  <2>4. CASE ~(op[c] = "group" /\ i = 1)
    <3>1. fd[c][i] \in enabled \/ Waits(c, i)
      BY <2>2, <2>4 DEF Counted
    <3> QED
      BY <2>2, <2>4, <3>1 DEF Waits, LeadEvent
  <2> QED
    BY <2>3, <2>4
<1> QED
  BY <1>1, AloneInvariance, Invariance, HeldInvariance, PTL
=============================================================================
