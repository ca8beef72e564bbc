-------------------------- MODULE Activation_proofs -------------------------
(***************************************************************************)
(* Proofs about Activation for any callers, PerfEvents, descriptor limit   *)
(* and faults: type correctness, that ActiveEvents keep to their own       *)
(* counters, and that no open counter is lost.  Then, for any faults but   *)
(* those of the ioctls on a group's leader, that Activation implements     *)
(* CounterSessions; and that no goroutine disturbs another's counters,     *)
(* whatever fails.                                                         *)
(***************************************************************************)
EXTENDS Activation, SequenceTheorems, TLAPS

USE KernelAssumption, ActivationAssumption

-----------------------------------------------------------------------------
\* -1 is no descriptor, and no ActiveEvent is Free or Orphan.
LEMMA Distinct ==
  /\ NoFd \notin Fds
  /\ \A c \in Callers, i \in Slots : <<c, i>> # Free /\ <<c, i>> # Orphan
BY DEF NoFd, Fds, Handles

\* The lists a caller may pass are sequences of at most MaxEvents events.
LEMMA ListFacts ==
  ASSUME NEW list \in EventLists
  PROVE  /\ list \in Seq(CustomizableEvent)
         /\ Len(list) \in 0 .. MaxEvents
         /\ DOMAIN list = 1 .. Len(list)
         /\ \A i \in 1 .. Len(list) : list[i] \in CustomizableEvent
<1>1. PICK n \in 0 .. MaxEvents : list \in [1 .. n -> CustomizableEvent]
  BY DEF EventLists
<1>2. list \in Seq(CustomizableEvent) /\ Len(list) = n
  BY <1>1
<1> QED
  BY <1>1, <1>2

\* Lists of one event, and of one event on n placements.
LEMMA SingleList ==
  ASSUME NEW e \in CustomizableEvent
  PROVE  <<e>> \in EventLists /\ Len(<<e>>) = 1
<1>1. <<e>> \in [1 .. 1 -> CustomizableEvent]
  OBVIOUS
<1> QED
  BY <1>1 DEF EventLists

\* One event on n placements is a list that may be passed.
LEMMA RepeatedList ==
  ASSUME NEW e \in CustomizableEvent, NEW n \in 0 .. MaxEvents
  PROVE  [i \in 1 .. n |-> e] \in EventLists /\ Len([i \in 1 .. n |-> e]) = n
<1>1. [i \in 1 .. n |-> e] \in [1 .. n -> CustomizableEvent]
  OBVIOUS
<1>2. [i \in 1 .. n |-> e] \in EventLists
  BY <1>1 DEF EventLists
<1>3. Len([i \in 1 .. n |-> e]) = n
  OBVIOUS
<1> QED
  BY <1>2, <1>3
-----------------------------------------------------------------------------
\* What Current names when a call has an event left to activate.
LEMMA CurrentEvent ==
  ASSUME IInv, NEW c \in Callers, pc[c] \in {"prepare", "open"}
  PROVE  /\ opened[c] + 1 \in Slots
         /\ opened[c] + 1 \in 1 .. Len(events[c])
         /\ Current(c) \in CustomizableEvent
<1>1. events[c] \in EventLists /\ opened[c] \in 0 .. MaxEvents /\ opened[c] < Len(events[c])
  BY DEF IInv, TypeOK, Shape
<1> QED
  BY <1>1, ListFacts DEF Current, Slots

\* A group has a leader, and its PerfEvent is one of PerfEvents.
LEMMA Leader ==
  ASSUME IInv, NEW c \in Callers, op[c] = "group"
  PROVE  /\ Len(events[c]) \in 1 .. MaxEvents
         /\ events[c][1].event \in PerfEvents
<1>1. events[c] \in EventLists /\ Len(events[c]) > 0
  BY DEF IInv, TypeOK, Shape
<1>2. events[c][1] \in CustomizableEvent /\ Len(events[c]) \in 1 .. MaxEvents
  BY <1>1, ListFacts
<1> QED
  BY <1>2 DEF CustomizableEvent

\* The kernel's part of the type invariant, for each system call.
LEMMA KernelTypes ==
  ASSUME KernelTypeOK, NEW c \in Callers
  PROVE  /\ \A f, i, d, g : /\ i \in Slots
                           /\ g \in Fds \cup {NoFd}
                           /\ PerfEventOpen(f, <<c, i>>, d, g) => KernelTypeOK' /\ f \in Fds
         /\ \A f : Close(f) => KernelTypeOK'
         /\ \A f : IoctlEnable(f) => KernelTypeOK'
         /\ Forget(c) => KernelTypeOK'
<1> USE DEF KernelTypeOK, OpenFds, Handles
<1>1. ASSUME NEW f, NEW i \in Slots, NEW d, NEW g \in Fds \cup {NoFd},
             PerfEventOpen(f, <<c, i>>, d, g)
      PROVE  KernelTypeOK' /\ f \in Fds
  BY <1>1 DEF PerfEventOpen, LowestFree
<1>2. ASSUME NEW f, Close(f) PROVE KernelTypeOK'
  BY <1>2 DEF Close
<1>3. ASSUME NEW f, IoctlEnable(f) PROVE KernelTypeOK'
  BY <1>3 DEF IoctlEnable
<1>4. ASSUME Forget(c) PROVE KernelTypeOK'
  BY <1>4 DEF Forget
<1> QED
  BY <1>1, <1>2, <1>3, <1>4

\* An ActiveEvent in hand that is not closed has its counter open.
LEMMA InHandOpen ==
  ASSUME IInv, NEW c \in Callers, NEW i \in Slots, InHand(c, i), fd[c][i] # NoFd
  PROVE  fd[c][i] \in OpenFds /\ table[fd[c][i]] = <<c, i>>
<1>1. table[fd[c][i]] = <<c, i>>
  BY DEF IInv, OwnDescriptor
<1>2. fd[c][i] \in Fds
  BY DEF IInv, TypeOK
<1>3. <<c, i>> # Free
  BY Distinct
<1> QED
  BY <1>1, <1>2, <1>3 DEF OpenFds
-----------------------------------------------------------------------------

\* Each step of a call in progress keeps the invariant; ActivateGroup first
\* sets its leader's Disabled bit.
LEMMA SetDisableInv ==
  ASSUME IInv, NEW c \in Callers, SetDisable(c)
  PROVE  IInv'
<1> USE DEF IInv, SetDisable
<1>a. op[c] = "group" /\ events[c][1].event \in PerfEvents
  BY Leader DEF TypeOK, Shape
<1>1. TypeOK'
  BY <1>a, Leader DEF TypeOK, KernelTypeOK, Starting, kernelVars
<1>2. Shape'
  BY <1>a, Leader DEF TypeOK, Shape, Starting
<1>3. HoldsWhatItOpened'
  BY <1>a, Leader DEF TypeOK, Shape, HoldsWhatItOpened, InHand, Slots, Starting
<1>4. OwnDescriptor'
  BY <1>a, Leader DEF TypeOK, HoldsWhatItOpened, OwnDescriptor, InHand, Slots, kernelVars
<1>5. Owned'
  BY <1>a, Leader DEF TypeOK, HoldsWhatItOpened, Owned, InHand, Slots, kernelVars
<1>6. RefusedEmpty'
  BY <1>a, Leader DEF TypeOK, RefusedEmpty, kernelVars
<1> QED
  BY <1>1, <1>2, <1>3, <1>4, <1>5, <1>6

\* Attr is copied and completed.
LEMMA PrepareInv ==
  ASSUME IInv, NEW c \in Callers, Prepare(c)
  PROVE  IInv'
<1> USE DEF IInv, Prepare
<1>a. Current(c).event \in PerfEvents /\ Current(c).onExec \in BOOLEAN
  BY CurrentEvent DEF CustomizableEvent
<1>b. (disabled[Current(c).event] \/ Current(c).onExec) \in BOOLEAN
  OBVIOUS
<1>1. TypeOK'
  BY <1>a, <1>b DEF TypeOK, KernelTypeOK, Starting, kernelVars
<1>2. Shape'
  BY <1>a DEF TypeOK, Shape, Starting
<1>3. HoldsWhatItOpened'
  BY <1>a DEF TypeOK, Shape, HoldsWhatItOpened, InHand, Slots, Starting
<1>4. OwnDescriptor'
  BY <1>a DEF TypeOK, HoldsWhatItOpened, OwnDescriptor, InHand, Slots, kernelVars
<1>5. Owned'
  BY <1>a DEF TypeOK, HoldsWhatItOpened, Owned, InHand, Slots, kernelVars
<1>6. RefusedEmpty'
  BY <1>a DEF TypeOK, RefusedEmpty, kernelVars
<1> QED
  BY <1>1, <1>2, <1>3, <1>4, <1>5, <1>6

\* The event's configuration is refused.
LEMMA PrepareFailsInv ==
  ASSUME IInv, NEW c \in Callers, PrepareFails(c)
  PROVE  IInv'
<1> USE DEF IInv, PrepareFails, Abandon
<1>1. TypeOK'
  BY DEF TypeOK, KernelTypeOK, Starting, kernelVars
<1>2. Shape'
  BY DEF TypeOK, Shape, Starting
<1>3. HoldsWhatItOpened'
  BY DEF TypeOK, Shape, HoldsWhatItOpened, InHand, Slots, Starting
<1>4. OwnDescriptor'
  BY DEF TypeOK, HoldsWhatItOpened, OwnDescriptor, InHand, Slots, kernelVars
<1>5. Owned'
  BY DEF TypeOK, HoldsWhatItOpened, Owned, InHand, Slots, kernelVars
<1>6. RefusedEmpty'
  BY DEF TypeOK, RefusedEmpty, kernelVars
<1> QED
  BY <1>1, <1>2, <1>3, <1>4, <1>5, <1>6

\* A new counter gets a descriptor that nothing else names.
LEMMA OpenInv ==
  ASSUME IInv, NEW c \in Callers, Open(c)
  PROVE  IInv'
<1> USE DEF IInv, Open
<1>a. opened[c] + 1 \in Slots /\ opened[c] + 1 \in 1 .. Len(events[c])
  BY CurrentEvent
<1>b. GroupFd(c) \in Fds \cup {NoFd}
  BY DEF GroupFd, TypeOK, Slots
<1>c. PICK f \in Fds : /\ PerfEventOpen(f, <<c, opened[c] + 1>>, attr[c], GroupFd(c))
                      /\ fd' = [fd EXCEPT ![c][opened[c] + 1] = f]
  OBVIOUS
<1>d. table' = [table EXCEPT ![f] = <<c, opened[c] + 1>>] /\ table[f] = Free
  BY <1>c DEF PerfEventOpen, LowestFree, OpenFds
<1>e. KernelTypeOK'
  BY <1>a, <1>b, <1>c, KernelTypes DEF TypeOK
<1>f. /\ opened' = [opened EXCEPT ![c] = opened[c] + 1]
      /\ pc' = [pc EXCEPT ![c] = AfterOpen(c, opened[c] + 1)]
      /\ AfterOpen(c, opened[c] + 1) \in {"prepare", "reset", "return"}
      /\ next' = next
  BY DEF AfterOpen
<1>1. TypeOK'
  BY <1>a, <1>c, <1>e, <1>f DEF TypeOK, Starting, Slots
<1>2. Shape'
  BY <1>a DEF TypeOK, Shape, Starting, AfterOpen
<1>3. HoldsWhatItOpened'
  BY <1>a, <1>c, <1>d, <1>f, Distinct DEF TypeOK, Shape, HoldsWhatItOpened, InHand, Slots, Starting
<1>4. OwnDescriptor'
  <2> SUFFICES ASSUME NEW d \in Callers, NEW j \in Slots, InHand(d, j)', fd'[d][j] # NoFd
               PROVE  table'[fd'[d][j]] = <<d, j>>
    BY DEF OwnDescriptor
  <2>1. CASE d = c /\ j = opened[c] + 1
    BY <1>a, <1>c, <1>d, <2>1 DEF TypeOK, KernelTypeOK
  <2>2. CASE ~(d = c /\ j = opened[c] + 1)
    <3>1. InHand(d, j) /\ fd'[d][j] = fd[d][j]
      BY <1>a, <1>c, <1>f, <2>2 DEF TypeOK, InHand, Slots
    <3>2. table[fd[d][j]] = <<d, j>> /\ fd[d][j] \in Fds /\ fd[d][j] # f
      BY <1>d, <3>1, InHandOpen, Distinct DEF OpenFds
    <3> QED
      BY <1>d, <3>1, <3>2
  <2> QED
    BY <2>1, <2>2
<1>5. Owned'
  <2> SUFFICES ASSUME NEW d \in Callers, NEW j \in Slots, NEW g \in Fds, table'[g] = <<d, j>>
               PROVE  InHand(d, j)' /\ fd'[d][j] = g
    BY DEF Owned
  <2>1. CASE g = f
    <3>1. d = c /\ j = opened[c] + 1
      BY <1>d, <2>1 DEF TypeOK, KernelTypeOK
    <3> QED
      BY <1>a, <1>c, <1>f, <2>1, <3>1 DEF TypeOK, InHand, Slots
  <2>2. CASE g # f
    <3>1. InHand(d, j) /\ fd[d][j] = g
      BY <1>d, <2>2 DEF TypeOK, KernelTypeOK, Owned
    <3> QED
      BY <1>a, <1>c, <1>f, <2>2, <3>1, Distinct DEF TypeOK, HoldsWhatItOpened, InHand, Slots
  <2> QED
    BY <2>1, <2>2
<1>6. RefusedEmpty'
  BY <1>a, <1>c, <1>d, <1>f, Distinct DEF TypeOK, RefusedEmpty, kernelVars
<1> QED
  BY <1>1, <1>2, <1>3, <1>4, <1>5, <1>6

\* The kernel refuses the counter.
LEMMA OpenFailsInv ==
  ASSUME IInv, NEW c \in Callers, OpenFails(c)
  PROVE  IInv'
<1> USE DEF IInv, OpenFails, Abandon
<1>1. TypeOK'
  BY DEF TypeOK, KernelTypeOK, Starting, kernelVars
<1>2. Shape'
  BY DEF TypeOK, Shape, Starting
<1>3. HoldsWhatItOpened'
  BY DEF TypeOK, Shape, HoldsWhatItOpened, InHand, Slots, Starting
<1>4. OwnDescriptor'
  BY DEF TypeOK, HoldsWhatItOpened, OwnDescriptor, InHand, Slots, kernelVars
<1>5. Owned'
  BY DEF TypeOK, HoldsWhatItOpened, Owned, InHand, Slots, kernelVars
<1>6. RefusedEmpty'
  BY DEF TypeOK, RefusedEmpty, kernelVars
<1> QED
  BY <1>1, <1>2, <1>3, <1>4, <1>5, <1>6

\* A round of a failed call's closing loop.
LEMMA UndoInv ==
  ASSUME IInv, NEW c \in Callers, Undo(c)
  PROVE  IInv'
<1> USE DEF IInv, Undo
<1>a. next[c] \in Slots /\ next[c] + 1 \in 1 .. (MaxEvents + 1) /\ InHand(c, next[c])
  BY DEF TypeOK, Slots, InHand
<1>b. KernelTypeOK' /\ Free # Orphan
  BY KernelTypes DEF TypeOK, DeactivateFile, KernelTypeOK, kernelVars
<1>c. ASSUME Close(fd[c][next[c]])
      PROVE  /\ fd[c][next[c]] \in Fds
             /\ table[fd[c][next[c]]] = <<c, next[c]>>
             /\ table' = [table EXCEPT ![fd[c][next[c]]] = Free]
  BY <1>a, <1>c, Distinct, InHandOpen DEF Close, OpenFds
<1>d. ASSUME ~Close(fd[c][next[c]])
      PROVE  BadFd(fd[c][next[c]]) /\ table' = table /\ fd' = fd
  BY <1>d DEF DeactivateFile, kernelVars
<1>1. TypeOK'
  BY <1>a, <1>b DEF TypeOK, Starting
<1>2. Shape'
  BY <1>a DEF TypeOK, Shape, Starting
<1>3. HoldsWhatItOpened'
  BY <1>a DEF TypeOK, Shape, HoldsWhatItOpened, InHand, Slots, Starting
<1>4. OwnDescriptor'
  <2> SUFFICES ASSUME NEW d \in Callers, NEW j \in Slots, InHand(d, j)', fd'[d][j] # NoFd
               PROVE  table'[fd'[d][j]] = <<d, j>>
    BY DEF OwnDescriptor
  <2>1. InHand(d, j) /\ fd'[d][j] = fd[d][j] /\ <<d, j>> # <<c, next[c]>>
    BY <1>a DEF TypeOK, InHand, Slots
  <2>2. table[fd[d][j]] = <<d, j>> /\ fd[d][j] \in Fds
    BY <2>1, InHandOpen DEF OpenFds
  <2>3. CASE Close(fd[c][next[c]])
    <3>1. fd[d][j] # fd[c][next[c]]
      BY <1>c, <2>1, <2>2, <2>3
    <3> QED
      BY <1>c, <2>1, <2>2, <2>3, <3>1 DEF TypeOK, KernelTypeOK
  <2>4. CASE ~Close(fd[c][next[c]])
    BY <1>d, <2>1, <2>2, <2>4
  <2> QED
    BY <2>3, <2>4
<1>5. Owned'
  <2> SUFFICES ASSUME NEW d \in Callers, NEW j \in Slots, NEW g \in Fds, table'[g] = <<d, j>>
               PROVE  InHand(d, j)' /\ fd'[d][j] = g
    BY DEF Owned
  <2>1. table[g] = <<d, j>> /\ g # fd[c][next[c]]
    <3>1. CASE Close(fd[c][next[c]])
      BY <1>c, <3>1, Distinct DEF TypeOK, KernelTypeOK
    <3>2. CASE ~Close(fd[c][next[c]])
      BY <1>d, <3>2, Distinct DEF BadFd, OpenFds
    <3> QED
      BY <3>1, <3>2
  <2>2. InHand(d, j) /\ fd[d][j] = g /\ <<d, j>> # <<c, next[c]>>
    BY <2>1 DEF Owned
  <2> QED
    BY <1>a, <2>1, <2>2 DEF TypeOK, InHand, Slots
<1>6. RefusedEmpty'
  <2>1. ASSUME NEW f \in Fds PROVE table'[f] = table[f] \/ table'[f] = Free
    BY <1>c, <1>d DEF TypeOK, KernelTypeOK
  <2> QED
    BY <1>b, <2>1 DEF RefusedEmpty
<1> QED
  BY <1>1, <1>2, <1>3, <1>4, <1>5, <1>6

\* A failed call that has closed everything leaves nothing behind.
LEMMA RefuseInv ==
  ASSUME IInv, NEW c \in Callers, Refuse(c)
  PROVE  IInv'
<1> USE DEF IInv, Refuse, Forget
<1>a. op[c] = "group" => events[c][1].event \in PerfEvents
  BY Leader
<1>b. Len(events[c]) \in Nat
  BY ListFacts DEF TypeOK
<1>c. KernelTypeOK'
  BY KernelTypes DEF TypeOK
<1>d. ASSUME "ioctl" \notin Faults, NEW f \in Fds PROVE table[f] \notin {c} \X Slots
  <2>1. \A i \in Slots : ~InHand(c, i)
    BY <1>d DEF TypeOK, RefusedEmpty, InHand, Slots
  <2> QED
    BY <2>1 DEF Owned
<1>1. TypeOK'
  BY <1>a, <1>c DEF TypeOK, Starting
<1>2. Shape'
  BY <1>b DEF TypeOK, Shape, Starting
<1>3. HoldsWhatItOpened'
  BY <1>a, Distinct DEF TypeOK, Shape, HoldsWhatItOpened, InHand, Slots, Starting
<1>4. OwnDescriptor'
  <2> SUFFICES ASSUME NEW d \in Callers, NEW j \in Slots, InHand(d, j)', fd'[d][j] # NoFd
               PROVE  table'[fd'[d][j]] = <<d, j>>
    BY DEF OwnDescriptor
  <2>1. d # c /\ InHand(d, j) /\ fd'[d][j] = fd[d][j]
    BY DEF TypeOK, InHand, Slots
  <2>2. table[fd[d][j]] = <<d, j>> /\ fd[d][j] \in Fds
    BY <2>1, InHandOpen DEF OpenFds
  <2> QED
    BY <2>1, <2>2
<1>5. Owned'
  <2> SUFFICES ASSUME NEW d \in Callers, NEW j \in Slots, NEW g \in Fds, table'[g] = <<d, j>>
               PROVE  InHand(d, j)' /\ fd'[d][j] = g
    BY DEF Owned
  <2>1. table[g] \notin {c} \X Slots
    BY Distinct
  <2>2. table[g] = <<d, j>>
    BY <2>1
  <2>3. d # c
    BY <2>1, <2>2
  <2>4. InHand(d, j) /\ fd[d][j] = g
    BY <2>2 DEF Owned
  <2> QED
    BY <2>3, <2>4 DEF TypeOK, InHand
<1>6. RefusedEmpty'
  BY <1>d DEF TypeOK, RefusedEmpty
<1> QED
  BY <1>1, <1>2, <1>3, <1>4, <1>5, <1>6

\* The leader is reset.
LEMMA ResetInv ==
  ASSUME IInv, NEW c \in Callers, Reset(c)
  PROVE  IInv'
<1> USE DEF IInv, Reset
<1>1. TypeOK'
  BY DEF TypeOK, KernelTypeOK, Starting, kernelVars
<1>2. Shape'
  BY DEF TypeOK, Shape, Starting
<1>3. HoldsWhatItOpened'
  BY DEF TypeOK, Shape, HoldsWhatItOpened, InHand, Slots, Starting
<1>4. OwnDescriptor'
  BY DEF TypeOK, HoldsWhatItOpened, OwnDescriptor, InHand, Slots, kernelVars
<1>5. Owned'
  BY DEF TypeOK, HoldsWhatItOpened, Owned, InHand, Slots, kernelVars
<1>6. RefusedEmpty'
  BY DEF TypeOK, RefusedEmpty, kernelVars
<1> QED
  BY <1>1, <1>2, <1>3, <1>4, <1>5, <1>6

\* The leader is enabled.
LEMMA EnableInv ==
  ASSUME IInv, NEW c \in Callers, Enable(c)
  PROVE  IInv'
<1> USE DEF IInv, Enable, IoctlEnable
<1>1. TypeOK'
  BY KernelTypes DEF TypeOK, Starting
<1>2. Shape'
  BY DEF TypeOK, Shape, Starting
<1>3. HoldsWhatItOpened'
  BY DEF TypeOK, Shape, HoldsWhatItOpened, InHand, Slots, Starting
<1>4. OwnDescriptor'
  BY DEF TypeOK, HoldsWhatItOpened, OwnDescriptor, InHand, Slots, kernelVars
<1>5. Owned'
  BY DEF TypeOK, HoldsWhatItOpened, Owned, InHand, Slots, kernelVars
<1>6. RefusedEmpty'
  BY DEF TypeOK, RefusedEmpty, kernelVars
<1> QED
  BY <1>1, <1>2, <1>3, <1>4, <1>5, <1>6

\* The ioctls on an open leader fail only under the fault of that name.
LEMMA IoctlFailsInv ==
  ASSUME IInv, NEW c \in Callers, IoctlFails(c)
  PROVE  IInv'
<1> USE DEF IInv, IoctlFails
<1>a. "ioctl" \in Faults
  <2>1. CASE "ioctl" \notin Faults
    <3>1. InHand(c, 1) /\ 1 \in Slots /\ fd[c][1] # NoFd
      BY <2>1, Leader DEF TypeOK, Shape, HoldsWhatItOpened, InHand, Slots, Starting
    <3> QED
      BY <2>1, <3>1, InHandOpen DEF BadFd
  <2> QED
    BY <2>1
<1>1. TypeOK'
  BY <1>a DEF TypeOK, KernelTypeOK, Starting, kernelVars
<1>2. Shape'
  BY <1>a DEF TypeOK, Shape, Starting
<1>3. HoldsWhatItOpened'
  BY <1>a DEF TypeOK, Shape, HoldsWhatItOpened, InHand, Slots, Starting
<1>4. OwnDescriptor'
  BY <1>a DEF TypeOK, HoldsWhatItOpened, OwnDescriptor, InHand, Slots, kernelVars
<1>5. Owned'
  BY <1>a DEF TypeOK, HoldsWhatItOpened, Owned, InHand, Slots, kernelVars
<1>6. RefusedEmpty'
  BY <1>a DEF TypeOK, RefusedEmpty, kernelVars
<1> QED
  BY <1>1, <1>2, <1>3, <1>4, <1>5, <1>6

\* Attr is written back.
LEMMA RestoreInv ==
  ASSUME IInv, NEW c \in Callers, Restore(c)
  PROVE  IInv'
<1> USE DEF IInv, Restore
<1>a. op[c] = "group" /\ events[c][1].event \in PerfEvents
  BY Leader DEF TypeOK, Shape
<1>b. saved[c] \in BOOLEAN
  BY DEF TypeOK
<1>1. TypeOK'
  BY <1>a, <1>b DEF TypeOK, KernelTypeOK, Starting, kernelVars
<1>2. Shape'
  BY <1>a DEF TypeOK, Shape, Starting
<1>3. HoldsWhatItOpened'
  BY <1>a DEF TypeOK, Shape, HoldsWhatItOpened, InHand, Slots, Starting
<1>4. OwnDescriptor'
  BY <1>a DEF TypeOK, HoldsWhatItOpened, OwnDescriptor, InHand, Slots, kernelVars
<1>5. Owned'
  BY <1>a DEF TypeOK, HoldsWhatItOpened, Owned, InHand, Slots, kernelVars
<1>6. RefusedEmpty'
  BY <1>a DEF TypeOK, RefusedEmpty, kernelVars
<1> QED
  BY <1>1, <1>2, <1>3, <1>4, <1>5, <1>6

\* The call returns its result.
LEMMA ReturnInv ==
  ASSUME IInv, NEW c \in Callers, Return(c)
  PROVE  IInv'
<1> USE DEF IInv, Return
<1>1. TypeOK'
  BY DEF TypeOK, KernelTypeOK, Starting, kernelVars
<1>2. Shape'
  BY DEF TypeOK, Shape, Starting
<1>3. HoldsWhatItOpened'
  BY DEF TypeOK, Shape, HoldsWhatItOpened, InHand, Slots, Starting
<1>4. OwnDescriptor'
  BY DEF TypeOK, HoldsWhatItOpened, OwnDescriptor, InHand, Slots, kernelVars
<1>5. Owned'
  BY DEF TypeOK, HoldsWhatItOpened, Owned, InHand, Slots, kernelVars
<1>6. RefusedEmpty'
  BY DEF TypeOK, RefusedEmpty, kernelVars
<1> QED
  BY <1>1, <1>2, <1>3, <1>4, <1>5, <1>6

\* A client closes one ActiveEvent.
LEMMA DeactivateInv ==
  ASSUME IInv, NEW c \in Callers, NEW i \in Slots, Deactivate(c, i)
  PROVE  IInv'
<1> USE DEF IInv, Deactivate
<1>a. /\ fd[c][i] \in Fds
      /\ table[fd[c][i]] = <<c, i>>
      /\ table' = [table EXCEPT ![fd[c][i]] = Free]
  BY Distinct, InHandOpen DEF Close, OpenFds, InHand
<1>b. KernelTypeOK' /\ Free # Orphan
  BY KernelTypes DEF TypeOK
<1>1. TypeOK'
  BY <1>b DEF TypeOK, Starting
<1>2. Shape'
  BY <1>a, <1>b DEF TypeOK, Shape, Starting
<1>3. HoldsWhatItOpened'
  BY <1>a, <1>b DEF TypeOK, Shape, HoldsWhatItOpened, InHand, Slots, Starting
<1>4. OwnDescriptor'
  <2> SUFFICES ASSUME NEW d \in Callers, NEW j \in Slots, InHand(d, j)', fd'[d][j] # NoFd
               PROVE  table'[fd'[d][j]] = <<d, j>>
    BY DEF OwnDescriptor
  <2>1. InHand(d, j) /\ fd'[d][j] = fd[d][j] /\ <<d, j>> # <<c, i>>
    BY DEF TypeOK, InHand, Slots
  <2>2. table[fd[d][j]] = <<d, j>> /\ fd[d][j] \in Fds
    BY <2>1, InHandOpen DEF OpenFds
  <2> QED
    BY <1>a, <2>1, <2>2
<1>5. Owned'
  <2> SUFFICES ASSUME NEW d \in Callers, NEW j \in Slots, NEW g \in Fds, table'[g] = <<d, j>>
               PROVE  InHand(d, j)' /\ fd'[d][j] = g
    BY DEF Owned
  <2>1. g # fd[c][i] /\ table[g] = <<d, j>>
    BY <1>a, Distinct DEF TypeOK, KernelTypeOK
  <2>2. InHand(d, j) /\ fd[d][j] = g
    BY <2>1 DEF Owned
  <2> QED
    BY <2>1, <2>2 DEF TypeOK, InHand
<1>6. RefusedEmpty'
  BY <1>a, <1>b DEF TypeOK, RefusedEmpty, kernelVars
<1> QED
  BY <1>1, <1>2, <1>3, <1>4, <1>5, <1>6

\* A client deactivates a group or a multi event.
LEMMA DeactivateAllInv ==
  ASSUME IInv, NEW c \in Callers, DeactivateAll(c)
  PROVE  IInv'
<1> USE DEF IInv, DeactivateAll
<1>1. TypeOK'
  BY DEF TypeOK, KernelTypeOK, Starting, kernelVars
<1>2. Shape'
  BY DEF TypeOK, Shape, Starting
<1>3. HoldsWhatItOpened'
  BY DEF TypeOK, Shape, HoldsWhatItOpened, InHand, Slots, Starting
<1>4. OwnDescriptor'
  BY DEF TypeOK, HoldsWhatItOpened, OwnDescriptor, InHand, Slots, kernelVars
<1>5. Owned'
  BY DEF TypeOK, HoldsWhatItOpened, Owned, InHand, Slots, kernelVars
<1>6. RefusedEmpty'
  BY DEF TypeOK, RefusedEmpty, kernelVars
<1> QED
  BY <1>1, <1>2, <1>3, <1>4, <1>5, <1>6

\* The loop of that Deactivate, where an event may have been closed before.
LEMMA CloseNextInv ==
  ASSUME IInv, NEW c \in Callers, CloseNext(c)
  PROVE  IInv'
<1> USE DEF IInv, CloseNext
<1>a. next[c] \in Slots /\ next[c] + 1 \in 1 .. (MaxEvents + 1) /\ InHand(c, next[c])
  BY DEF TypeOK, Shape, Starting, Slots, InHand
<1>b. KernelTypeOK' /\ Free # Orphan
  BY KernelTypes DEF TypeOK, DeactivateFile, KernelTypeOK, kernelVars
<1>c. ASSUME Close(fd[c][next[c]])
      PROVE  /\ fd[c][next[c]] \in Fds
             /\ table[fd[c][next[c]]] = <<c, next[c]>>
             /\ table' = [table EXCEPT ![fd[c][next[c]]] = Free]
  BY <1>a, <1>c, Distinct, InHandOpen DEF Close, OpenFds
<1>d. ASSUME ~Close(fd[c][next[c]])
      PROVE  BadFd(fd[c][next[c]]) /\ table' = table /\ fd' = fd
  BY <1>d DEF DeactivateFile, kernelVars
<1>1. TypeOK'
  BY <1>a, <1>b DEF TypeOK, Starting
<1>2. Shape'
  BY <1>a DEF TypeOK, Shape, Starting
<1>3. HoldsWhatItOpened'
  BY <1>a DEF TypeOK, Shape, HoldsWhatItOpened, InHand, Slots, Starting
<1>4. OwnDescriptor'
  <2> SUFFICES ASSUME NEW d \in Callers, NEW j \in Slots, InHand(d, j)', fd'[d][j] # NoFd
               PROVE  table'[fd'[d][j]] = <<d, j>>
    BY DEF OwnDescriptor
  <2>1. InHand(d, j) /\ fd'[d][j] = fd[d][j]
    BY <1>a DEF TypeOK, InHand, Slots
  <2>2. table[fd[d][j]] = <<d, j>> /\ fd[d][j] \in Fds
    BY <2>1, InHandOpen DEF OpenFds
  <2>3. CASE Close(fd[c][next[c]])
    <3>1. <<d, j>> # <<c, next[c]>>
      BY <1>a, <1>c, <2>3, Distinct DEF TypeOK, BadFd, Close
    <3>2. fd[d][j] # fd[c][next[c]]
      BY <1>c, <2>1, <2>2, <2>3, <3>1
    <3> QED
      BY <1>c, <2>1, <2>2, <2>3, <3>2 DEF TypeOK, KernelTypeOK
  <2>4. CASE ~Close(fd[c][next[c]])
    BY <1>d, <2>1, <2>2, <2>4
  <2> QED
    BY <2>3, <2>4
<1>5. Owned'
  <2> SUFFICES ASSUME NEW d \in Callers, NEW j \in Slots, NEW g \in Fds, table'[g] = <<d, j>>
               PROVE  InHand(d, j)' /\ fd'[d][j] = g
    BY DEF Owned
  <2>1. table[g] = <<d, j>> /\ g # fd[c][next[c]]
    <3>1. CASE Close(fd[c][next[c]])
      BY <1>c, <3>1, Distinct DEF TypeOK, KernelTypeOK
    <3>2. CASE ~Close(fd[c][next[c]])
      BY <1>d, <3>2, Distinct DEF BadFd, OpenFds
    <3> QED
      BY <3>1, <3>2
  <2>2. InHand(d, j) /\ fd[d][j] = g /\ <<d, j>> # <<c, next[c]>>
    BY <2>1 DEF Owned
  <2> QED
    BY <1>a, <2>1, <2>2 DEF TypeOK, InHand, Slots
<1>6. RefusedEmpty'
  <2>1. ASSUME NEW f \in Fds PROVE table'[f] = table[f] \/ table'[f] = Free
    BY <1>c, <1>d DEF TypeOK, KernelTypeOK
  <2> QED
    BY <1>b, <2>1 DEF RefusedEmpty
<1> QED
  BY <1>1, <1>2, <1>3, <1>4, <1>5, <1>6

\* That Deactivate returns.
LEMMA AllClosedInv ==
  ASSUME IInv, NEW c \in Callers, AllClosed(c)
  PROVE  IInv'
<1> USE DEF IInv, AllClosed
<1>1. TypeOK'
  BY DEF TypeOK, KernelTypeOK, Starting, kernelVars
<1>2. Shape'
  BY DEF TypeOK, Shape, Starting
<1>3. HoldsWhatItOpened'
  BY DEF TypeOK, Shape, HoldsWhatItOpened, InHand, Slots, Starting
<1>4. OwnDescriptor'
  BY DEF TypeOK, HoldsWhatItOpened, OwnDescriptor, InHand, Slots, kernelVars
<1>5. Owned'
  BY DEF TypeOK, HoldsWhatItOpened, Owned, InHand, Slots, kernelVars
<1>6. RefusedEmpty'
  BY DEF TypeOK, RefusedEmpty, kernelVars
<1> QED
  BY <1>1, <1>2, <1>3, <1>4, <1>5, <1>6

\* Entering a call: what the caller holds is closed, so it has nothing open.
LEMMA BeginInv ==
  ASSUME IInv, NEW c \in Callers, NEW kind \in Ops, NEW list \in EventLists,
         NEW first \in {"disable", "prepare", "return"},
         first = "disable" => kind = "group",
         kind = "group" => first = "disable" /\ Len(list) > 0,
         first = "prepare" => Len(list) > 0,
         Begin(c, kind, list, first),
         saved' \in [Callers -> BOOLEAN]
  PROVE  IInv'
<1> USE DEF IInv, Begin
<1>a. Len(list) \in 0 .. MaxEvents
  BY ListFacts
<1>b. \A i \in Slots : fd[c][i] = NoFd
  BY DEF Released
<1>c. \A i \in Slots, f \in Fds : table[f] # <<c, i>>
  BY <1>b, Distinct DEF Owned
<1>d. KernelTypeOK'
  BY DEF TypeOK, KernelTypeOK, kernelVars
<1>1. TypeOK'
  <2>1. pc' \in [Callers -> {"idle", "closing"} \cup Starting]
    BY DEF TypeOK, Starting
  <2>2. op' \in [Callers -> Ops] /\ events' \in [Callers -> EventLists]
    BY DEF TypeOK
  <2>3. opened' \in [Callers -> 0 .. MaxEvents] /\ slice' \in [Callers -> 0 .. MaxEvents]
    <3>1. 0 \in 0 .. MaxEvents
      BY KernelAssumption
    <3> QED
      BY <3>1 DEF TypeOK
  <2>4. held' \in [Callers -> BOOLEAN]
    BY DEF TypeOK
  <2>5. UNCHANGED <<disabled, fd, attr, next, spoiled>>
    OBVIOUS
  <2> QED
    BY <1>d, <2>1, <2>2, <2>3, <2>4, <2>5 DEF TypeOK
<1>2. Shape'
  BY <1>a DEF TypeOK, Shape, Starting
<1>3. HoldsWhatItOpened'
  BY <1>b DEF TypeOK, HoldsWhatItOpened, InHand, Slots, Starting
<1>4. OwnDescriptor'
  BY <1>b DEF TypeOK, OwnDescriptor, InHand, Slots, kernelVars
<1>5. Owned'
  BY <1>c DEF TypeOK, Owned, InHand, kernelVars
<1>6. RefusedEmpty'
  BY DEF TypeOK, RefusedEmpty, kernelVars
<1> QED
  BY <1>1, <1>2, <1>3, <1>4, <1>5, <1>6

\* A call of Activate: one event, nothing saved.
LEMMA ActivateInv ==
  ASSUME IInv, NEW c \in Callers, Activate(c)
  PROVE  IInv'
<1>1. PICK e \in CustomizableEvent : Begin(c, "activate", <<e>>, "prepare")
  BY DEF Activate
<1>2. saved' \in [Callers -> BOOLEAN]
  BY DEF Activate, IInv, TypeOK
<1> QED
  BY <1>1, <1>2, SingleList, BeginInv DEF Ops

\* A call of ActivateMulti: one event on n placements, none included.
LEMMA ActivateMultiInv ==
  ASSUME IInv, NEW c \in Callers, ActivateMulti(c)
  PROVE  IInv'
<1>1. PICK e \in CustomizableEvent, n \in 0 .. MaxEvents :
        Begin(c, "multi", [i \in 1 .. n |-> e], IF n = 0 THEN "return" ELSE "prepare")
  BY DEF ActivateMulti
<1>2. saved' \in [Callers -> BOOLEAN]
  BY DEF ActivateMulti, IInv, TypeOK
<1>3. [i \in 1 .. n |-> e] \in EventLists /\ Len([i \in 1 .. n |-> e]) = n
  BY RepeatedList
<1>4. CASE n = 0
  BY <1>1, <1>2, <1>3, <1>4, BeginInv DEF Ops
<1>5. CASE n > 0
  BY <1>1, <1>2, <1>3, <1>5, BeginInv DEF Ops
<1> QED
  BY <1>4, <1>5

\* A call of ActivateGroup: a list that is not empty, the leader's bit saved.
LEMMA ActivateGroupInv ==
  ASSUME IInv, NEW c \in Callers, ActivateGroup(c)
  PROVE  IInv'
<1>1. PICK list \in EventLists \ {<<>>} :
        /\ Begin(c, "group", list, "disable")
        /\ saved' = [saved EXCEPT ![c] = disabled[list[1].event]]
  BY DEF ActivateGroup
<1>2. Len(list) \in Nat \ {0} /\ list[1] \in CustomizableEvent
  BY ListFacts, EmptySeq
<1>3. disabled[list[1].event] \in BOOLEAN
  BY <1>2 DEF CustomizableEvent, IInv, TypeOK
<1>4. saved' \in [Callers -> BOOLEAN]
  BY <1>1, <1>3 DEF IInv, TypeOK
<1> QED
  BY <1>1, <1>2, <1>4, BeginInv DEF Ops
-----------------------------------------------------------------------------
\* The invariant holds when nothing has been activated yet.
LEMMA InitInv == Init => IInv
<1> SUFFICES ASSUME Init PROVE IInv
  OBVIOUS
<1> USE DEF Init, KernelInit
<1>1. <<>> \in EventLists /\ Len(<<>>) = 0
  <2>1. <<>> \in [1 .. 0 -> CustomizableEvent] /\ 0 \in 0 .. MaxEvents
    OBVIOUS
  <2> QED
    BY <2>1 DEF EventLists
<1>2. TypeOK
  BY <1>1 DEF TypeOK, KernelTypeOK, Ops
<1>3. Shape
  <2> SUFFICES ASSUME NEW c \in Callers
               PROVE  Shape!(c)
    BY DEF Shape
  <2>1. pc[c] = "idle" /\ op[c] = "activate" /\ opened[c] = 0 /\ slice[c] = 0 /\ events[c] = <<>>
    OBVIOUS
  <2>2. opened[c] <= Len(events[c]) /\ slice[c] <= opened[c]
    BY <1>1, <2>1
  <2> QED
    BY <2>1, <2>2 DEF Starting
<1>4. HoldsWhatItOpened /\ OwnDescriptor
  BY DEF HoldsWhatItOpened, OwnDescriptor, InHand, Starting
<1>5. Owned
  BY Distinct DEF Owned
<1>6. RefusedEmpty
  BY DEF RefusedEmpty
<1> QED
  BY <1>2, <1>3, <1>4, <1>5, <1>6 DEF IInv

\* Every step of every caller preserves the invariant.
LEMMA NextInv == IInv /\ [Next]_vars => IInv'
<1> SUFFICES ASSUME IInv, [Next]_vars PROVE IInv'
  OBVIOUS
<1>1. ASSUME NEW c \in Callers, Step(c) PROVE IInv'
  BY <1>1, SetDisableInv, PrepareInv, PrepareFailsInv, OpenInv, OpenFailsInv, UndoInv,
     RefuseInv, ResetInv, EnableInv, IoctlFailsInv, RestoreInv, ReturnInv, CloseNextInv,
     AllClosedInv DEF Step
<1>2. ASSUME NEW c \in Callers, Call(c) PROVE IInv'
  BY <1>2, ActivateInv, ActivateMultiInv, ActivateGroupInv, DeactivateInv, DeactivateAllInv
     DEF Call
<1>3. CASE UNCHANGED vars
  BY <1>3 DEF vars, callVars, kernelVars, IInv, TypeOK, KernelTypeOK, Shape, HoldsWhatItOpened,
              OwnDescriptor, Owned, RefusedEmpty, InHand, OpenFds
<1> QED
  BY <1>1, <1>2, <1>3 DEF Next

\* The invariant holds throughout, for any number of callers and events.
THEOREM Invariance == Spec => []IInv
BY InitInv, NextInv, PTL DEF Spec

\* Type correctness of the model (event.go, groups.go and the descriptor table).
THEOREM TypeCorrect == Spec => []TypeOK
<1>1. IInv => TypeOK
  BY DEF IInv
<1> QED
  BY <1>1, Invariance, PTL

\* An ActiveEvent that has a FileDescriptor has the descriptor its own
\* activation opened, whatever numbers the kernel recycles and whatever the
\* other callers open and close in between.
THEOREM DescriptorsAreOwn == Spec => []OwnDescriptor
<1>1. IInv => OwnDescriptor
  BY DEF IInv
<1> QED
  BY <1>1, Invariance, PTL

\* If the ioctls on a group's leader do not fail, no activation loses a
\* counter: whatever else fails, every open one can still be closed.
THEOREM NothingLeaks ==
  ASSUME "ioctl" \notin Faults
  PROVE  Spec => []Accounted
<1>1. ASSUME IInv PROVE Accounted
  <2> SUFFICES ASSUME NEW f \in OpenFds
               PROVE  \E c \in Callers, i \in Slots :
                        InHand(c, i) /\ fd[c][i] = f /\ table[f] = <<c, i>>
    BY DEF Accounted
  <2>1. f \in Fds /\ table[f] \in Handles
    BY <1>1 DEF OpenFds, IInv, TypeOK, KernelTypeOK, RefusedEmpty
  <2>2. PICK c \in Callers, i \in Slots : table[f] = <<c, i>>
    BY <2>1 DEF Handles
  <2>3. InHand(c, i) /\ fd[c][i] = f
    BY <1>1, <2>1, <2>2 DEF IInv, Owned
  <2> QED
    BY <2>2, <2>3
<1> QED
  BY <1>1, Invariance, PTL
-----------------------------------------------------------------------------
\* Who holds a result, and how far a call is that returns one.
Held ==
  \A c \in Callers :
    /\ pc[c] \in Starting => ~held[c]
    /\ slice[c] > 0 \/ pc[c] = "closing" => held[c]
    /\ pc[c] = "return" => opened[c] = Len(events[c])

\* No call has been made yet.
LEMMA HeldInit == Init => Held
<1> SUFFICES ASSUME Init, NEW c \in Callers
             PROVE  Held!(c)
  BY DEF Held
<1>1. pc[c] = "idle" /\ slice[c] = 0
  BY DEF Init
<1> QED
  BY <1>1 DEF Starting

\* A call starts with nothing held; one that returns at once asks for nothing.
LEMMA HeldBegin ==
  ASSUME IInv, Held, NEW c \in Callers, NEW kind \in Ops, NEW list \in EventLists,
         NEW first \in {"disable", "prepare", "return"},
         first = "return" => Len(list) = 0,
         Begin(c, kind, list, first)
  PROVE  Held'
BY DEF IInv, TypeOK, Held, Begin, Starting

\* So it is after any step of a call.
LEMMA HeldStep ==
  ASSUME IInv, Held, NEW c \in Callers, Step(c)
  PROVE  Held'
<1> USE DEF IInv, TypeOK, Held, Starting
<1>1. CASE SetDisable(c) \/ Prepare(c) \/ Reset(c) \/ Enable(c) \/ IoctlFails(c)
  BY <1>1 DEF SetDisable, Prepare, Reset, Enable, IoctlFails
<1>2. CASE Open(c)
  <2>1. opened[c] + 1 \in 1 .. Len(events[c])
    BY <1>2, CurrentEvent DEF Open
  <2> QED
    BY <1>2, <2>1 DEF Open, AfterOpen
<1>3. CASE PrepareFails(c) \/ OpenFails(c)
  BY <1>3 DEF PrepareFails, OpenFails, Abandon
<1>4. CASE Undo(c) \/ Refuse(c)
  BY <1>4 DEF Undo, Refuse
<1>5. CASE Restore(c)
  BY <1>5 DEF Restore, Shape
<1>6. CASE Return(c)
  BY <1>6 DEF Return
<1>7. CASE CloseNext(c) \/ AllClosed(c)
  BY <1>7 DEF CloseNext, AllClosed
<1> QED
  BY <1>1, <1>2, <1>3, <1>4, <1>5, <1>6, <1>7 DEF Step

\* And after any step of a client.
LEMMA HeldCall ==
  ASSUME IInv, Held, NEW c \in Callers, Call(c)
  PROVE  Held'
<1>1. CASE Activate(c)
  <2>1. PICK e \in CustomizableEvent : Begin(c, "activate", <<e>>, "prepare")
    BY <1>1 DEF Activate
  <2> QED
    BY <2>1, SingleList, HeldBegin DEF Ops
<1>2. CASE ActivateMulti(c)
  <2>1. PICK e \in CustomizableEvent, n \in 0 .. MaxEvents :
          Begin(c, "multi", [i \in 1 .. n |-> e], IF n = 0 THEN "return" ELSE "prepare")
    BY <1>2 DEF ActivateMulti
  <2>2. [i \in 1 .. n |-> e] \in EventLists /\ Len([i \in 1 .. n |-> e]) = n
    BY RepeatedList
  <2>3. CASE n = 0
    BY <2>1, <2>2, <2>3, HeldBegin DEF Ops
  <2>4. CASE n # 0
    BY <2>1, <2>2, <2>4, HeldBegin DEF Ops
  <2> QED
    BY <2>3, <2>4
<1>3. CASE ActivateGroup(c)
  <2>1. PICK list \in EventLists \ {<<>>} : Begin(c, "group", list, "disable")
    BY <1>3 DEF ActivateGroup
  <2> QED
    BY <2>1, HeldBegin DEF Ops
<1>4. CASE \E i \in Slots : Deactivate(c, i)
  BY <1>4 DEF IInv, TypeOK, Held, Starting, Deactivate
<1>5. CASE DeactivateAll(c)
  BY <1>5 DEF IInv, TypeOK, Held, Starting, DeactivateAll
<1> QED
  BY <1>1, <1>2, <1>3, <1>4, <1>5 DEF Call

\* Results are held only between calls.
THEOREM HeldInvariance == Spec => []Held
<1>1. IInv /\ Held /\ [Next]_vars => Held'
  <2> SUFFICES ASSUME IInv, Held, [Next]_vars PROVE Held'
    OBVIOUS
  <2>1. CASE UNCHANGED vars
    BY <2>1 DEF vars, callVars, Held
  <2> QED
    BY <2>1, HeldStep, HeldCall DEF Next
<1> QED
  BY <1>1, HeldInit, Invariance, PTL DEF Spec
-----------------------------------------------------------------------------
\* Opening adds a counter to those of its caller.
LEMMA CountersOpen ==
  ASSUME IInv, NEW c \in Callers, NEW k \in Slots, NEW f \in Fds, table[f] = Free,
         table' = [table EXCEPT ![f] = <<c, k>>], k > opened[c]
  PROVE  /\ counters' = [counters EXCEPT ![c] = counters[c] \cup {k}]
         /\ k \notin counters[c]
<1>1. table \in [Fds -> Handles \cup {Free, Orphan}]
  BY DEF IInv, TypeOK, KernelTypeOK
<1>2. \A d \in Callers, i \in Slots : table[f] # <<d, i>>
  BY Distinct
<1>3. k \notin counters[c]
  <2>1. ~InHand(c, k)
    BY DEF InHand, IInv, TypeOK, Slots
  <2> QED
    BY <2>1 DEF counters, IInv, Owned
<1>4. \A d \in Callers, i \in Slots :
        (\E g \in Fds : table'[g] = <<d, i>>) <=>
          ((\E g \in Fds : table[g] = <<d, i>>) \/ (d = c /\ i = k))
  BY <1>1, <1>2
<1>5. \A d \in Callers : counters'[d] = IF d = c THEN counters[c] \cup {k} ELSE counters[d]
  <2> TAKE d \in Callers
  <2>1. /\ counters[d] = {i \in Slots : \E g \in Fds : table[g] = <<d, i>>}
        /\ counters'[d] = {i \in Slots : \E g \in Fds : table'[g] = <<d, i>>}
    BY DEF counters
  <2>2. CASE d = c
    <3>1. \A i \in Slots : i \in counters'[d] <=> (i \in counters[d] \/ i = k)
      BY <1>4, <2>1, <2>2
    <3>2. counters[d] \subseteq Slots /\ counters'[d] \subseteq Slots
      BY <2>1
    <3> QED
      BY <2>2, <3>1, <3>2
  <2>3. CASE d # c
    BY <1>4, <2>1, <2>3
  <2> QED
    BY <2>2, <2>3
<1> QED
  BY <1>3, <1>5 DEF counters

\* Closing takes it away.
LEMMA CountersClose ==
  ASSUME IInv, NEW c \in Callers, NEW k \in Slots, NEW f \in Fds, table[f] = <<c, k>>,
         table' = [table EXCEPT ![f] = Free]
  PROVE  /\ counters' = [counters EXCEPT ![c] = counters[c] \ {k}]
         /\ k \in counters[c]
<1>1. table \in [Fds -> Handles \cup {Free, Orphan}]
  BY DEF IInv, TypeOK, KernelTypeOK
<1>2. \A d \in Callers, i \in Slots : Free # <<d, i>>
  BY Distinct
<1>3. \A g \in Fds : table[g] = <<c, k>> => g = f
  BY DEF IInv, Owned
<1>4. \A d \in Callers, i \in Slots :
        (\E g \in Fds : table'[g] = <<d, i>>) <=>
          ((\E g \in Fds : table[g] = <<d, i>>) /\ ~(d = c /\ i = k))
  BY <1>1, <1>2, <1>3
<1>5. \A d \in Callers : counters'[d] = IF d = c THEN counters[c] \ {k} ELSE counters[d]
  BY <1>4 DEF counters
<1>6. k \in counters[c]
  BY DEF counters
<1> QED
  BY <1>5, <1>6 DEF counters

\* A caller's counters are those that it has in hand and that are not closed.
LEMMA CountersInHand ==
  ASSUME IInv, NEW c \in Callers, NEW k \in Slots
  PROVE  k \in counters[c] <=> InHand(c, k) /\ fd[c][k] # NoFd
<1>1. ASSUME k \in counters[c]
      PROVE  InHand(c, k) /\ fd[c][k] # NoFd
  <2>1. PICK f \in Fds : table[f] = <<c, k>>
    BY <1>1 DEF counters
  <2> QED
    BY <2>1, Distinct DEF IInv, Owned
<1>2. ASSUME InHand(c, k), fd[c][k] # NoFd
      PROVE  k \in counters[c]
  BY <1>2, InHandOpen DEF counters, OpenFds
<1> QED
  BY <1>1, <1>2

\* phase after a step that moves one caller.
LEMMA PhaseOf ==
  ASSUME IInv, NEW c \in Callers, NEW p, NEW h, pc' = [pc EXCEPT ![c] = p],
         held' = [held EXCEPT ![c] = h]
  PROVE  phase' = [phase EXCEPT ![c] = IF p \in Starting THEN "starting"
                                       ELSE IF h THEN "running" ELSE "none"]
<1>1. pc'[c] = p /\ held'[c] = h
  BY DEF IInv, TypeOK
<1>2. \A d \in Callers : d # c => pc'[d] = pc[d] /\ held'[d] = held[d]
  BY DEF IInv, TypeOK
<1> QED
  BY <1>1, <1>2 DEF phase
-----------------------------------------------------------------------------
\* A step of Activation as a session's: what a client asks for.
LEMMA AskMaps ==
  ASSUME IInv, Held, NEW c \in Callers, NEW kind \in Ops, NEW list \in EventLists,
         NEW first \in {"disable", "prepare", "return"},
         Begin(c, kind, list, first)
  PROVE  Sessions!Ask(c)
<1> USE DEF Begin
<1>1. phase[c] # "starting"
  BY DEF phase, Starting
<1>2. counters[c] = {}
  <2>1. \A k \in Slots : k \notin counters[c]
    BY CountersInHand DEF Released
  <2> QED
    BY <2>1 DEF counters
<1>3. phase' = [phase EXCEPT ![c] = "starting"]
  BY PhaseOf DEF Starting
<1>4. wanted' = [wanted EXCEPT ![c] = DOMAIN list]
  BY DEF wanted, IInv, TypeOK
<1>5. DOMAIN list \in SUBSET Slots
  BY ListFacts DEF Slots
<1>6. counters' = counters
  BY DEF counters, kernelVars
<1> QED
  BY <1>1, <1>2, <1>3, <1>4, <1>5, <1>6 DEF Sessions!Ask

\* A step that opens and closes nothing, and neither begins nor ends a call.
LEMMA QuietMaps ==
  ASSUME IInv, NEW c \in Callers, UNCHANGED <<table, events, held>>,
         NEW p, pc' = [pc EXCEPT ![c] = p], p \in Starting <=> pc[c] \in Starting
  PROVE  UNCHANGED Sessions!sessionVars
<1>1. \A d \in Callers : pc'[d] \in Starting <=> pc[d] \in Starting
  BY DEF IInv, TypeOK
<1>2. phase' = phase
  BY <1>1 DEF phase
<1>3. wanted' = wanted /\ counters' = counters
  BY DEF wanted, counters
<1> QED
  BY <1>2, <1>3 DEF Sessions!sessionVars

\* The steps of a call between its beginning and its end.
LEMMA InsideMaps ==
  ASSUME IInv, NEW c \in Callers,
         \/ SetDisable(c) \/ Prepare(c) \/ PrepareFails(c) \/ OpenFails(c)
         \/ Reset(c) \/ Enable(c) \/ IoctlFails(c) \/ Restore(c)
         \/ DeactivateAll(c) \/ AllClosed(c)
  PROVE  UNCHANGED Sessions!sessionVars
<1> USE DEF Starting, kernelVars
<1>1. CASE SetDisable(c) \/ Prepare(c) \/ Reset(c) \/ IoctlFails(c) \/ Restore(c)
  BY <1>1, QuietMaps DEF SetDisable, Prepare, Reset, IoctlFails, Restore
<1>2. CASE Enable(c)
  BY <1>2, QuietMaps DEF Enable, IoctlEnable
<1>3. CASE PrepareFails(c) \/ OpenFails(c)
  BY <1>3, QuietMaps DEF PrepareFails, OpenFails, Abandon
<1>4. CASE DeactivateAll(c) \/ AllClosed(c)
  BY <1>4, QuietMaps DEF DeactivateAll, AllClosed
<1> QED
  BY <1>1, <1>2, <1>3, <1>4

LEMMA OpenMaps ==
  ASSUME IInv, Held, NEW c \in Callers, Open(c)
  PROVE  Sessions!Build(c)
<1> DEFINE k == opened[c] + 1
<1>1. k \in Slots /\ k \in 1 .. Len(events[c]) /\ k > opened[c] /\ events[c] \in EventLists
  BY CurrentEvent DEF Open, IInv, TypeOK
<1>2. k \in wanted[c]
  BY <1>1, ListFacts DEF wanted
<1>3. PICK f \in Fds : PerfEventOpen(f, <<c, k>>, attr[c], GroupFd(c))
  BY DEF Open
<1>4. table[f] = Free /\ table' = [table EXCEPT ![f] = <<c, k>>]
  BY <1>3 DEF PerfEventOpen, LowestFree, OpenFds
<1> HIDE DEF k
<1>5. counters' = [counters EXCEPT ![c] = counters[c] \cup {k}] /\ k \notin counters[c]
  BY <1>1, <1>4, CountersOpen
<1>6. phase[c] = "starting"
  BY DEF Open, phase, Starting
<1>7. phase' = phase
  <2>1. AfterOpen(c, opened[c] + 1) \in Starting
    BY DEF AfterOpen, Starting
  <2>2. \A d \in Callers : pc'[d] \in Starting <=> pc[d] \in Starting
    BY <2>1 DEF Open, IInv, TypeOK, Starting
  <2> QED
    BY <2>2 DEF Open, phase
<1>8. wanted' = wanted
  BY DEF Open, wanted
<1> QED
  BY <1>2, <1>5, <1>6, <1>7, <1>8 DEF Sessions!Build

\* A round of a closing loop: one counter less, or nothing.
LEMMA CloseMaps ==
  ASSUME IInv, NEW c \in Callers, NEW k \in Slots, InHand(c, k), DeactivateFile(fd[c][k])
  PROVE  \/ k \in counters[c] /\ counters' = [counters EXCEPT ![c] = counters[c] \ {k}]
         \/ counters' = counters
<1>1. CASE Close(fd[c][k])
  <2>1. /\ fd[c][k] \in Fds /\ table[fd[c][k]] = <<c, k>>
        /\ table' = [table EXCEPT ![fd[c][k]] = Free]
    BY <1>1, Distinct, InHandOpen DEF Close, OpenFds
  <2> QED
    BY <2>1, CountersClose
<1>2. CASE ~Close(fd[c][k])
  BY <1>2 DEF DeactivateFile, counters, kernelVars
<1> QED
  BY <1>1, <1>2

LEMMA UndoMaps ==
  ASSUME IInv, Held, NEW c \in Callers, Undo(c)
  PROVE  Sessions!Build(c) \/ UNCHANGED Sessions!sessionVars
<1>1. next[c] \in Slots /\ InHand(c, next[c])
  BY DEF Undo, IInv, TypeOK, Slots, InHand
<1>2. \/ next[c] \in counters[c] /\ counters' = [counters EXCEPT ![c] = counters[c] \ {next[c]}]
      \/ counters' = counters
  BY <1>1, CloseMaps DEF Undo
<1>3. next[c] \in wanted[c]
  <2>1. opened[c] <= Len(events[c]) /\ events[c] \in EventLists
    BY DEF IInv, Shape, TypeOK
  <2>2. DOMAIN events[c] = 1 .. Len(events[c]) /\ Len(events[c]) \in Nat
    BY <2>1, ListFacts
  <2> QED
    BY <1>1, <2>1, <2>2 DEF wanted, Undo, IInv, TypeOK, Slots
<1>4. phase' = phase /\ wanted' = wanted /\ phase[c] = "starting"
  BY DEF Undo, phase, wanted, Starting
<1> QED
  BY <1>2, <1>3, <1>4 DEF Sessions!Build, Sessions!sessionVars

\* An error leaves nothing: either nothing was opened, or all has been closed.
LEMMA RefuseMaps ==
  ASSUME IInv, Held, "ioctl" \notin Faults, NEW c \in Callers, Refuse(c)
  PROVE  Sessions!Refuse(c)
<1>1. counters[c] = {}
  <2>1. \A k \in Slots : ~InHand(c, k)
    BY DEF Refuse, InHand, IInv, TypeOK, RefusedEmpty, Slots
  <2>2. \A k \in Slots : k \notin counters[c]
    BY <2>1, CountersInHand
  <2> QED
    BY <2>2 DEF counters
<1>2. counters' = counters
  <2>1. \A f \in Fds : table[f] \notin {c} \X Slots
    BY <1>1 DEF counters
  <2>2. table' = table
    BY <2>1 DEF Refuse, Forget, IInv, TypeOK, KernelTypeOK
  <2> QED
    BY <2>2 DEF counters
<1>3. phase[c] = "starting" /\ ~held[c]
  BY DEF Refuse, phase, Starting, Held
<1>4. held' = [held EXCEPT ![c] = FALSE]
  BY <1>3 DEF Refuse, IInv, TypeOK
<1>5. phase' = [phase EXCEPT ![c] = "none"]
  BY <1>4, PhaseOf DEF Refuse, Starting
<1>6. wanted' = wanted
  BY DEF Refuse, wanted
<1> QED
  BY <1>1, <1>2, <1>3, <1>5, <1>6 DEF Sessions!Refuse

\* A result has every counter that was asked for.
LEMMA ReturnMaps ==
  ASSUME IInv, Held, NEW c \in Callers, Return(c)
  PROVE  Sessions!Grant(c)
<1>1. counters[c] = wanted[c]
  <2>1. /\ opened[c] = Len(events[c]) /\ events[c] \in EventLists
        /\ DOMAIN events[c] = 1 .. Len(events[c]) /\ Len(events[c]) \in 0 .. MaxEvents
    BY ListFacts DEF Return, Held, IInv, TypeOK
  <2>2. \A k \in Slots : InHand(c, k) <=> k \in 1 .. Len(events[c])
    BY <2>1 DEF Return, InHand, Slots
  <2>3. \A k \in Slots : InHand(c, k) => fd[c][k] # NoFd
    BY DEF Return, Starting, IInv, HoldsWhatItOpened
  <2>4. \A k \in Slots : k \in counters[c] <=> k \in wanted[c]
    BY <2>1, <2>2, <2>3, CountersInHand DEF wanted
  <2>5. counters[c] \subseteq Slots /\ wanted[c] \subseteq Slots
    BY <2>1 DEF counters, wanted, Slots
  <2> QED
    BY <2>4, <2>5
<1>2. phase[c] = "starting"
  BY DEF Return, phase, Starting
<1>3. phase' = [phase EXCEPT ![c] = "running"]
  BY PhaseOf DEF Return, Starting
<1>4. wanted' = wanted /\ counters' = counters
  BY DEF Return, wanted, counters, kernelVars
<1> QED
  BY <1>1, <1>2, <1>3, <1>4 DEF Sessions!Grant

\* What a client closes stops counting, one by one or in a loop.
LEMMA StopMaps ==
  ASSUME IInv, Held, NEW c \in Callers, CloseNext(c) \/ \E i \in Slots : Deactivate(c, i)
  PROVE  Sessions!Stop(c) \/ UNCHANGED Sessions!sessionVars
<1>1. PICK k \in Slots : InHand(c, k) /\ DeactivateFile(fd[c][k])
  <2>1. CASE CloseNext(c)
    <3>1. next[c] \in Slots /\ InHand(c, next[c])
      BY <2>1 DEF CloseNext, IInv, TypeOK, Shape, Starting, Slots, InHand
    <3> QED
      BY <2>1, <3>1 DEF CloseNext
  <2>2. CASE \E i \in Slots : Deactivate(c, i)
    BY <2>2 DEF Deactivate, InHand, DeactivateFile
  <2> QED
    BY <2>1, <2>2
<1>2. \/ k \in counters[c] /\ counters' = [counters EXCEPT ![c] = counters[c] \ {k}]
      \/ counters' = counters
  BY <1>1, CloseMaps
<1>3. phase[c] = "running"
  BY DEF CloseNext, Deactivate, phase, Starting, Held
<1>4. phase' = phase /\ wanted' = wanted
  BY DEF CloseNext, Deactivate, phase, wanted
<1> QED
  BY <1>2, <1>3, <1>4 DEF Sessions!Stop, Sessions!sessionVars
-----------------------------------------------------------------------------
\* No sessions at first.
LEMMA SessionsInit == Init => Sessions!Init
<1> SUFFICES ASSUME Init PROVE Sessions!Init
  OBVIOUS
<1> USE DEF Init, KernelInit
<1>1. phase = [c \in Callers |-> "none"]
  BY DEF phase, Starting
<1>2. wanted = [c \in Callers |-> {}]
  <2>1. DOMAIN <<>> = {}
    OBVIOUS
  <2>2. \A c \in Callers : events[c] = <<>>
    OBVIOUS
  <2> QED
    BY <2>1, <2>2 DEF wanted
<1>3. counters = [c \in Callers |-> {}]
  <2>1. \A c \in Callers, i \in Slots, f \in Fds : table[f] # <<c, i>>
    BY Distinct
  <2>2. \A c \in Callers : {i \in Slots : \E f \in Fds : table[f] = <<c, i>>} = {}
    BY <2>1
  <2> QED
    BY <2>2 DEF counters
<1> QED
  BY <1>1, <1>2, <1>3 DEF Sessions!Init

\* Every step of Activation is one of a session, or changes none.
LEMMA SessionsStep ==
  ASSUME IInv, Held, "ioctl" \notin Faults, [Next]_vars
  PROVE  [Sessions!Next]_(Sessions!sessionVars)
<1>1. ASSUME NEW c \in Callers, Step(c)
      PROVE  Sessions!Next \/ UNCHANGED Sessions!sessionVars
  <2>1. CASE Open(c) \/ Undo(c)
    BY <2>1, OpenMaps, UndoMaps DEF Sessions!Next
  <2>2. CASE Refuse(c) \/ Return(c)
    BY <2>2, RefuseMaps, ReturnMaps DEF Sessions!Next
  <2>3. CASE CloseNext(c)
    BY <2>3, StopMaps DEF Sessions!Next
  <2>4. CASE ~(Open(c) \/ Undo(c) \/ Refuse(c) \/ Return(c) \/ CloseNext(c))
    BY <1>1, <2>4, InsideMaps DEF Step
  <2> QED
    BY <2>1, <2>2, <2>3, <2>4
<1>2. ASSUME NEW c \in Callers, Call(c)
      PROVE  Sessions!Next \/ UNCHANGED Sessions!sessionVars
  <2>1. CASE Activate(c)
    <3>1. PICK e \in CustomizableEvent : Begin(c, "activate", <<e>>, "prepare")
      BY <2>1 DEF Activate
    <3> QED
      BY <3>1, SingleList, AskMaps DEF Ops, Sessions!Next
  <2>2. CASE ActivateMulti(c)
    <3>1. PICK e \in CustomizableEvent, n \in 0 .. MaxEvents :
            Begin(c, "multi", [i \in 1 .. n |-> e], IF n = 0 THEN "return" ELSE "prepare")
      BY <2>2 DEF ActivateMulti
    <3>2. [i \in 1 .. n |-> e] \in EventLists
      BY RepeatedList
    <3> QED
      BY <3>1, <3>2, AskMaps DEF Ops, Sessions!Next
  <2>3. CASE ActivateGroup(c)
    <3>1. PICK list \in EventLists \ {<<>>} : Begin(c, "group", list, "disable")
      BY <2>3 DEF ActivateGroup
    <3> QED
      BY <3>1, AskMaps DEF Ops, Sessions!Next
  <2>4. CASE \E i \in Slots : Deactivate(c, i)
    BY <2>4, StopMaps DEF Sessions!Next
  <2>5. CASE DeactivateAll(c)
    BY <2>5, InsideMaps
  <2> QED
    BY <1>2, <2>1, <2>2, <2>3, <2>4, <2>5 DEF Call
<1>3. CASE UNCHANGED vars
  BY <1>3 DEF vars, callVars, kernelVars, phase, wanted, counters, Sessions!sessionVars
<1> QED
  BY <1>1, <1>2, <1>3 DEF Next

\* If the ioctls on a group's leader do not fail, an activation yields all the
\* counters that it was asked for or, with an error, none (event.go:227 and
\* 252); a session's counters go only when its client stops them.
THEOREM ActivationImplementsSessions ==
  ASSUME "ioctl" \notin Faults
  PROVE  Spec => SessionsSpec
<1>1. Init => Sessions!Init
  BY SessionsInit
<1>2. IInv /\ Held /\ [Next]_vars => [Sessions!Next]_(Sessions!sessionVars)
  BY SessionsStep
<1> QED
  BY <1>1, <1>2, Invariance, HeldInvariance, PTL DEF Spec, SessionsSpec, Sessions!Spec
-----------------------------------------------------------------------------
\* A counter is in a group of its own or in that of its caller's leader.
GroupsApart ==
  \A c \in Callers, i \in Slots, f \in Fds :
    table[f] = <<c, i>> => group[f] = f \/ \E k \in Slots : table[group[f]] = <<c, k>>

LEMMA KernelQuiet ==
  ASSUME IInv, GroupsApart, UNCHANGED kernelVars
  PROVE  GroupsApart' /\ \A c \in Callers : Untouched(c)
BY DEF GroupsApart, Untouched, kernelVars

\* Closing a counter regroups those of its own caller only.
LEMMA CloseApart ==
  ASSUME IInv, GroupsApart, NEW d \in Callers, NEW k \in Slots, InHand(d, k),
         DeactivateFile(fd[d][k])
  PROVE  GroupsApart' /\ \A c \in Callers \ {d} : Untouched(c)
<1>1. CASE Close(fd[d][k])
  <2> DEFINE g == fd[d][k]
  <2>1. /\ g \in Fds /\ table[g] = <<d, k>>
        /\ table' = [table EXCEPT ![g] = Free]
        /\ enabled' = enabled \ {g}
        /\ group' = [h \in Fds |-> IF group[h] = g THEN h ELSE group[h]]
    BY <1>1, Distinct, InHandOpen DEF Close, OpenFds
  <2>2. table \in [Fds -> Handles \cup {Free, Orphan}] /\ group \in [Fds -> Fds]
    BY DEF IInv, TypeOK, KernelTypeOK
  <2> HIDE DEF g
  <2>3. ASSUME NEW c \in Callers, NEW i \in Slots, NEW f \in Fds, table'[f] = <<c, i>>
        PROVE  group'[f] = f \/ \E j \in Slots : table'[group'[f]] = <<c, j>>
    <3>1. f # g /\ table[f] = <<c, i>>
      BY <2>1, <2>2, <2>3, Distinct
    <3>2. CASE group[f] = g
      BY <2>1, <3>2
    <3>3. CASE group[f] # g
      <4>1. group'[f] = group[f] /\ group[f] \in Fds
        BY <2>1, <2>2, <3>3
      <4>2. table'[group[f]] = table[group[f]]
        BY <2>1, <2>2, <3>3, <4>1
      <4> QED
        BY <3>1, <4>1, <4>2 DEF GroupsApart
    <3> QED
      BY <3>2, <3>3
  <2>4. ASSUME NEW c \in Callers \ {d}, NEW f \in Fds,
               table[f] \in {c} \X Slots \/ table'[f] \in {c} \X Slots
        PROVE  table'[f] = table[f] /\ (f \in enabled' <=> f \in enabled) /\ group'[f] = group[f]
    <3>1. f # g /\ table[f] \in {c} \X Slots
      BY <2>1, <2>2, <2>4, Distinct
    <3>2. PICK i \in Slots : table[f] = <<c, i>>
      BY <3>1
    <3>3. group[f] # g
      BY <2>1, <3>1, <3>2 DEF GroupsApart
    <3> QED
      BY <2>1, <2>2, <3>1, <3>3
  <2> QED
    BY <2>3, <2>4 DEF GroupsApart, Untouched
<1>2. CASE ~Close(fd[d][k])
  BY <1>2, KernelQuiet DEF DeactivateFile
<1> QED
  BY <1>1, <1>2

\* A new counter joins its own caller's leader, or none.
LEMMA OpenApart ==
  ASSUME IInv, GroupsApart, NEW d \in Callers, Open(d)
  PROVE  GroupsApart' /\ \A c \in Callers \ {d} : Untouched(c)
<1>1. opened[d] + 1 \in Slots
  BY CurrentEvent DEF Open
<1>2. PICK g \in Fds : PerfEventOpen(g, <<d, opened[d] + 1>>, attr[d], GroupFd(d))
  BY DEF Open
<1>3. /\ table[g] = Free
      /\ table' = [table EXCEPT ![g] = <<d, opened[d] + 1>>]
      /\ \A f \in Fds \ {g} : f \in enabled' <=> f \in enabled
      /\ group' = [group EXCEPT ![g] = IF GroupFd(d) = NoFd THEN g ELSE GroupFd(d)]
  BY <1>2 DEF PerfEventOpen, LowestFree, OpenFds
<1>4. table \in [Fds -> Handles \cup {Free, Orphan}] /\ group \in [Fds -> Fds]
  BY DEF IInv, TypeOK, KernelTypeOK
<1>5. GroupFd(d) = NoFd \/ (GroupFd(d) \in Fds /\ table[GroupFd(d)] = <<d, 1>>)
  <2>1. 1 \in Slots /\ (opened[d] > 0 => InHand(d, 1))
    BY DEF Open, InHand, IInv, TypeOK, Slots
  <2> QED
    BY <2>1, InHandOpen DEF GroupFd, OpenFds
<1>6. \A c \in Callers, i \in Slots : Free # <<c, i>>
  BY Distinct
<1>7. ASSUME NEW c \in Callers, NEW i \in Slots, NEW f \in Fds, table'[f] = <<c, i>>
      PROVE  group'[f] = f \/ \E j \in Slots : table'[group'[f]] = <<c, j>>
  <2>1. CASE f = g
    <3>1. c = d
      BY <1>3, <1>4, <1>7, <2>1
    <3>2. CASE GroupFd(d) = NoFd
      BY <1>3, <1>4, <2>1, <3>2
    <3>3. CASE GroupFd(d) # NoFd
      <4>1. GroupFd(d) \in Fds /\ GroupFd(d) # g /\ group'[f] = GroupFd(d)
        BY <1>3, <1>4, <1>5, <1>6, <2>1, <3>3, KernelAssumption DEF Slots
      <4>2. table'[GroupFd(d)] = <<d, 1>> /\ 1 \in Slots
        BY <1>3, <1>4, <1>5, <3>3, <4>1, KernelAssumption DEF Slots
      <4> QED
        BY <3>1, <4>1, <4>2
    <3> QED
      BY <3>2, <3>3
  <2>2. CASE f # g
    <3>1. table[f] = <<c, i>> /\ group'[f] = group[f] /\ group[f] \in Fds
      BY <1>3, <1>4, <1>7, <2>2
    <3>2. CASE group[f] = f
      BY <3>1, <3>2
    <3>3. ASSUME NEW j \in Slots, table[group[f]] = <<c, j>>
          PROVE  table'[group[f]] = <<c, j>>
      BY <1>3, <1>4, <1>6, <3>1, <3>3
    <3> QED
      BY <3>1, <3>2, <3>3 DEF GroupsApart
  <2> QED
    BY <2>1, <2>2
<1>8. ASSUME NEW c \in Callers \ {d}, NEW f \in Fds,
             table[f] \in {c} \X Slots \/ table'[f] \in {c} \X Slots
      PROVE  table'[f] = table[f] /\ (f \in enabled' <=> f \in enabled) /\ group'[f] = group[f]
  <2>1. f # g
    BY <1>3, <1>4, <1>6, <1>8
  <2> QED
    BY <1>3, <1>4, <2>1
<1> QED
  BY <1>7, <1>8 DEF GroupsApart, Untouched

\* Counters that a caller can no longer name become orphans together.
LEMMA RefuseApart ==
  ASSUME IInv, GroupsApart, NEW d \in Callers, Refuse(d)
  PROVE  GroupsApart' /\ \A c \in Callers \ {d} : Untouched(c)
<1>1. /\ table' = [f \in Fds |-> IF table[f] \in {d} \X Slots THEN Orphan ELSE table[f]]
      /\ UNCHANGED <<enabled, group>>
  BY DEF Refuse, Forget
<1>2. group \in [Fds -> Fds]
  BY DEF IInv, TypeOK, KernelTypeOK
<1>3. \A c \in Callers, i \in Slots : Orphan # <<c, i>>
  BY Distinct
<1>4. ASSUME NEW c \in Callers, NEW i \in Slots, NEW f \in Fds, table'[f] = <<c, i>>
      PROVE  group'[f] = f \/ \E j \in Slots : table'[group'[f]] = <<c, j>>
  <2>1. table[f] = <<c, i>> /\ c # d
    BY <1>1, <1>3, <1>4
  <2>2. CASE group[f] = f
    BY <1>1, <2>2
  <2>3. ASSUME NEW j \in Slots, table[group[f]] = <<c, j>>
        PROVE  table'[group[f]] = <<c, j>>
    BY <1>1, <1>2, <2>1, <2>3
  <2> QED
    BY <1>1, <2>1, <2>2, <2>3 DEF GroupsApart
<1>5. ASSUME NEW c \in Callers \ {d}, NEW f \in Fds,
             table[f] \in {c} \X Slots \/ table'[f] \in {c} \X Slots
      PROVE  table'[f] = table[f]
  BY <1>1, <1>3, <1>5
<1> QED
  BY <1>1, <1>4, <1>5 DEF GroupsApart, Untouched

\* A leader that is enabled is its caller's own.
LEMMA EnableApart ==
  ASSUME IInv, GroupsApart, NEW d \in Callers, Enable(d)
  PROVE  GroupsApart' /\ \A c \in Callers \ {d} : Untouched(c)
<1>1. /\ fd[d][1] \in OpenFds /\ enabled' = enabled \cup {fd[d][1]}
      /\ UNCHANGED <<table, group>>
  BY DEF Enable, IoctlEnable
<1>2. GroupsApart'
  BY <1>1 DEF GroupsApart
<1>3. table[fd[d][1]] = <<d, 1>>
  <2>1. 1 \in Slots /\ InHand(d, 1) /\ fd[d][1] # NoFd
    BY Leader DEF Enable, IInv, TypeOK, Shape, HoldsWhatItOpened, InHand, Slots, Starting
  <2> QED
    BY <2>1, InHandOpen
<1>4. ASSUME NEW c \in Callers \ {d}, NEW f \in Fds, table[f] \in {c} \X Slots
      PROVE  f # fd[d][1]
  BY <1>3, <1>4
<1> QED
  BY <1>1, <1>2, <1>4 DEF Untouched

\* What a step does to the counters of other callers: nothing.
LEMMA StepApart ==
  ASSUME IInv, GroupsApart, NEW d \in Callers, Step(d) \/ Call(d)
  PROVE  GroupsApart' /\ \A c \in Callers \ {d} : Untouched(c)
<1>1. CASE Open(d)
  BY <1>1, OpenApart
<1>2. CASE Refuse(d)
  BY <1>2, RefuseApart
<1>3. CASE Enable(d)
  BY <1>3, EnableApart
<1>4. CASE Undo(d)
  <2>1. next[d] \in Slots /\ InHand(d, next[d])
    BY <1>4 DEF Undo, IInv, TypeOK, Slots, InHand
  <2> QED
    BY <1>4, <2>1, CloseApart DEF Undo
<1>5. CASE CloseNext(d)
  <2>1. next[d] \in Slots /\ InHand(d, next[d])
    BY <1>5 DEF CloseNext, IInv, TypeOK, Shape, Starting, Slots, InHand
  <2> QED
    BY <1>5, <2>1, CloseApart DEF CloseNext
<1>6. CASE \E i \in Slots : Deactivate(d, i)
  <2>1. PICK i \in Slots : InHand(d, i) /\ DeactivateFile(fd[d][i])
    BY <1>6 DEF Deactivate, InHand, DeactivateFile
  <2> QED
    BY <2>1, CloseApart
<1>7. CASE \/ SetDisable(d) \/ Prepare(d) \/ PrepareFails(d) \/ OpenFails(d)
           \/ Reset(d) \/ IoctlFails(d) \/ Restore(d) \/ Return(d) \/ AllClosed(d)
           \/ Activate(d) \/ ActivateMulti(d) \/ ActivateGroup(d) \/ DeactivateAll(d)
  <2>1. UNCHANGED kernelVars
    BY <1>7 DEF SetDisable, Prepare, PrepareFails, OpenFails, Abandon, Reset, IoctlFails, Restore,
                Return, AllClosed, Activate, ActivateMulti, ActivateGroup, Begin, DeactivateAll
  <2> QED
    BY <2>1, KernelQuiet
<1> QED
  BY <1>1, <1>2, <1>3, <1>4, <1>5, <1>6, <1>7 DEF Step, Call

\* A step that leaves pc, next and fd of its own caller alone does nothing.
LEMMA OwnStepShows ==
  ASSUME IInv, GroupsApart, NEW c \in Callers, Step(c) \/ Call(c),
         pc'[c] = pc[c], next'[c] = next[c], fd'[c] = fd[c]
  PROVE  Untouched(c)
<1> USE DEF IInv, TypeOK
<1>1. CASE Open(c) \/ Refuse(c) \/ Enable(c)
  BY <1>1 DEF Open, AfterOpen, Refuse, Enable
<1>2. CASE Undo(c) \/ CloseNext(c)
  BY <1>2 DEF Undo, CloseNext
<1>3. ASSUME NEW i \in Slots, Deactivate(c, i)
      PROVE  FALSE
  BY <1>3 DEF Deactivate, Close, OpenFds, Fds, NoFd
<1>4. CASE \/ SetDisable(c) \/ Prepare(c) \/ PrepareFails(c) \/ OpenFails(c)
           \/ Reset(c) \/ IoctlFails(c) \/ Restore(c) \/ Return(c) \/ AllClosed(c)
           \/ Activate(c) \/ ActivateMulti(c) \/ ActivateGroup(c) \/ DeactivateAll(c)
  <2>1. UNCHANGED kernelVars
    BY <1>4 DEF SetDisable, Prepare, PrepareFails, OpenFails, Abandon, Reset, IoctlFails, Restore,
                Return, AllClosed, Activate, ActivateMulti, ActivateGroup, Begin, DeactivateAll
  <2> QED
    BY <2>1, KernelQuiet
<1> QED
  BY <1>1, <1>2, <1>3, <1>4 DEF Step, Call

\* The groups that the kernel keeps are of counters of one caller.
THEOREM ApartInvariance == Spec => []GroupsApart
<1>1. Init => GroupsApart
  BY Distinct DEF Init, KernelInit, GroupsApart
<1>2. IInv /\ GroupsApart /\ [Next]_vars => GroupsApart'
  BY StepApart, KernelQuiet DEF Next, vars
<1> QED
  BY <1>1, <1>2, Invariance, PTL DEF Spec

\* Whatever fails, a goroutine's counters are opened, closed, enabled and
\* regrouped by its own steps only, though descriptors and PerfEvents are
\* shared by all (event.go, groups.go).
THEOREM CountersAreIsolated == Spec => Isolation
<1>1. IInv /\ GroupsApart /\ [Next]_vars => [OwnStepsOnly]_vars
  BY StepApart, OwnStepShows DEF Next, OwnStepsOnly
<1> QED
  BY <1>1, Invariance, ApartInvariance, PTL DEF Spec, Isolation
=============================================================================
