----------------------------- MODULE Activation -----------------------------
(***************************************************************************)
(* Life of a perf counter in iaevents (event.go, groups.go): Activate,     *)
(* ActivateMulti and ActivateGroup open counters, Deactivate closes them.  *)
(* Each caller is a goroutine with one call in progress at most, stepped   *)
(* one system call or one access to a shared PerfEvent at a time, and each *)
(* holds the result of its last successful call: an ActiveEvent, an        *)
(* ActiveMultiEvent or an ActiveEventGroup.  Results are not shared        *)
(* between callers; PerfEvents and the descriptor table are.               *)
(***************************************************************************)
EXTENDS PerfKernel, Sequences

CONSTANTS
  PerfEvents,  \* the PerfEvent objects, shared by the callers
  OnExec,      \* the values of SetEnableOnExec callers choose from
  Faults,      \* the system's failures, of {"config", "open", "ioctl"}
  Exclusive    \* no call uses a PerfEvent while another one leads a group with it

ASSUME ActivationAssumption ==
  /\ OnExec \subseteq BOOLEAN
  /\ Faults \subseteq {"config", "open", "ioctl"}
  /\ Exclusive \in BOOLEAN

\* An event with its options (type CustomizableEvent); of the options only
\* the bit that SetEnableOnExec adds to attr.disabled matters here.
CustomizableEvent == [event : PerfEvents, onExec : OnExec]

VARIABLES
  disabled,  \* per PerfEvent: the PerfBitDisabled bit of its Attr
  pc,        \* per caller: the next step of its call
  op,        \* per caller: the activator it called last
  events,    \* per caller: the events it asked for, one per counter
  opened,    \* per caller: how many of them have an ActiveEvent
  fd,        \* per caller: FileDescriptor of the ActiveEvents
  attr,      \* per caller: disabled bit of the local copy of Attr
  saved,     \* per caller: disabled bit of leaderOrigAttr
  next,      \* per caller: position of a closing loop
  held,      \* per caller: the client has the result of the call
  slice,     \* per caller: length of the result's events slice
  spoiled    \* history: leaders of the group activations that failed

callVars == <<pc, op, events, opened, fd, attr, saved, next, held, slice>>
vars == <<kernelVars, callVars, disabled, spoiled>>

Ops == {"activate", "multi", "group"}
Starting == {"disable", "prepare", "open", "undo", "reset", "enable",
             "restore", "return", "refuse"}
EventLists == UNION {[1 .. n -> CustomizableEvent] : n \in 0 .. MaxEvents}

TypeOK ==
  /\ KernelTypeOK
  /\ disabled \in [PerfEvents -> BOOLEAN]
  /\ pc \in [Callers -> {"idle", "closing"} \cup Starting]
  /\ op \in [Callers -> Ops]
  /\ events \in [Callers -> EventLists]
  /\ opened \in [Callers -> 0 .. MaxEvents]
  /\ fd \in [Callers -> [Slots -> Fds \cup {NoFd}]]
  /\ attr \in [Callers -> BOOLEAN]
  /\ saved \in [Callers -> BOOLEAN]
  /\ next \in [Callers -> 1 .. (MaxEvents + 1)]
  /\ held \in [Callers -> BOOLEAN]
  /\ slice \in [Callers -> 0 .. MaxEvents]
  /\ spoiled \in SUBSET PerfEvents

\* PerfEvents come from the transformer, which leaves PerfBitDisabled clear.
Init ==
  /\ KernelInit
  /\ disabled = [e \in PerfEvents |-> FALSE]
  /\ pc = [c \in Callers |-> "idle"]
  /\ op = [c \in Callers |-> "activate"]
  /\ events = [c \in Callers |-> <<>>]
  /\ opened = [c \in Callers |-> 0]
  /\ fd = [c \in Callers |-> [i \in Slots |-> NoFd]]
  /\ attr = [c \in Callers |-> FALSE]
  /\ saved = [c \in Callers |-> FALSE]
  /\ next = [c \in Callers |-> 1]
  /\ held = [c \in Callers |-> FALSE]
  /\ slice = [c \in Callers |-> 0]
  /\ spoiled = {}
-----------------------------------------------------------------------------
\* The caller has closed everything it holds and may start again.
Released(c) == \A i \in Slots : fd[c][i] = NoFd

Uses(c, e)  == pc[c] \in Starting /\ \E i \in DOMAIN events[c] : events[c][i].event = e
Leads(c, e) == pc[c] \in Starting /\ op[c] = "group" /\ events[c][1].event = e

\* What Exclusive asks of the clients.
MayStart(c, kind, list) ==
  Exclusive =>
    \A d \in Callers \ {c} :
      /\ \A i \in DOMAIN list : ~Leads(d, list[i].event)
      /\ kind = "group" => ~Uses(d, list[1].event)

\* The call's state on entry; the previous, released result is dropped.
Begin(c, kind, list, first) ==
  /\ pc[c] = "idle"
  /\ Released(c)
  /\ MayStart(c, kind, list)
  /\ pc' = [pc EXCEPT ![c] = first]
  /\ op' = [op EXCEPT ![c] = kind]
  /\ events' = [events EXCEPT ![c] = list]
  /\ opened' = [opened EXCEPT ![c] = 0]
  /\ held' = [held EXCEPT ![c] = FALSE]
  /\ slice' = [slice EXCEPT ![c] = 0]
  /\ UNCHANGED <<kernelVars, disabled, fd, attr, next, spoiled>>

Activate(c) ==
  \E e \in CustomizableEvent :
    /\ Begin(c, "activate", <<e>>, "prepare")
    /\ UNCHANGED saved

\* One event on n placements; with none there is nothing to open.
ActivateMulti(c) ==
  \E e \in CustomizableEvent, n \in 0 .. MaxEvents :
    /\ Begin(c, "multi", [i \in 1 .. n |-> e], IF n = 0 THEN "return" ELSE "prepare")
    /\ UNCHANGED saved

\* An empty list is refused before anything is touched; otherwise the leader's
\* Attr is copied.
ActivateGroup(c) ==
  \E list \in EventLists \ {<<>>} :
    /\ Begin(c, "group", list, "disable")
    /\ saved' = [saved EXCEPT ![c] = disabled[list[1].event]]

\* (mutant) The leader is opened as it is.
SetDisableForgotten(c) ==
  /\ pc[c] = "disable"
  /\ pc' = [pc EXCEPT ![c] = "prepare"]
  /\ UNCHANGED <<kernelVars, disabled, op, events, opened, fd, attr, saved, next, held, slice, spoiled>>

\* leader.setDisable(): a write to the PerfEvent every caller shares.
SetDisable(c) ==
  /\ pc[c] = "disable"
  /\ disabled' = [disabled EXCEPT ![events[c][1].event] = TRUE]
  /\ pc' = [pc EXCEPT ![c] = "prepare"]
  /\ UNCHANGED <<kernelVars, op, events, opened, fd, attr, saved, next, held, slice, spoiled>>
-----------------------------------------------------------------------------
\* activateWithLeader for the next event, in two steps: Attr is copied and
\* completed, then the copy goes to perf_event_open.
Current(c) == events[c][opened[c] + 1]

\* (mutant) The first member is opened without its leader.
GroupFdLate(c) == IF op[c] = "group" /\ opened[c] > 1 THEN fd[c][1] ELSE NoFd

GroupFd(c) == IF op[c] = "group" /\ opened[c] > 0 THEN fd[c][1] ELSE NoFd

Prepare(c) ==
  /\ pc[c] = "prepare"
  /\ attr' = [attr EXCEPT ![c] = disabled[Current(c).event] \/ Current(c).onExec]
  /\ pc' = [pc EXCEPT ![c] = "open"]
  /\ UNCHANGED <<kernelVars, disabled, op, events, opened, fd, saved, next, held, slice, spoiled>>

\* (mutant) The error returns without closing anything.
AbandonAtOnce(c) ==
  /\ pc' = [pc EXCEPT ![c] = "refuse"]
  /\ attr' = [attr EXCEPT ![c] = FALSE]
  /\ UNCHANGED <<kernelVars, disabled, op, events, opened, fd, saved, next, held, slice, spoiled>>

\* (mutant) The closing loop starts at the second event.
AbandonButFirst(c) ==
  /\ pc' = [pc EXCEPT ![c] = IF opened[c] = 0 THEN "refuse" ELSE "undo"]
  /\ next' = [next EXCEPT ![c] = 2]
  /\ attr' = [attr EXCEPT ![c] = FALSE]
  /\ UNCHANGED <<kernelVars, disabled, op, events, opened, fd, saved, held, slice, spoiled>>

\* Where a call goes when the activation of an event fails: what is open is
\* closed first, unless nothing is.
Abandon(c) ==
  /\ pc' = [pc EXCEPT ![c] = IF opened[c] = 0 THEN "refuse" ELSE "undo"]
  /\ next' = [next EXCEPT ![c] = 1]
  /\ attr' = [attr EXCEPT ![c] = FALSE]
  /\ UNCHANGED <<kernelVars, disabled, op, events, opened, fd, saved, held, slice, spoiled>>

\* An offline cpu, a placement of another PMU, enable-on-exec of all processes...
PrepareFails(c) ==
  /\ pc[c] = "prepare"
  /\ "config" \in Faults
  /\ Abandon(c)

\* The pc after n events have been opened.
AfterOpen(c, n) ==
  IF n < Len(events[c]) THEN "prepare"
  ELSE IF op[c] = "group" THEN "reset" ELSE "return"

Open(c) ==
  /\ pc[c] = "open"
  /\ \E f \in Fds :
       /\ PerfEventOpen(f, <<c, opened[c] + 1>>, attr[c], GroupFd(c))
       /\ fd' = [fd EXCEPT ![c][opened[c] + 1] = f]
  /\ opened' = [opened EXCEPT ![c] = opened[c] + 1]
  /\ pc' = [pc EXCEPT ![c] = AfterOpen(c, opened[c] + 1)]
  /\ attr' = [attr EXCEPT ![c] = FALSE]
  /\ UNCHANGED <<disabled, op, events, saved, next, held, slice, spoiled>>

\* EMFILE when no descriptor is free, any other error of the kernel otherwise.
OpenFails(c) ==
  /\ pc[c] = "open"
  /\ MayOpen(GroupFd(c)) => "open" \in Faults
  /\ Abandon(c)

\* deactivateFile, its error ignored.
DeactivateFile(f) == Close(f) \/ (BadFd(f) /\ UNCHANGED kernelVars)

\* (mutant) The loop closes its index in place of the event's descriptor.
UndoIndex(c) ==
  /\ pc[c] = "undo"
  /\ next[c] <= opened[c]
  /\ DeactivateFile(next[c] - 1)
  /\ next' = [next EXCEPT ![c] = next[c] + 1]
  /\ UNCHANGED <<disabled, pc, op, events, opened, fd, attr, saved, held, slice, spoiled>>

\* One round of the loop that closes what a failed call has opened.
\* ActivateMulti goes through Deactivate, ActivateGroup through
\* deactivateFile, which leaves FileDescriptor alone.
Undo(c) ==
  /\ pc[c] = "undo"
  /\ next[c] <= opened[c]
  /\ DeactivateFile(fd[c][next[c]])
  /\ fd' = IF op[c] = "group" \/ BadFd(fd[c][next[c]])
             THEN fd ELSE [fd EXCEPT ![c][next[c]] = NoFd]
  /\ next' = [next EXCEPT ![c] = next[c] + 1]
  /\ UNCHANGED <<disabled, pc, op, events, opened, attr, saved, held, slice, spoiled>>

\* The call returns an error: the caller is left with no ActiveEvent, and
\* with no way to reach a counter that is still open.
Refuse(c) ==
  /\ pc[c] = "refuse" \/ (pc[c] = "undo" /\ next[c] > opened[c])
  /\ Forget(c)
  /\ pc' = [pc EXCEPT ![c] = "idle"]
  /\ opened' = [opened EXCEPT ![c] = 0]
  /\ fd' = [fd EXCEPT ![c] = [i \in Slots |-> NoFd]]
  /\ next' = [next EXCEPT ![c] = 1]
  /\ saved' = [saved EXCEPT ![c] = FALSE]
  /\ spoiled' = IF op[c] = "group" THEN spoiled \cup {events[c][1].event} ELSE spoiled
  /\ UNCHANGED <<disabled, op, events, attr, held, slice>>
-----------------------------------------------------------------------------
\* The rest of ActivateGroup: the two ioctls on the leader, then Attr restored.
Reset(c) ==
  /\ pc[c] = "reset"
  /\ ~BadFd(fd[c][1])
  /\ pc' = [pc EXCEPT ![c] = "enable"]
  /\ UNCHANGED <<kernelVars, disabled, op, events, opened, fd, attr, saved, next, held, slice, spoiled>>

\* (mutant) The leader is never enabled.
EnableForgotten(c) ==
  /\ pc[c] = "enable"
  /\ pc' = [pc EXCEPT ![c] = "restore"]
  /\ UNCHANGED <<kernelVars, disabled, op, events, opened, fd, attr, saved, next, held, slice, spoiled>>

Enable(c) ==
  /\ pc[c] = "enable"
  /\ IoctlEnable(fd[c][1])
  /\ pc' = [pc EXCEPT ![c] = "restore"]
  /\ UNCHANGED <<disabled, op, events, opened, fd, attr, saved, next, held, slice, spoiled>>

\* Either ioctl fails: the error returns at once.
IoctlFails(c) ==
  /\ pc[c] \in {"reset", "enable"}
  /\ ~BadFd(fd[c][1]) => "ioctl" \in Faults
  /\ pc' = [pc EXCEPT ![c] = "refuse"]
  /\ UNCHANGED <<kernelVars, disabled, op, events, opened, fd, attr, saved, next, held, slice, spoiled>>

\* (mutant) The copy of Attr is never written back.
RestoreForgotten(c) ==
  /\ pc[c] = "restore"
  /\ saved' = [saved EXCEPT ![c] = FALSE]
  /\ pc' = [pc EXCEPT ![c] = "return"]
  /\ UNCHANGED <<kernelVars, disabled, op, events, opened, fd, attr, next, held, slice, spoiled>>

Restore(c) ==
  /\ pc[c] = "restore"
  /\ disabled' = [disabled EXCEPT ![events[c][1].event] = saved[c]]
  /\ saved' = [saved EXCEPT ![c] = FALSE]
  /\ pc' = [pc EXCEPT ![c] = "return"]
  /\ UNCHANGED <<kernelVars, op, events, opened, fd, attr, next, held, slice, spoiled>>

\* (mutant) Events appended to a slice already made with their number.
ReturnDoubled(c) ==
  /\ pc[c] = "return"
  /\ pc' = [pc EXCEPT ![c] = "idle"]
  /\ held' = [held EXCEPT ![c] = TRUE]
  /\ slice' = [slice EXCEPT ![c] = IF op[c] = "activate" THEN 0 ELSE 2 * opened[c]]
  /\ UNCHANGED <<kernelVars, disabled, op, events, opened, fd, attr, saved, next, spoiled>>

\* The call returns its result.
Return(c) ==
  /\ pc[c] = "return"
  /\ pc' = [pc EXCEPT ![c] = "idle"]
  /\ held' = [held EXCEPT ![c] = TRUE]
  /\ slice' = [slice EXCEPT ![c] = IF op[c] = "activate" THEN 0 ELSE opened[c]]
  /\ UNCHANGED <<kernelVars, disabled, op, events, opened, fd, attr, saved, next, spoiled>>
-----------------------------------------------------------------------------
\* (mutant) FileDescriptor keeps the number that was closed.
DeactivateKeepsFd(c, i) ==
  /\ pc[c] = "idle"
  /\ held[c]
  /\ i <= opened[c]
  /\ Close(fd[c][i])
  /\ UNCHANGED <<disabled, pc, op, events, opened, fd, attr, saved, next, held, slice, spoiled>>

\* ActiveEvent.Deactivate, of the result of Activate or of a member that the
\* client took from Events() before: FileDescriptor is -1 only after a close
\* that succeeded, so a second call gets EBADF and changes nothing.
Deactivate(c, i) ==
  /\ pc[c] = "idle"
  /\ held[c]
  /\ i <= opened[c]
  /\ Close(fd[c][i])
  /\ fd' = [fd EXCEPT ![c][i] = NoFd]
  /\ UNCHANGED <<disabled, pc, op, events, opened, attr, saved, next, held, slice, spoiled>>

\* Deactivate of an ActiveMultiEvent or an ActiveEventGroup, one event per
\* step; errors are ignored and the slice is gone at the end.
DeactivateAll(c) ==
  /\ pc[c] = "idle"
  /\ slice[c] > 0
  /\ pc' = [pc EXCEPT ![c] = "closing"]
  /\ next' = [next EXCEPT ![c] = 1]
  /\ UNCHANGED <<kernelVars, disabled, op, events, opened, fd, attr, saved, held, slice, spoiled>>

\* (mutant) A close that fails is tried again.
CloseNextRetries(c) ==
  /\ pc[c] = "closing"
  /\ next[c] <= slice[c]
  /\ DeactivateFile(fd[c][next[c]])
  /\ fd' = IF BadFd(fd[c][next[c]]) THEN fd ELSE [fd EXCEPT ![c][next[c]] = NoFd]
  /\ next' = IF BadFd(fd[c][next[c]]) THEN next ELSE [next EXCEPT ![c] = next[c] + 1]
  /\ UNCHANGED <<disabled, pc, op, events, opened, attr, saved, held, slice, spoiled>>

CloseNext(c) ==
  /\ pc[c] = "closing"
  /\ next[c] <= slice[c]
  /\ DeactivateFile(fd[c][next[c]])
  /\ fd' = IF BadFd(fd[c][next[c]]) THEN fd ELSE [fd EXCEPT ![c][next[c]] = NoFd]
  /\ next' = [next EXCEPT ![c] = next[c] + 1]
  /\ UNCHANGED <<disabled, pc, op, events, opened, attr, saved, held, slice, spoiled>>

AllClosed(c) ==
  /\ pc[c] = "closing"
  /\ next[c] > slice[c]
  /\ pc' = [pc EXCEPT ![c] = "idle"]
  /\ next' = [next EXCEPT ![c] = 1]
  /\ slice' = [slice EXCEPT ![c] = 0]
  /\ UNCHANGED <<kernelVars, disabled, op, events, opened, fd, attr, saved, held, spoiled>>
-----------------------------------------------------------------------------
\* What a call in progress does next; the client decides everything else.
Step(c) ==
  \/ SetDisable(c)
  \/ Prepare(c) \/ PrepareFails(c)
  \/ Open(c) \/ OpenFails(c)
  \/ Undo(c) \/ Refuse(c)
  \/ Reset(c) \/ Enable(c) \/ IoctlFails(c) \/ Restore(c)
  \/ Return(c)
  \/ CloseNext(c) \/ AllClosed(c)

Call(c) ==
  \/ Activate(c) \/ ActivateMulti(c) \/ ActivateGroup(c)
  \/ (\E i \in Slots : Deactivate(c, i))
  \/ DeactivateAll(c)

Next == \E c \in Callers : Step(c) \/ Call(c)

Spec == Init /\ [][Next]_vars

\* System calls return and the Go scheduler runs every goroutine: a call that
\* is in progress takes its next step.  Nothing makes a client call.
FairSpec == Spec /\ \A c \in Callers : WF_vars(Step(c))
-----------------------------------------------------------------------------
\* The ActiveEvents that somebody can still reach and close: those of a result
\* the client holds and those of a call that has not given them up.
InHand(c, i) == i <= opened[c] /\ ~(pc[c] = "undo" /\ i < next[c])

\* Safety: a FileDescriptor that is not -1 is the descriptor of the counter
\* its own activation opened (event.go, Activate and Deactivate).  A number
\* the kernel has recycled is never read, controlled or closed through an
\* ActiveEvent that lost it.
OwnDescriptor ==
  \A c \in Callers, i \in Slots :
    InHand(c, i) /\ fd[c][i] # NoFd => table[fd[c][i]] = <<c, i>>

\* Safety: every open counter can be closed by someone: an ActiveEvent in a
\* client's hands or in a call in progress names it.  The error paths of
\* ActivateMulti and ActivateGroup leave nothing behind.
Accounted ==
  \A f \in OpenFds :
    \E c \in Callers, i \in Slots : InHand(c, i) /\ fd[c][i] = f /\ table[f] = <<c, i>>

\* Safety: while a group is being built its leader does not count yet
\* (event.go:264, "leader should wait for rest events activation").
LeaderWaits ==
  \A c \in Callers :
    op[c] = "group" /\ opened[c] > 0 /\ pc[c] \in {"prepare", "open", "reset", "enable"}
      => fd[c][1] \notin enabled

\* Safety: every counter of a result the client holds counts.  Left out are a
\* counter told to wait for exec, one of a PerfEvent whose Disabled bit an
\* earlier failure left set, and a member that repeats the PerfEvent of its
\* own leader: it is opened disabled, and only the leader is enabled.
ResultCounts ==
  \A c \in Callers, i \in Slots :
    LET e == events[c][i]
        leads == op[c] = "group" /\ i = 1
        repeats == op[c] = "group" /\ i > 1 /\ e.event = events[c][1].event
    IN  held[c] /\ i <= opened[c] /\ fd[c][i] # NoFd
          => \/ fd[c][i] \in enabled
             \/ ~leads /\ (e.onExec \/ e.event \in spoiled \/ repeats)

\* Safety: the open counters of a group are scheduled as a unit (README.md,
\* "Events grouping"): they belong to the leader while the leader is open.
GroupIsUnit ==
  \A c \in Callers, i \in Slots :
    op[c] = "group" /\ held[c] /\ i <= opened[c] /\ fd[c][1] # NoFd /\ fd[c][i] # NoFd
      => group[fd[c][i]] = fd[c][1]

\* Safety: Disabled is set in a PerfEvent only while a call leads a group with
\* it, or after a group activation with it failed (event.go:299).
AttrRestored ==
  \A e \in PerfEvents :
    disabled[e] => e \in spoiled \/ \E c \in Callers : Leads(c, e)

\* What keeps OwnDescriptor and Accounted true from step to step: the table and
\* the ActiveEvents name each other, and a call has open whatever it opened.
Owned ==
  \A c \in Callers, i \in Slots, f \in Fds :
    table[f] = <<c, i>> => InHand(c, i) /\ fd[c][i] = f

HoldsWhatItOpened ==
  \A c \in Callers, i \in Slots :
    /\ i > opened[c] => fd[c][i] = NoFd
    /\ pc[c] \in Starting /\ InHand(c, i) => fd[c][i] # NoFd

RefusedEmpty ==
  "ioctl" \notin Faults =>
    /\ \A f \in Fds : table[f] # Orphan
    /\ \A c \in Callers : pc[c] = "refuse" => opened[c] = 0

\* Where a call stands and how far its loops have come.
Shape ==
  \A c \in Callers :
    /\ opened[c] <= Len(events[c])
    /\ slice[c] <= opened[c]
    /\ pc[c] \in Starting => slice[c] = 0
    /\ op[c] = "group" => Len(events[c]) > 0
    /\ pc[c] = "disable" => op[c] = "group" /\ opened[c] = 0
    /\ pc[c] \in {"prepare", "open"} => opened[c] < Len(events[c])
    /\ pc[c] \in {"reset", "enable", "restore"}
         => op[c] = "group" /\ opened[c] = Len(events[c])
    /\ pc[c] = "closing" => next[c] <= slice[c] + 1

\* The inductive invariant.
IInv == TypeOK /\ Shape /\ HoldsWhatItOpened /\ OwnDescriptor /\ Owned /\ RefusedEmpty

\* A step that leaves the counters of c as they are.
Untouched(c) ==
  \A f \in Fds :
    table[f] \in {c} \X Slots \/ table'[f] \in {c} \X Slots
      => /\ table'[f] = table[f]
         /\ f \in enabled' <=> f \in enabled
         /\ group'[f] = group[f]

\* Action property: only a step of its own caller opens, closes, enables or
\* regroups a counter.
OwnStepsOnly ==
  \A c \in Callers :
    pc'[c] = pc[c] /\ next'[c] = next[c] /\ fd'[c] = fd[c] => Untouched(c)

Isolation == [][OwnStepsOnly]_vars

\* Liveness: every call returns, with a result or with an error.
CallsReturn == \A c \in Callers : pc[c] # "idle" ~> pc[c] = "idle"

\* What README.md:169 says of Activate, whatever happened before: the counter
\* of an ActiveEvent has been started.
ActivateStarts ==
  \A c \in Callers :
    op[c] = "activate" /\ held[c] /\ fd[c][1] # NoFd /\ ~events[c][1].onExec
      => fd[c][1] \in enabled
-----------------------------------------------------------------------------
\* The sessions of the clients, as CounterSessions states them.
phase == [c \in Callers |->
           IF pc[c] \in Starting THEN "starting" ELSE IF held[c] THEN "running" ELSE "none"]
counters == [c \in Callers |-> {i \in Slots : \E f \in Fds : table[f] = <<c, i>>}]
wanted == [c \in Callers |-> DOMAIN events[c]]

Sessions == INSTANCE CounterSessions WITH Indices <- Slots

\* Refinement: an activation yields all its counters or none, and a failed
\* call leaves none open.
SessionsSpec == Sessions!Spec
=============================================================================
