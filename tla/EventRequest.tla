---------------------------- MODULE EventRequest ----------------------------
(***************************************************************************)
(* What a client does to count one event: it builds the options, asks for  *)
(* placements (placements.go, NewPlacements) and activates the event on    *)
(* each of them (event.go), up to the attributes that reach the kernel.    *)
(* Cpus go offline and come back between any two of these steps.           *)
(* Descriptors, and failures to open that are not about the request, are   *)
(* those of Activation: a call that fails closes what it has opened.       *)
(***************************************************************************)
EXTENDS Topology, AttrOptions

CONSTANTS
  Requests   \* what clients ask for

\* A PerfEvent; the transformer sets no flags, and makes Size cover config2
\* when a term is in it.
Event ==
  [pmuName : STRING, types : Seq([name : STRING, type : Nat]),
   attr : {a \in Attr : a.bits = {} /\ (a.word["config2"] # {} => a.size = "ver1")}]

\* The cpus of NewCorePlacement(s), one at least, the unit and socket of
\* NewUncorePlacement, or the socket of NewUncoreAllPlacements; each with its
\* options and target.  The factory is the event, unless a client mixes them up.
Request ==
  [factory : Event, event : Event,
   kind : {"core", "uncore", "uncoreAll"}, cpus : Seq(Int) \ {<<>>}, unit : STRING, socket : Nat,
   items : Seq(Item), onExec : BOOLEAN, target : {"all", "process", "cgroup"}]

ASSUME RequestAssumption == Requests \subseteq Request /\ Requests # {}

VARIABLES
  request,     \* the call
  pc,          \* its next step
  at,          \* position in the list of qualifiers
  options,     \* optionsBuilder's attributes
  matches,     \* the cpus whose package id glob has found
  unread,      \* those of them that are still to be read
  socketCpus,  \* assignCPUToSocket's map
  todo,        \* the placements that are left, as <<PMU type, cpu>> positions
  attr,        \* activateWithLeader's copy of Attr
  sent,        \* the counters that are open, with what the kernel was given
  outcome,     \* how the call ended
  steady,      \* history: no cpu has gone or come since the call began
  awake        \* history: the cpus seen online since the placements were made
               \* or the counter before was opened

callVars == <<request, pc, at, options, matches, unread, socketCpus, todo, attr, sent, outcome>>
vars == <<machineVars, callVars, steady, awake>>

Sockets == {SocketOf[cpu] : cpu \in CpuNumbers}

\* The unit name that the constructor passes to NewPlacements.
Unit(r) == CASE r.kind = "core" -> "cpu" [] r.kind = "uncore" -> r.unit [] r.kind = "uncoreAll" -> ""

\* The cpus it passes; those of a socket are one cpu.
Cores == IF request.kind = "core" THEN request.cpus ELSE <<socketCpus[request.socket]>>

CoreIndices(r) == IF r.kind = "core" THEN DOMAIN r.cpus ELSE {1}

\* NewPlacements' first loop.
UnitIndices(r) ==
  {i \in DOMAIN r.factory.types : Unit(r) \in {"", r.factory.types[i].name, r.factory.pmuName}}

FirstUnit(r) == {i \in UnitIndices(r) : \A k \in UnitIndices(r) : i <= k}

\* The placements, as positions: NewUncorePlacement takes the first unit.
Wanted(r) == (IF r.kind = "uncore" THEN FirstUnit(r) ELSE UnitIndices(r)) \X CoreIndices(r)

Counter == [i : Nat, j : Nat, cpu : Int, type : Nat, attr : Attr]

TypeOK ==
  /\ MachineTypeOK
  /\ request \in Request
  /\ pc \in {"build", "glob", "read", "place", "configure", "open", "done"}
  /\ at \in 1 .. Len(request.items) + 1
  /\ options \in Attr
  /\ matches \in SUBSET CpuNumbers /\ unread \in SUBSET matches
  /\ DOMAIN socketCpus \subseteq Sockets
  /\ \A s \in DOMAIN socketCpus : socketCpus[s] \in CpuNumbers
  /\ todo \subseteq UnitIndices(request) \X CoreIndices(request)
  /\ attr \in Attr
  /\ sent \subseteq Counter
  /\ outcome \in {"none", "ok", "error"}
  /\ steady \in BOOLEAN
  /\ awake \in SUBSET CpuNumbers

NoMap == [s \in {} |-> 0]

\* A call keeps nothing for the next one, so that one is enough.
Init ==
  /\ MachineInit
  /\ request \in Requests
  /\ pc = "build"
  /\ at = 1
  /\ options = NoAttr
  /\ matches = {} /\ unread = {} /\ socketCpus = NoMap
  /\ todo = {}
  /\ attr = NoAttr
  /\ sent = {}
  /\ outcome = "none"
  /\ steady = TRUE
  /\ awake = {}

\* An error ends the call; what ActivateMulti has opened is closed.
Fail ==
  /\ pc' = "done"
  /\ outcome' = "error"
  /\ sent' = {}
  /\ todo' = {}
  /\ UNCHANGED <<machineVars, request, at, options, matches, unread, socketCpus, attr,
                 steady, awake>>
-----------------------------------------------------------------------------
\* optionsBuilder.Build, one qualifier at a time.
BuildItem ==
  /\ pc = "build"
  /\ at <= Len(request.items)
  /\ request.items[at].kind # "bad"
  /\ options' = UpdateQualifier(options, request.items[at])
  /\ at' = at + 1
  /\ UNCHANGED <<machineVars, request, pc, matches, unread, socketCpus, todo, attr, sent,
                 outcome, steady, awake>>

BuildFails ==
  /\ pc = "build"
  /\ at <= Len(request.items)
  /\ request.items[at].kind = "bad"
  /\ Fail

Built ==
  /\ pc = "build"
  /\ at > Len(request.items)
  /\ options' = SetEnableOnExec(options, request.onExec)
  /\ pc' = IF request.kind = "core" THEN "place" ELSE "glob"
  /\ UNCHANGED <<machineVars, request, at, matches, unread, socketCpus, todo, attr, sent,
                 outcome, steady, awake>>
-----------------------------------------------------------------------------
\* assignCPUToSocket: the paths first, then the id behind each of them.
Glob ==
  /\ pc = "glob"
  /\ matches' = GlobPackageIds
  /\ unread' = GlobPackageIds
  /\ pc' = "read"
  /\ UNCHANGED <<machineVars, request, at, options, socketCpus, todo, attr, sent, outcome,
                 steady, awake>>

ReadId ==
  /\ pc = "read"
  /\ \E cpu \in online :
       /\ IsFirst(cpu, unread)
       /\ socketCpus' = Assign(socketCpus, cpu)
       /\ unread' = unread \ {cpu}
  /\ UNCHANGED <<machineVars, request, pc, at, options, matches, todo, attr, sent, outcome,
                 steady, awake>>

\* The cpu has gone, and the file with it.
ReadIdFails ==
  /\ pc = "read"
  /\ \E cpu \in unread \ online : IsFirst(cpu, unread)
  /\ Fail

AllRead ==
  /\ pc = "read"
  /\ unread = {}
  /\ pc' = "place"
  /\ UNCHANGED <<machineVars, request, at, options, matches, unread, socketCpus, todo, attr,
                 sent, outcome, steady, awake>>

\* The checks of uncorePlacementForUnit, uncorePlacementsForAllUnits and of
\* NewPlacements, whose idea of the highest cpu is the number of cpus.
Placeable ==
  /\ request.kind # "core" => request.socket \in DOMAIN socketCpus
  /\ UnitIndices(request) # {}
  /\ \A j \in CoreIndices(request) : Cores[j] \in 0 .. CpusNum - 1

Place ==
  /\ pc = "place"
  /\ Placeable
  /\ todo' = Wanted(request)
  /\ pc' = "configure"
  /\ awake' = online
  /\ UNCHANGED <<machineVars, request, at, options, matches, unread, socketCpus, attr, sent,
                 outcome, steady>>

PlaceFails ==
  /\ pc = "place"
  /\ ~Placeable
  /\ Fail
-----------------------------------------------------------------------------
\* The next placement: all cpus of a PMU type before the next type.
IsNext(p) == p \in todo /\ \A q \in todo : p[1] < q[1] \/ (p[1] = q[1] /\ p[2] <= q[2])

\* What PMUPlacement returns.
CpuOf(p)  == Cores[p[2]]
TypeOf(p) == request.factory.types[p[1]].type

\* (mutant) The cpu is taken as its placement has it.
ConfigurePlacementUnchecked(cpu, type) ==
  \E k \in DOMAIN request.event.types : request.event.types[k].type = type

\* configurePlacement's checks; the placement may be one of another event.
ConfigurePlacement(cpu, type) ==
  /\ CpuOnline(cpu)
  /\ \E k \in DOMAIN request.event.types : request.event.types[k].type = type

\* configureProcess' check.
ConfigureProcess(bits) == ~("enable_on_exec" \in bits /\ request.target = "all")

\* activateWithLeader up to the system call.
Configure ==
  /\ pc = "configure"
  /\ \E p \in todo : IsNext(p) /\ ConfigurePlacement(CpuOf(p), TypeOf(p))
  /\ LET merged == Merge(request.event.attr, options)
     IN  /\ ConfigureProcess(merged.bits)
         /\ attr' = [merged EXCEPT !.bits = merged.bits \cup {"inherit"}]
  /\ pc' = "open"
  /\ UNCHANGED <<machineVars, request, at, options, matches, unread, socketCpus, todo, sent,
                 outcome, steady, awake>>

ConfigureFails ==
  /\ pc = "configure"
  /\ \E p \in todo :
       /\ IsNext(p)
       /\ \/ ~ConfigurePlacement(CpuOf(p), TypeOf(p))
          \/ ~ConfigureProcess(Merge(request.event.attr, options).bits)
  /\ Fail

\* perf_event_open wants the cpu online unless one process is measured (external).
KernelTakes(cpu) == request.target = "process" \/ cpu \in online

Open ==
  /\ pc = "open"
  /\ \E p \in todo :
       /\ IsNext(p)
       /\ KernelTakes(CpuOf(p))
       /\ sent' = sent \cup {[i |-> p[1], j |-> p[2], cpu |-> CpuOf(p), type |-> TypeOf(p), attr |-> attr]}
       /\ todo' = todo \ {p}
  /\ pc' = "configure"
  /\ awake' = online
  /\ UNCHANGED <<machineVars, request, at, options, matches, unread, socketCpus, attr,
                 outcome, steady>>

OpenFails ==
  /\ pc = "open"
  /\ \E p \in todo : IsNext(p) /\ ~KernelTakes(CpuOf(p))
  /\ Fail

Return ==
  /\ pc = "configure"
  /\ todo = {}
  /\ pc' = "done"
  /\ outcome' = "ok"
  /\ UNCHANGED <<machineVars, request, at, options, matches, unread, socketCpus, todo, attr,
                 sent, steady, awake>>
-----------------------------------------------------------------------------
Step ==
  \/ BuildItem \/ BuildFails \/ Built
  \/ Glob \/ ReadId \/ ReadIdFails \/ AllRead
  \/ Place \/ PlaceFails
  \/ Configure \/ ConfigureFails \/ Open \/ OpenFails \/ Return

\* The machine changes under the call.
CpuGoesOrComes ==
  /\ Hotplug
  /\ steady' = FALSE
  /\ awake' = IF pc \in {"configure", "open"} THEN awake \cup online' ELSE awake
  /\ UNCHANGED callVars

Next == Step \/ CpuGoesOrComes

Spec == Init /\ [][Next]_vars
-----------------------------------------------------------------------------
\* Safety: a counter sits where the client asked for it (README.md, placements):
\* its PMU type is one of the event's own and of the unit asked for, its cpu
\* one of the cpus, or the lowest that the socket had when the cpus were
\* listed, whatever order their files came in; and a call that succeeds has
\* one counter for each such pair, one at all for NewUncorePlacement.
OpenedWhereAsked ==
  /\ \A c \in sent :
       /\ c.i \in UnitIndices(request) /\ c.type = request.factory.types[c.i].type
       /\ \E k \in DOMAIN request.event.types : request.event.types[k].type = c.type
       /\ IF request.kind = "core"
          THEN c.j \in DOMAIN request.cpus /\ c.cpu = request.cpus[c.j]
          ELSE /\ c.cpu \in matches /\ SocketOf[c.cpu] = request.socket
               /\ \A cpu \in matches : SocketOf[cpu] = request.socket => c.cpu <= cpu
  /\ outcome = "ok" =>
       IF request.kind = "uncore"
       THEN /\ \E c \in sent : \A d \in sent : d.i = c.i /\ d.j = c.j
            /\ \A c \in sent, i \in UnitIndices(request) : c.i <= i
       ELSE \A i \in UnitIndices(request), j \in CoreIndices(request) :
              \E c \in sent : c.i = i /\ c.j = j

\* Action property: a placement may be used long after its cpu has gone, and the
\* kernel counts one process on a cpu that is offline without a word; yet no
\* counter is opened on a cpu of the machine that has been offline all the time
\* since the counter before it was opened (event.go:210).
OpenedAwake == [][\A c \in sent' \ sent : c.cpu \in awake \/ c.cpu \notin present]_vars

\* What the first n qualifiers of r ask for.
AskedValues(r, f, n) ==
  UNION {r.items[k].value :
           k \in {k \in 1 .. n : r.items[k].kind = "value" /\ r.items[k].field = f}}

AskedModifiers(r, m, n) ==
  {k \in 1 .. n : r.items[k].kind = "modifier" /\ r.items[k].modifier = m}

AskedFlags(r, n) ==
  {ModifierBit(m) : m \in {m \in Modifiers \ {"p"} : AskedModifiers(r, m, n) # {}}}

OnExecFlags(r) == IF r.onExec THEN {"disabled", "enable_on_exec"} ELSE {}

Precise == {"precise_ip1", "precise_ip2"}
PreciseIP(bits) ==
  (IF "precise_ip1" \in bits THEN 1 ELSE 0) + (IF "precise_ip2" \in bits THEN 2 ELSE 0)
UpToThree(n) == IF n > 3 THEN 3 ELSE n

\* Attributes with what the event of r and all qualifiers ask for.
AsAsked(r, a) ==
  LET n == Len(r.items)
  IN  /\ \A f \in Fields :
           KernelWord(a, f) =
             IF f = "config2" /\ r.event.attr.size = "ver0"
             THEN {} ELSE r.event.attr.word[f] \cup AskedValues(r, f, n)
      /\ PreciseIP(a.bits) = UpToThree(Cardinality(AskedModifiers(r, "p", n)))
      /\ a.bits \ Precise = AskedFlags(r, n) \cup OnExecFlags(r) \cup {"inherit"}

\* Safety: the kernel is given what the event is defined as and the client's
\* options add, and nothing else (event.go:185, modifiers.go:35 and 108):
\* every bit of the config words, precise_ip as often as p is there up to 3,
\* the flags of the other modifiers.  One thing gets lost: bits of config2 in
\* the options of an event that has none itself, for Size is then that of the
\* first version of the attributes and does not cover them (event.go:196).
KernelAttr == \A c \in sent : AsAsked(request, c.attr)

\* A cpu where the request can be served.  The first clause turns away present
\* cpus when the list has a gap (topology.go:294), the last lets one pass that
\* is in the gap (topology.go:226).
Serves(cpu) ==
  /\ cpu \in 0 .. Cardinality(present) - 1
  /\ cpu \in online \/ (cpu \notin present /\ request.target = "process")

\* The first cpu of the socket that is online.
SocketCpu ==
  CHOOSE cpu \in online :
    /\ SocketOf[cpu] = request.socket
    /\ \A other \in online : SocketOf[other] = request.socket => cpu <= other

\* What the request is served by, as a whole.
Served ==
  /\ \A k \in DOMAIN request.items : request.items[k].kind # "bad"
  /\ ~(request.onExec /\ request.target = "all")
  /\ UnitIndices(request) # {}
  /\ \A p \in Wanted(request) : \E k \in DOMAIN request.event.types :
       request.event.types[k].type = request.factory.types[p[1]].type
  /\ IF request.kind = "core" THEN \A j \in DOMAIN request.cpus : Serves(request.cpus[j])
     ELSE (\E cpu \in online : SocketOf[cpu] = request.socket) /\ Serves(SocketCpu)

\* Safety: as long as no cpu goes or comes, whether a call succeeds is decided
\* by the request and the machine alone: a request that can be served is, and
\* one that cannot is refused, at whichever of its steps that comes out.
SteadyOutcome == pc = "done" /\ steady => (outcome = "ok" <=> Served)
=============================================================================
