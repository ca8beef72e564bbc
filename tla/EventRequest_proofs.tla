------------------------- MODULE EventRequest_proofs -------------------------
(***************************************************************************)
(* Proofs about EventRequest for any machine and any requests: type        *)
(* correctness, that counters sit where they were asked for, that the      *)
(* kernel gets the attributes that were asked for, that no counter is      *)
(* opened on a cpu that has been offline all along, and that the outcome   *)
(* of a call on a steady machine is that of its request.                   *)
(***************************************************************************)
EXTENDS EventRequest, Counting, SequenceTheorems

-----------------------------------------------------------------------------
\* The steps after the options and the placements have been made, and the
\* state they leave.
Placed == pc \in {"configure", "open"} \/ outcome = "ok"

Shape ==
  /\ outcome # "none" <=> pc = "done"
  /\ outcome = "ok" => todo = {}
  /\ ~Placed => sent = {} /\ todo = {}
  /\ pc \in {"build", "glob"} => matches = {} /\ unread = {} /\ DOMAIN socketCpus = {}
  /\ pc \in {"glob", "read"} => request.kind # "core"
  /\ pc = "place" \/ Placed => unread = {}

\* assignCPUToSocket's map: the lowest cpu of each socket among those read.
MapIsLowest ==
  /\ \A s \in DOMAIN socketCpus :
       /\ socketCpus[s] \in matches \ unread
       /\ SocketOf[socketCpus[s]] = s
  /\ \A cpu \in matches \ unread :
       SocketOf[cpu] \in DOMAIN socketCpus /\ socketCpus[SocketOf[cpu]] <= cpu

\* Every placement wanted is open or still to do, on its own cpu and PMU type.
PlacementsKept ==
  Placed =>
    /\ request.kind # "core" => request.socket \in DOMAIN socketCpus
    /\ UnitIndices(request) # {}
    /\ todo \subseteq Wanted(request)
    /\ \A p \in Wanted(request) : p \in todo \/ \E c \in sent : c.i = p[1] /\ c.j = p[2]
    /\ \A c \in sent :
         /\ <<c.i, c.j>> \in Wanted(request)
         /\ c.cpu = Cores[c.j] /\ c.type = request.factory.types[c.i].type
         /\ \E k \in DOMAIN request.event.types : request.event.types[k].type = c.type
    /\ pc = "open" =>
         \A p \in todo : IsNext(p) =>
           \E k \in DOMAIN request.event.types : request.event.types[k].type = TypeOf(p)

WhereInv == TypeOK /\ Shape /\ MapIsLowest /\ PlacementsKept
-----------------------------------------------------------------------------
\* Cpus that are online have numbers.
LEMMA OnlineFacts ==
  ASSUME MachineTypeOK
  PROVE  present \in SUBSET CpuNumbers /\ online \in SUBSET CpuNumbers /\ 0 \in online
BY TopologyAssumption DEF MachineTypeOK

\* Cpus are numbered from 0.
LEMMA CpuFacts == \A cpu \in CpuNumbers : cpu \in Nat /\ cpu \in Int
BY TopologyAssumption

\* The parts of a request.
LEMMA RequestFacts ==
  ASSUME NEW r \in Request
  PROVE  /\ r.factory.types \in Seq([name : STRING, type : Nat])
         /\ r.event.attr \in Attr
         /\ r.cpus \in Seq(Int) /\ r.items \in Seq(Item)
         /\ r.kind \in {"core", "uncore", "uncoreAll"}
         /\ UnitIndices(r) \subseteq Nat /\ UnitIndices(r) \subseteq DOMAIN r.factory.types
         /\ CoreIndices(r) \subseteq Nat
         /\ \A i \in UnitIndices(r) : r.factory.types[i].type \in Nat
<1>1. r.factory \in Event /\ r.event \in Event /\ r.cpus \in Seq(Int) /\ r.items \in Seq(Item)
  BY DEF Request
<1>2. r.kind \in {"core", "uncore", "uncoreAll"}
  BY DEF Request
<1>3. r.factory.types \in Seq([name : STRING, type : Nat]) /\ r.event.attr \in Attr
  BY <1>1 DEF Event
<1>4. DOMAIN r.factory.types = 1 .. Len(r.factory.types) /\ DOMAIN r.cpus = 1 .. Len(r.cpus)
  BY <1>1, <1>3
<1>5. UnitIndices(r) \subseteq DOMAIN r.factory.types
  BY DEF UnitIndices
<1>5a. UnitIndices(r) \subseteq Nat
  BY <1>4, <1>5
<1>6. CoreIndices(r) \subseteq Nat
  BY <1>4 DEF CoreIndices
<1>7. \A i \in UnitIndices(r) : r.factory.types[i].type \in Nat
  <2> TAKE i \in UnitIndices(r)
  <2>1. i \in 1 .. Len(r.factory.types)
    BY <1>4, <1>5
  <2>2. r.factory.types[i] \in [name : STRING, type : Nat]
    BY <1>3, <2>1, ElementOfSeq
  <2> QED
    BY <2>2
<1> QED
  BY <1>1, <1>2, <1>3, <1>5, <1>5a, <1>6, <1>7

\* The placements wanted are among all pairs of a unit and a cpu.
LEMMA WantedFacts ==
  ASSUME NEW r \in Request
  PROVE  Wanted(r) \subseteq UnitIndices(r) \X CoreIndices(r)
BY DEF Wanted, FirstUnit

\* The options keep their type, item by item.
LEMMA OptionTypes ==
  ASSUME NEW a \in Attr
  PROVE  /\ \A item \in Item : item.kind # "bad" => UpdateQualifier(a, item) \in Attr
         /\ \A onExec \in BOOLEAN : SetEnableOnExec(a, onExec) \in Attr
         /\ \A b \in Attr : Merge(b, a) \in Attr
         /\ [a EXCEPT !.bits = a.bits \cup {"inherit"}] \in Attr
<1>1. ASSUME NEW item \in Item, item.kind # "bad"
      PROVE  UpdateQualifier(a, item) \in Attr
  <2>1. CASE item.kind = "modifier"
    <3>1. item.modifier \in Modifiers
      BY <2>1 DEF Item
    <3>2. item.modifier # "p" => ModifierBit(item.modifier) \in Flags
      BY <3>1 DEF Modifiers, ModifierBit, Flags
    <3>3. IncPreciseIP(a.bits) \in SUBSET Flags
      BY DEF IncPreciseIP, Attr, Flags
    <3>4. UpdateModifier(a, item.modifier) \in Attr
      BY <3>2, <3>3 DEF UpdateModifier, Attr
    <3> QED
      BY <2>1, <3>4 DEF UpdateQualifier
  <2>2. CASE item.kind # "modifier"
    <3>1. item.field \in Fields /\ item.value \in SUBSET ConfigBits
      BY <1>1, <2>2 DEF Item
    <3> QED
      BY <2>2, <3>1 DEF UpdateQualifier, Attr
  <2> QED
    BY <2>1, <2>2
<1>2. ASSUME NEW onExec \in BOOLEAN
      PROVE  SetEnableOnExec(a, onExec) \in Attr
  BY DEF SetEnableOnExec, Attr, Flags
<1>3. ASSUME NEW b \in Attr
      PROVE  Merge(b, a) \in Attr
  BY DEF Merge, Attr
<1>4. [a EXCEPT !.bits = a.bits \cup {"inherit"}] \in Attr
  BY DEF Attr, Flags
<1> QED
  BY <1>1, <1>2, <1>3, <1>4

\* The cpu and the type of a placement wanted are numbers.
LEMMA PlacementTypes ==
  ASSUME WhereInv, Placed, NEW p \in Wanted(request)
  PROVE  /\ p[1] \in Nat /\ p[2] \in Nat /\ p = <<p[1], p[2]>>
         /\ CpuOf(p) \in Int /\ TypeOf(p) \in Nat
<1>1. request \in Request
  BY DEF WhereInv, TypeOK
<1>2. p \in UnitIndices(request) \X CoreIndices(request)
  BY <1>1, WantedFacts
<1>3. p[1] \in Nat /\ p[2] \in Nat /\ p = <<p[1], p[2]>> /\ TypeOf(p) \in Nat
  BY <1>1, <1>2, RequestFacts DEF TypeOf
<1>4. CpuOf(p) \in Int
  <2>1. CASE request.kind = "core"
    <3>1. request.cpus \in Seq(Int) /\ p[2] \in DOMAIN request.cpus
      BY <1>1, <1>2, <2>1, RequestFacts DEF CoreIndices
    <3>2. request.cpus[p[2]] \in Int
      BY <3>1
    <3> QED
      BY <2>1, <3>2 DEF CpuOf, Cores
  <2>2. CASE request.kind # "core"
    <3>1. p[2] = 1 /\ request.socket \in DOMAIN socketCpus
      BY <1>2, <2>2 DEF CoreIndices, WhereInv, PlacementsKept
    <3>2. socketCpus[request.socket] \in CpuNumbers
      BY <3>1 DEF WhereInv, TypeOK
    <3>3. Cores[p[2]] = socketCpus[request.socket]
      BY <2>2, <3>1 DEF Cores
    <3>4. socketCpus[request.socket] \in Int
      BY <3>2, CpuFacts
    <3>5. Cores[p[2]] \in Int
      BY <3>3, <3>4
    <3> QED
      BY <3>5 DEF CpuOf
  <2> QED
    BY <2>1, <2>2
<1> QED
  BY <1>3, <1>4
-----------------------------------------------------------------------------
\* The first state.
LEMMA WhereInit == Init => WhereInv
<1> SUFFICES ASSUME Init PROVE WhereInv
  OBVIOUS
<1> USE DEF Init, MachineInit
<1>1. request \in Request /\ request.items \in Seq(Item)
  BY RequestAssumption, RequestFacts
<1>2. Len(request.items) \in Nat
  BY <1>1
<1>3. TypeOK
  <2>1. MachineTypeOK
    BY TopologyAssumption DEF MachineTypeOK
  <2>2. NoAttr \in Attr
    BY DEF NoAttr, Attr
  <2>3. DOMAIN socketCpus = {}
    BY DEF NoMap
  <2>4. at \in 1 .. Len(request.items) + 1
    BY <1>2
  <2> QED
    BY <1>1, <2>1, <2>2, <2>3, <2>4 DEF TypeOK
<1>4. Shape
  BY DEF Shape, Placed, NoMap
<1>5. MapIsLowest
  BY DEF MapIsLowest, NoMap
<1>6. PlacementsKept
  BY DEF PlacementsKept, Placed
<1> QED
  BY <1>3, <1>4, <1>5, <1>6 DEF WhereInv

\* A call that fails has no counters and no placements.
LEMMA FailInv ==
  ASSUME WhereInv, pc # "done", Fail
  PROVE  WhereInv'
<1> USE DEF WhereInv, Fail, machineVars
<1>1. TypeOK'
  BY DEF TypeOK, MachineTypeOK
<1>2. Shape'
  BY DEF Shape, Placed
<1>3. MapIsLowest'
  BY DEF MapIsLowest
<1>4. PlacementsKept'
  BY DEF PlacementsKept, Placed
<1> QED
  BY <1>1, <1>2, <1>3, <1>4

LEMMA BuildItemInv ==
  ASSUME WhereInv, BuildItem
  PROVE  WhereInv'
<1> USE DEF WhereInv, BuildItem, machineVars
<1>1. TypeOK'
  <2>1. at \in 1 .. Len(request.items) /\ request.items \in Seq(Item)
    BY RequestFacts DEF TypeOK
  <2>2. request.items[at] \in Item
    BY <2>1, ElementOfSeq
  <2>3. options' \in Attr
    BY <2>2, OptionTypes DEF TypeOK
  <2>4. at' \in 1 .. Len(request.items) + 1
    BY <2>1
  <2> QED
    BY <2>3, <2>4 DEF TypeOK, MachineTypeOK
<1>2. Shape'
  BY DEF Shape, Placed
<1>3. MapIsLowest'
  BY DEF MapIsLowest
<1>4. PlacementsKept'
  BY DEF PlacementsKept, Placed, Shape
<1> QED
  BY <1>1, <1>2, <1>3, <1>4

LEMMA BuiltInv ==
  ASSUME WhereInv, Built
  PROVE  WhereInv'
<1> USE DEF WhereInv, Built, machineVars
<1>1. TypeOK'
  <2>1. request.onExec \in BOOLEAN
    BY DEF TypeOK, Request
  <2>2. options' \in Attr
    BY <2>1, OptionTypes DEF TypeOK
  <2> QED
    BY <2>2 DEF TypeOK, MachineTypeOK
<1>2. Shape'
  BY DEF Shape, Placed
<1>3. MapIsLowest'
  BY DEF MapIsLowest
<1>4. PlacementsKept'
  BY DEF PlacementsKept, Placed, Shape
<1> QED
  BY <1>1, <1>2, <1>3, <1>4

LEMMA GlobInv ==
  ASSUME WhereInv, Glob
  PROVE  WhereInv'
<1> USE DEF WhereInv, Glob, GlobPackageIds, machineVars
<1>1. TypeOK'
  BY TopologyAssumption DEF TypeOK, MachineTypeOK
<1>2. Shape'
  BY DEF Shape, Placed
<1>3. MapIsLowest'
  BY DEF MapIsLowest, Shape
<1>4. PlacementsKept'
  BY DEF PlacementsKept, Placed, Shape
<1> QED
  BY <1>1, <1>2, <1>3, <1>4

LEMMA AllReadInv ==
  ASSUME WhereInv, AllRead
  PROVE  WhereInv'
<1> USE DEF WhereInv, AllRead, machineVars
<1>1. TypeOK'
  BY DEF TypeOK, MachineTypeOK
<1>2. Shape'
  BY DEF Shape, Placed
<1>3. MapIsLowest'
  BY DEF MapIsLowest
<1>4. PlacementsKept'
  BY DEF PlacementsKept, Placed, Shape
<1> QED
  BY <1>1, <1>2, <1>3, <1>4

\* One more cpu is in the map, and the map is that of the lowest still.
LEMMA ReadIdInv ==
  ASSUME WhereInv, ReadId
  PROVE  WhereInv'
<1> USE DEF WhereInv, ReadId, machineVars
<1>1. PICK cpu \in online :
        /\ IsFirst(cpu, unread)
        /\ socketCpus' = Assign(socketCpus, cpu)
        /\ unread' = unread \ {cpu}
  OBVIOUS
<1>2. cpu \in unread /\ cpu \in matches /\ cpu \in CpuNumbers
  BY <1>1 DEF IsFirst, TypeOK
<1>3. cpu \in Nat /\ SocketOf[cpu] \in Sockets
  BY <1>2, CpuFacts DEF Sockets
<1>4. \A s \in DOMAIN socketCpus : socketCpus[s] \in Nat
  BY CpuFacts DEF TypeOK
<1>5. DOMAIN socketCpus' = DOMAIN socketCpus \cup {SocketOf[cpu]}
  BY <1>1 DEF Assign
<1>6. \A s \in DOMAIN socketCpus' :
        socketCpus'[s] = IF s = SocketOf[cpu] /\ (s \in DOMAIN socketCpus => cpu < socketCpus[s])
                         THEN cpu ELSE socketCpus[s]
  BY <1>1 DEF Assign
<1>7. TypeOK'
  <2>1. DOMAIN socketCpus' \subseteq Sockets
    BY <1>3, <1>5 DEF TypeOK
  <2>2. \A s \in DOMAIN socketCpus' : socketCpus'[s] \in CpuNumbers
    BY <1>2, <1>5, <1>6 DEF TypeOK
  <2>3. unread' \in SUBSET matches'
    BY <1>1 DEF TypeOK
  <2> QED
    BY <2>1, <2>2, <2>3 DEF TypeOK, MachineTypeOK
<1>8. Shape'
  BY DEF Shape, Placed
<1>9. MapIsLowest'
  <2>1. matches' \ unread' = (matches \ unread) \cup {cpu}
    BY <1>1, <1>2
  <2>2. \A s \in DOMAIN socketCpus' :
          socketCpus'[s] \in matches' \ unread' /\ SocketOf[socketCpus'[s]] = s
    BY <1>5, <1>6, <2>1 DEF MapIsLowest
  <2>3. ASSUME NEW other \in matches' \ unread'
        PROVE  /\ SocketOf[other] \in DOMAIN socketCpus'
               /\ socketCpus'[SocketOf[other]] <= other
    <3>1. other \in Nat
      BY CpuFacts DEF TypeOK
    <3>2. CASE other = cpu
      BY <1>3, <1>4, <1>5, <1>6, <3>2
    <3>3. CASE other # cpu
      <4>1. other \in matches \ unread
        BY <2>1, <3>3
      <4>2. SocketOf[other] \in DOMAIN socketCpus /\ socketCpus[SocketOf[other]] <= other
        BY <4>1 DEF MapIsLowest
      <4> QED
        BY <1>3, <1>4, <1>5, <1>6, <3>1, <4>2
    <3> QED
      BY <3>2, <3>3
  <2> QED
    BY <2>2, <2>3 DEF MapIsLowest
<1>10. PlacementsKept'
  BY DEF PlacementsKept, Placed, Shape
<1> QED
  BY <1>7, <1>8, <1>9, <1>10
-----------------------------------------------------------------------------
\* All placements are to do; what Placeable has checked holds from here on.
LEMMA PlaceInv ==
  ASSUME WhereInv, Place
  PROVE  WhereInv'
<1> USE DEF WhereInv, Place, machineVars
<1>1. Wanted(request) \subseteq UnitIndices(request) \X CoreIndices(request)
  BY WantedFacts DEF TypeOK
<1>2. TypeOK'
  BY <1>1, OnlineFacts DEF TypeOK, MachineTypeOK
<1>3. Shape'
  BY DEF Shape, Placed
<1>4. MapIsLowest'
  BY DEF MapIsLowest
<1>5. PlacementsKept'
  BY DEF PlacementsKept, Placed, Placeable, Shape
<1> QED
  BY <1>2, <1>3, <1>4, <1>5

LEMMA ConfigureInv ==
  ASSUME WhereInv, Configure
  PROVE  WhereInv'
<1> USE DEF WhereInv, Configure, machineVars
<1>1. TypeOK'
  <2>1. request.event.attr \in Attr
    BY RequestFacts DEF TypeOK
  <2>2. Merge(request.event.attr, options) \in Attr
    BY <2>1, OptionTypes DEF TypeOK
  <2>3. attr' \in Attr
    BY <2>2, OptionTypes
  <2> QED
    BY <2>3 DEF TypeOK, MachineTypeOK
<1>2. Shape'
  BY DEF Shape, Placed
<1>3. MapIsLowest'
  BY DEF MapIsLowest
<1>4. PlacementsKept'
  <2>1. PICK p \in todo : IsNext(p) /\ ConfigurePlacement(CpuOf(p), TypeOf(p))
    OBVIOUS
  <2>2. ASSUME NEW q \in todo, IsNext(q)
        PROVE  q = p
    <3>1. p \in Wanted(request) /\ q \in Wanted(request)
      BY <2>1 DEF PlacementsKept, Placed
    <3>2. p[1] \in Nat /\ p[2] \in Nat /\ p = <<p[1], p[2]>>
      BY <3>1, PlacementTypes DEF Placed
    <3>3. q[1] \in Nat /\ q[2] \in Nat /\ q = <<q[1], q[2]>>
      BY <3>1, PlacementTypes DEF Placed
    <3>4. p[1] = q[1] /\ p[2] = q[2]
      BY <2>1, <2>2, <3>2, <3>3 DEF IsNext
    <3> QED
      BY <3>2, <3>3, <3>4
  <2>3. \E k \in DOMAIN request.event.types : request.event.types[k].type = TypeOf(p)
    BY <2>1 DEF ConfigurePlacement
  <2>4. \A q \in todo' : IsNext(q)' => q = p
    BY <2>2 DEF IsNext
  <2> QED
    BY <2>3, <2>4 DEF PlacementsKept, Placed, Cores, TypeOf
<1> QED
  BY <1>1, <1>2, <1>3, <1>4

\* The placement that is next is open instead of to do.
LEMMA OpenInv ==
  ASSUME WhereInv, Open
  PROVE  WhereInv'
<1> USE DEF WhereInv, Open, machineVars
<1>1. PICK p \in todo :
        /\ IsNext(p)
        /\ sent' = sent \cup {[i |-> p[1], j |-> p[2], cpu |-> CpuOf(p), type |-> TypeOf(p), attr |-> attr]}
        /\ todo' = todo \ {p}
  OBVIOUS
<1>2. p \in Wanted(request) /\ Placed
  BY <1>1 DEF PlacementsKept, Placed
<1>3. /\ p[1] \in Nat /\ p[2] \in Nat /\ p = <<p[1], p[2]>>
      /\ CpuOf(p) \in Int /\ TypeOf(p) \in Nat
  BY <1>2, PlacementTypes
<1> DEFINE counter == [i |-> p[1], j |-> p[2], cpu |-> CpuOf(p), type |-> TypeOf(p), attr |-> attr]
<1>4. TypeOK'
  <2>1. counter \in Counter
    BY <1>3 DEF TypeOK, Counter
  <2>2. sent' \subseteq Counter
    BY <1>1, <2>1 DEF TypeOK
  <2>3. todo' \subseteq UnitIndices(request) \X CoreIndices(request)
    BY <1>1 DEF TypeOK
  <2> QED
    BY <2>2, <2>3, OnlineFacts DEF TypeOK, MachineTypeOK
<1>5. Shape'
  BY DEF Shape, Placed
<1>6. MapIsLowest'
  BY DEF MapIsLowest
<1>7. PlacementsKept'
  <2>1. \A q \in Wanted(request) : q \in todo' \/ \E c \in sent' : c.i = q[1] /\ c.j = q[2]
    <3> TAKE q \in Wanted(request)
    <3>1. CASE q = p
      <4>1. counter \in sent' /\ counter.i = p[1] /\ counter.j = p[2]
        BY <1>1
      <4> QED
        BY <3>1, <4>1
    <3>2. CASE q # p
      BY <1>1, <1>2, <3>2 DEF PlacementsKept
    <3> QED
      BY <3>1, <3>2
  <2>2. \E k \in DOMAIN request.event.types : request.event.types[k].type = TypeOf(p)
    BY <1>1, <1>2 DEF PlacementsKept
  <2>3. /\ <<counter.i, counter.j>> \in Wanted(request)
        /\ counter.cpu = Cores[counter.j] /\ counter.type = request.factory.types[counter.i].type
        /\ \E k \in DOMAIN request.event.types : request.event.types[k].type = counter.type
    BY <1>2, <1>3, <2>2 DEF CpuOf, TypeOf
  <2>4. \A c \in sent' :
          /\ <<c.i, c.j>> \in Wanted(request)
          /\ c.cpu = Cores[c.j] /\ c.type = request.factory.types[c.i].type
          /\ \E k \in DOMAIN request.event.types : request.event.types[k].type = c.type
    BY <1>1, <1>2, <2>3 DEF PlacementsKept
  <2>5. todo' \subseteq Wanted(request)
    BY <1>1, <1>2 DEF PlacementsKept
  <2>6. Cores' = Cores
    BY DEF Cores
  <2> QED
    BY <1>2, <2>1, <2>4, <2>5, <2>6 DEF PlacementsKept
<1> QED
  BY <1>4, <1>5, <1>6, <1>7

LEMMA ReturnInv ==
  ASSUME WhereInv, Return
  PROVE  WhereInv'
<1> USE DEF WhereInv, Return, machineVars
<1>1. TypeOK'
  BY DEF TypeOK, MachineTypeOK
<1>2. Shape'
  BY DEF Shape, Placed
<1>3. MapIsLowest'
  BY DEF MapIsLowest
<1>4. PlacementsKept'
  BY DEF PlacementsKept, Placed, Cores
<1> QED
  BY <1>1, <1>2, <1>3, <1>4

\* Cpus that go or come change nothing that a call has noted.
LEMMA HotplugInv ==
  ASSUME WhereInv, CpuGoesOrComes
  PROVE  WhereInv'
<1> USE DEF WhereInv, CpuGoesOrComes, Hotplug, callVars
<1>1. TypeOK'
  <2>1. hotplugs' \in 0 .. MaxHotplugs
    BY TopologyAssumption DEF TypeOK, MachineTypeOK
  <2>2. online' \in SUBSET present' /\ 0 \in online'
    BY DEF TypeOK, MachineTypeOK
  <2>3. awake' \in SUBSET CpuNumbers
    BY <2>2, OnlineFacts DEF TypeOK
  <2> QED
    BY <2>1, <2>2, <2>3 DEF TypeOK, MachineTypeOK
<1>2. Shape'
  BY DEF Shape, Placed
<1>3. MapIsLowest'
  BY DEF MapIsLowest
<1>4. PlacementsKept'
  BY DEF PlacementsKept, Placed, Cores, IsNext, TypeOf
<1> QED
  BY <1>1, <1>2, <1>3, <1>4

\* Every step keeps the invariant.
LEMMA WhereStep == WhereInv /\ [Next]_vars => WhereInv'
<1> SUFFICES ASSUME WhereInv, [Next]_vars PROVE WhereInv'
  OBVIOUS
<1>1. CASE BuildItem
  BY <1>1, BuildItemInv
<1>2. CASE BuildFails
  BY <1>2, FailInv DEF BuildFails
<1>3. CASE Built
  BY <1>3, BuiltInv
<1>4. CASE Glob
  BY <1>4, GlobInv
<1>5. CASE ReadId
  BY <1>5, ReadIdInv
<1>6. CASE ReadIdFails
  BY <1>6, FailInv DEF ReadIdFails
<1>7. CASE AllRead
  BY <1>7, AllReadInv
<1>8. CASE Place
  BY <1>8, PlaceInv
<1>9. CASE PlaceFails
  BY <1>9, FailInv DEF PlaceFails
<1>10. CASE Configure
  BY <1>10, ConfigureInv
<1>11. CASE ConfigureFails
  BY <1>11, FailInv DEF ConfigureFails
<1>12. CASE Open
  BY <1>12, OpenInv
<1>13. CASE OpenFails
  BY <1>13, FailInv DEF OpenFails
<1>14. CASE Return
  BY <1>14, ReturnInv
<1>15. CASE CpuGoesOrComes
  BY <1>15, HotplugInv
<1>16. CASE UNCHANGED vars
  <2> USE <1>16 DEF vars, machineVars, callVars, WhereInv
  <2>1. TypeOK'
    BY DEF TypeOK, MachineTypeOK
  <2>2. Shape' /\ MapIsLowest'
    BY DEF Shape, Placed, MapIsLowest
  <2>3. PlacementsKept'
    BY DEF PlacementsKept, Placed, Cores, IsNext, TypeOf
  <2> QED
    BY <2>1, <2>2, <2>3
<1> QED
  BY <1>1, <1>2, <1>3, <1>4, <1>5, <1>6, <1>7, <1>8, <1>9, <1>10, <1>11, <1>12, <1>13, <1>14,
     <1>15, <1>16 DEF Next, Step

\* The placements, the map of sockets and the counters fit together in every
\* state of every call.
THEOREM PlacementInvariance == Spec => []WhereInv
BY WhereInit, WhereStep, PTL DEF Spec

\* Every variable of a call and of the machine keeps its type.
THEOREM TypeCorrect == Spec => []TypeOK
<1>1. WhereInv => TypeOK
  BY DEF WhereInv
<1> QED
  BY <1>1, PlacementInvariance, PTL
-----------------------------------------------------------------------------
\* A counter sits where the client asked for it: on the cpu asked for or the
\* lowest of the socket, with one counter for each placement when the call
\* succeeds, whatever cpus go or come (placements.go, topology.go).
THEOREM CountersWhereAsked == Spec => []OpenedWhereAsked
<1>1. WhereInv => OpenedWhereAsked
  <2> SUFFICES ASSUME WhereInv PROVE OpenedWhereAsked
    OBVIOUS
  <2> USE DEF WhereInv
  <2>1. request \in Request /\ UnitIndices(request) \subseteq Nat /\ CoreIndices(request) \subseteq Nat
    BY RequestFacts DEF TypeOK
  <2>2. sent # {} => Placed
    BY DEF Shape
  <2>3. ASSUME NEW c \in sent
        PROVE  /\ c.i \in UnitIndices(request) /\ c.type = request.factory.types[c.i].type
               /\ \E k \in DOMAIN request.event.types : request.event.types[k].type = c.type
               /\ IF request.kind = "core"
                  THEN c.j \in DOMAIN request.cpus /\ c.cpu = request.cpus[c.j]
                  ELSE /\ c.cpu \in matches /\ SocketOf[c.cpu] = request.socket
                       /\ \A cpu \in matches : SocketOf[cpu] = request.socket => c.cpu <= cpu
    <3>1. /\ <<c.i, c.j>> \in Wanted(request)
          /\ c.cpu = Cores[c.j] /\ c.type = request.factory.types[c.i].type
          /\ \E k \in DOMAIN request.event.types : request.event.types[k].type = c.type
      BY <2>2 DEF PlacementsKept
    <3>2. c.i \in UnitIndices(request) /\ c.j \in CoreIndices(request)
      BY <2>1, <3>1, WantedFacts
    <3>3. CASE request.kind = "core"
      BY <3>1, <3>2, <3>3 DEF CoreIndices, Cores
    <3>4. CASE request.kind # "core"
      <4>1. c.j = 1 /\ request.socket \in DOMAIN socketCpus /\ unread = {}
        BY <2>2, <3>2, <3>4 DEF CoreIndices, PlacementsKept, Shape
      <4>2. c.cpu = socketCpus[request.socket]
        BY <3>1, <3>4, <4>1 DEF Cores
      <4> QED
        BY <3>1, <3>2, <3>4, <4>1, <4>2 DEF MapIsLowest
    <3> QED
      BY <3>1, <3>2, <3>3, <3>4
  <2>4. ASSUME outcome = "ok", NEW p \in Wanted(request)
        PROVE  \E c \in sent : c.i = p[1] /\ c.j = p[2]
    BY <2>4 DEF Shape, Placed, PlacementsKept
  <2>5. CASE outcome = "ok" /\ request.kind = "uncore"
    <3>1. UnitIndices(request) # {}
      BY <2>5 DEF Placed, PlacementsKept
    <3>2. PICK first \in UnitIndices(request) : \A i \in UnitIndices(request) : first <= i
      BY <2>1, <3>1, LeastNat
    <3>3. FirstUnit(request) = {first}
      BY <2>1, <3>2 DEF FirstUnit
    <3>4. Wanted(request) = {<<first, 1>>}
      BY <2>5, <3>3 DEF Wanted, CoreIndices
    <3>5. \E c \in sent : c.i = first /\ c.j = 1
      BY <2>4, <2>5, <3>4
    <3>6. \A d \in sent : d.i = first /\ d.j = 1
      BY <2>5, <3>4 DEF Placed, PlacementsKept
    <3>7. \E c \in sent : \A d \in sent : d.i = c.i /\ d.j = c.j
      BY <3>5, <3>6
    <3>8. \A c \in sent, i \in UnitIndices(request) : c.i <= i
      BY <3>2, <3>6
    <3> QED
      BY <2>3, <2>5, <3>7, <3>8 DEF OpenedWhereAsked
  <2>6. CASE outcome = "ok" /\ request.kind # "uncore"
    <3>1. Wanted(request) = UnitIndices(request) \X CoreIndices(request)
      BY <2>6 DEF Wanted
    <3>2. ASSUME NEW i \in UnitIndices(request), NEW j \in CoreIndices(request)
          PROVE  \E c \in sent : c.i = i /\ c.j = j
      <4>1. <<i, j>> \in Wanted(request)
        BY <3>1
      <4> QED
        BY <2>4, <2>6, <4>1
    <3> QED
      BY <2>3, <2>6, <3>2 DEF OpenedWhereAsked
  <2>7. CASE outcome # "ok"
    BY <2>3, <2>7 DEF OpenedWhereAsked
  <2> QED
    BY <2>5, <2>6, <2>7
<1> QED
  BY <1>1, PlacementInvariance, PTL
-----------------------------------------------------------------------------
\* What is known of the cpu of the placement that is next: it has been checked
\* since the counter before was opened, and cpus that have come are awake too.
Watched ==
  /\ pc \in {"configure", "open"} => online \subseteq awake
  /\ pc = "open" =>
       \A p \in todo : IsNext(p) => CpuOf(p) \in awake \/ CpuOf(p) \notin present

\* Only one placement is next.
LEMMA NextIsOne ==
  ASSUME WhereInv, pc \in {"configure", "open"}, NEW p \in todo, NEW q \in todo, IsNext(p), IsNext(q)
  PROVE  p = q
<1>1. p \in Wanted(request) /\ q \in Wanted(request) /\ Placed
  BY DEF WhereInv, PlacementsKept, Placed
<1>2. p[1] \in Nat /\ p[2] \in Nat /\ p = <<p[1], p[2]>>
  BY <1>1, PlacementTypes
<1>3. q[1] \in Nat /\ q[2] \in Nat /\ q = <<q[1], q[2]>>
  BY <1>1, PlacementTypes
<1>4. p[1] = q[1] /\ p[2] = q[2]
  BY <1>2, <1>3 DEF IsNext
<1> QED
  BY <1>2, <1>3, <1>4

LEMMA WatchedStep == WhereInv /\ Watched /\ [Next]_vars => Watched'
<1> SUFFICES ASSUME WhereInv, Watched, [Next]_vars PROVE Watched'
  OBVIOUS
<1>1. CASE Configure
  <2>1. /\ UNCHANGED <<present, online, awake, todo, request, socketCpus>>
        /\ pc = "configure" /\ pc' = "open"
    BY <1>1 DEF Configure, machineVars
  <2>2. PICK p \in todo : IsNext(p) /\ ConfigurePlacement(CpuOf(p), TypeOf(p))
    BY <1>1 DEF Configure
  <2>3. CpuOf(p) \in online \/ CpuOf(p) \notin present
    BY <2>2, OnlineFacts DEF ConfigurePlacement, CpuOnline, WhereInv, TypeOK
  <2>4. \A q \in todo : IsNext(q) => q = p
    BY <2>1, <2>2, NextIsOne
  <2>5. online \subseteq awake
    BY <2>1 DEF Watched
  <2>6. Cores' = Cores
    BY <2>1 DEF Cores
  <2>7. \A q : IsNext(q)' = IsNext(q) /\ CpuOf(q)' = CpuOf(q)
    BY <2>1, <2>6 DEF IsNext, CpuOf
  <2> QED
    BY <2>1, <2>3, <2>4, <2>5, <2>7 DEF Watched
<1>2. CASE Place \/ Open
  BY <1>2 DEF Place, Open, Watched, machineVars
<1>3. CASE CpuGoesOrComes
  <2>1. /\ UNCHANGED <<present, todo, request, socketCpus, pc>>
        /\ pc \in {"configure", "open"} => awake \subseteq awake' /\ online' \subseteq awake'
    BY <1>3 DEF CpuGoesOrComes, Hotplug, callVars
  <2>2. Cores' = Cores
    BY <2>1 DEF Cores
  <2>3. \A q : IsNext(q)' = IsNext(q) /\ CpuOf(q)' = CpuOf(q)
    BY <2>1, <2>2 DEF IsNext, CpuOf
  <2> QED
    BY <2>1, <2>3 DEF Watched
<1>4. CASE UNCHANGED vars
  <2>1. UNCHANGED <<present, online, awake, todo, request, socketCpus, pc>>
    BY <1>4 DEF vars, machineVars, callVars
  <2>2. Cores' = Cores
    BY <2>1 DEF Cores
  <2>3. \A q : IsNext(q)' = IsNext(q) /\ CpuOf(q)' = CpuOf(q)
    BY <2>1, <2>2 DEF IsNext, CpuOf
  <2> QED
    BY <2>1, <2>3 DEF Watched
<1>5. CASE BuildItem \/ Built \/ Glob \/ ReadId \/ AllRead
  <2>1. pc' \notin {"configure", "open"}
    BY <1>5 DEF BuildItem, Built, Glob, ReadId, AllRead
  <2> QED
    BY <2>1 DEF Watched
<1>6. CASE BuildFails \/ ReadIdFails \/ PlaceFails \/ ConfigureFails \/ OpenFails \/ Return
  <2>1. pc' = "done"
    BY <1>6 DEF BuildFails, ReadIdFails, PlaceFails, ConfigureFails, OpenFails, Fail, Return
  <2> QED
    BY <2>1 DEF Watched
<1> QED
  BY <1>1, <1>2, <1>3, <1>4, <1>5, <1>6 DEF Next, Step

\* Every step that opens a counter finds its cpu awake, or not in the machine.
LEMMA AwakeStep ==
  ASSUME Watched, [Next]_vars
  PROVE  \A c \in sent' \ sent : c.cpu \in awake \/ c.cpu \notin present
<1>1. CASE Open
  <2>1. PICK p \in todo :
          /\ IsNext(p)
          /\ sent' = sent \cup {[i |-> p[1], j |-> p[2], cpu |-> CpuOf(p), type |-> TypeOf(p), attr |-> attr]}
    BY <1>1 DEF Open
  <2>2. CpuOf(p) \in awake \/ CpuOf(p) \notin present
    BY <1>1, <2>1 DEF Watched, Open
  <2>3. \A c \in sent' \ sent : c.cpu = CpuOf(p)
    BY <2>1
  <2> QED
    BY <2>2, <2>3
<1>2. CASE ~Open
  <2>1. sent' = sent \/ sent' = {}
    BY <1>2 DEF Next, Step, BuildItem, BuildFails, Built, Glob, ReadId, ReadIdFails, AllRead, Place,
       PlaceFails, Configure, ConfigureFails, OpenFails, Fail, Return, CpuGoesOrComes, callVars, vars
  <2> QED
    BY <2>1
<1> QED
  BY <1>1, <1>2

\* No counter is opened on a cpu of the machine that has been offline since the
\* counter before it was opened, also where the kernel would not object, however
\* long ago the placement was made (event.go:210, topology.go:217).
THEOREM CountersOpenedAwake == Spec => OpenedAwake
<1>1. Init => Watched
  BY DEF Init, Watched
<1>2. WhereInv /\ Watched /\ [Next]_vars => [\A c \in sent' \ sent : c.cpu \in awake \/ c.cpu \notin present]_vars
  BY AwakeStep
<1> QED
  BY <1>1, <1>2, WatchedStep, PlacementInvariance, PTL DEF Spec, OpenedAwake
-----------------------------------------------------------------------------
\* The options hold what the first n qualifiers of the request ask for, and
\* the flags of extra.
OptionsAre(n, extra) ==
  /\ \A f \in Fields : options.word[f] = AskedValues(request, f, n)
  /\ PreciseIP(options.bits) = UpToThree(Cardinality(AskedModifiers(request, "p", n)))
  /\ options.bits \ Precise = AskedFlags(request, n) \cup extra

\* What is asked for reaches the options, the copy of Attr and the kernel.
AttrInv ==
  /\ pc = "build" => OptionsAre(at - 1, {})
  /\ pc \notin {"build", "done"} => OptionsAre(Len(request.items), OnExecFlags(request))
  /\ pc = "open" => AsAsked(request, attr)
  /\ KernelAttr

\* The p's among the first n qualifiers can be counted.
LEMMA PreciseCount ==
  ASSUME NEW r \in Request, NEW n \in Nat
  PROVE  /\ IsFiniteSet(AskedModifiers(r, "p", n))
         /\ Cardinality(AskedModifiers(r, "p", n)) \in Nat
<1>1. IsFiniteSet(1 .. n)
  BY FS_Interval
<1>2. AskedModifiers(r, "p", n) \subseteq 1 .. n
  BY DEF AskedModifiers
<1>3. IsFiniteSet(AskedModifiers(r, "p", n))
  BY <1>1, <1>2, FS_Subset
<1> QED
  BY <1>3, FS_CardinalityType

\* incPreciseIPBits counts to three, and touches no other flag.
LEMMA IncPreciseIPCounts ==
  ASSUME NEW bits \in SUBSET Flags
  PROVE  /\ PreciseIP(IncPreciseIP(bits)) = UpToThree(PreciseIP(bits) + 1)
         /\ IncPreciseIP(bits) \ Precise = bits \ Precise
BY DEF PreciseIP, IncPreciseIP, UpToThree, Precise

\* The flag of another modifier leaves precise_ip alone.
LEMMA ModifierBitApart ==
  ASSUME NEW m \in Modifiers, m # "p"
  PROVE  ModifierBit(m) \in Flags \ Precise
BY DEF Modifiers, ModifierBit, Flags, Precise

\* One qualifier more: what is asked for grows by it.
LEMMA OneMore ==
  ASSUME NEW r \in Request, NEW n \in Nat, n + 1 <= Len(r.items),
         r.items[n + 1].kind \in {"value", "modifier"}
  PROVE  /\ \A f \in Fields :
              AskedValues(r, f, n + 1) =
                AskedValues(r, f, n) \cup
                  IF r.items[n + 1].kind = "value" /\ r.items[n + 1].field = f
                  THEN r.items[n + 1].value ELSE {}
         /\ \A m \in Modifiers :
              AskedModifiers(r, m, n + 1) =
                AskedModifiers(r, m, n) \cup
                  IF r.items[n + 1].kind = "modifier" /\ r.items[n + 1].modifier = m
                  THEN {n + 1} ELSE {}
         /\ n + 1 \notin AskedModifiers(r, "p", n)
<1>1. 1 .. (n + 1) = 1 .. n \cup {n + 1} /\ n + 1 \notin 1 .. n
  OBVIOUS
<1>2. ASSUME NEW f \in Fields
      PROVE  AskedValues(r, f, n + 1) =
               AskedValues(r, f, n) \cup
                 IF r.items[n + 1].kind = "value" /\ r.items[n + 1].field = f
                 THEN r.items[n + 1].value ELSE {}
  BY <1>1 DEF AskedValues
<1>3. ASSUME NEW m \in Modifiers
      PROVE  AskedModifiers(r, m, n + 1) =
               AskedModifiers(r, m, n) \cup
                 IF r.items[n + 1].kind = "modifier" /\ r.items[n + 1].modifier = m
                 THEN {n + 1} ELSE {}
  BY <1>1 DEF AskedModifiers
<1>4. n + 1 \notin AskedModifiers(r, "p", n)
  BY <1>1 DEF AskedModifiers
<1> QED
  BY <1>2, <1>3, <1>4
-----------------------------------------------------------------------------
\* No options, and none asked for yet.
LEMMA AttrInit == Init => AttrInv
<1> SUFFICES ASSUME Init PROVE AttrInv
  OBVIOUS
<1> USE DEF Init
<1>1. 1 .. 0 = {}
  OBVIOUS
<1>2. /\ \A f \in Fields : AskedValues(request, f, 0) = {}
      /\ \A m \in Modifiers : AskedModifiers(request, m, 0) = {}
  BY <1>1 DEF AskedValues, AskedModifiers
<1>3. AskedFlags(request, 0) = {}
  BY <1>2 DEF AskedFlags
<1>4. Cardinality(AskedModifiers(request, "p", 0)) = 0
  BY <1>2, FS_EmptySet DEF Modifiers
<1>5. at - 1 = 0
  OBVIOUS
<1>6. OptionsAre(0, {})
  BY <1>2, <1>3, <1>4 DEF OptionsAre, NoAttr, PreciseIP, UpToThree
<1> QED
  BY <1>5, <1>6 DEF AttrInv, KernelAttr

\* A value reaches its word, a modifier its flag or the precise_ip bits.
LEMMA BuildItemAttr ==
  ASSUME TypeOK, AttrInv, BuildItem
  PROVE  AttrInv'
<1>1. request \in Request /\ request.items \in Seq(Item) /\ options \in Attr
  BY RequestFacts DEF TypeOK
<1>a. at - 1 \in Nat
  BY <1>1 DEF TypeOK, BuildItem
<1>b. PICK n \in Nat : n = at - 1
  BY <1>a
<1>2. n + 1 = at /\ n + 1 <= Len(request.items)
  BY <1>1, <1>b DEF TypeOK, BuildItem
<1> DEFINE item == request.items[n + 1]
<1>3. item \in Item /\ item.kind \in {"value", "modifier"}
  <2>1. item \in Item
    BY <1>1, <1>2, ElementOfSeq
  <2> QED
    BY <1>2, <2>1 DEF Item, BuildItem
<1>4. options' = UpdateQualifier(options, item) /\ request' = request
  BY <1>2 DEF BuildItem
<1>5. OptionsAre(n, {})
  BY <1>b DEF AttrInv, BuildItem
<1>6. /\ \A f \in Fields :
           AskedValues(request, f, n + 1) =
             AskedValues(request, f, n) \cup IF item.kind = "value" /\ item.field = f THEN item.value ELSE {}
      /\ \A m \in Modifiers :
           AskedModifiers(request, m, n + 1) =
             AskedModifiers(request, m, n) \cup
               IF item.kind = "modifier" /\ item.modifier = m THEN {n + 1} ELSE {}
      /\ n + 1 \notin AskedModifiers(request, "p", n)
  BY <1>1, <1>2, <1>3, OneMore
<1>7. options.bits \in SUBSET Flags /\ options.word \in [Fields -> SUBSET ConfigBits]
  BY <1>1 DEF Attr
<1> HIDE DEF item
<1>8. OptionsAre(n + 1, {})'
  <2>1. CASE item.kind = "value"
    <3>1. item.field \in Fields
      BY <1>3, <2>1 DEF Item
    <3>2. options' = [options EXCEPT !.word[item.field] = options.word[item.field] \cup item.value]
      BY <1>4, <2>1 DEF UpdateQualifier
    <3>3. /\ options'.bits = options.bits
          /\ \A f \in Fields :
               options'.word[f] = options.word[f] \cup IF item.field = f THEN item.value ELSE {}
      BY <1>1, <1>7, <3>1, <3>2 DEF Attr
    <3>4. \A m \in Modifiers : AskedModifiers(request, m, n + 1) = AskedModifiers(request, m, n)
      BY <1>6, <2>1
    <3>5. AskedFlags(request, n + 1) = AskedFlags(request, n)
      BY <3>4 DEF AskedFlags
    <3>6. AskedModifiers(request, "p", n + 1) = AskedModifiers(request, "p", n)
      BY <3>4 DEF Modifiers
    <3>7. \A f \in Fields : options'.word[f] = AskedValues(request, f, n + 1)
      <4> TAKE f \in Fields
      <4>1. options.word[f] = AskedValues(request, f, n)
        BY <1>5 DEF OptionsAre
      <4>2. CASE item.field = f
        BY <1>6, <2>1, <3>3, <4>1, <4>2
      <4>3. CASE item.field # f
        <5>1. options'.word[f] = options.word[f] \cup {}
          BY <3>3, <4>3
        <5>2. AskedValues(request, f, n + 1) = AskedValues(request, f, n) \cup {}
          BY <1>6, <4>3
        <5> QED
          BY <4>1, <5>1, <5>2
      <4> QED
        BY <4>2, <4>3
    <3> QED
      BY <1>4, <1>5, <3>3, <3>5, <3>6, <3>7 DEF OptionsAre
  <2>2. CASE item.kind = "modifier"
    <3>1. item.modifier \in Modifiers
      BY <1>3, <2>2 DEF Item
    <3>2. options' = UpdateModifier(options, item.modifier)
      BY <1>4, <2>2 DEF UpdateQualifier
    <3>3. options'.word = options.word
      BY <1>1, <3>2 DEF UpdateModifier, Attr
    <3>4. options'.bits = IF item.modifier = "p" THEN IncPreciseIP(options.bits)
                          ELSE options.bits \cup {ModifierBit(item.modifier)}
      BY <1>1, <3>2 DEF UpdateModifier, Attr
    <3>5. \A f \in Fields : options'.word[f] = AskedValues(request, f, n + 1)
      BY <1>5, <1>6, <2>2, <3>3 DEF OptionsAre
    <3>6. CASE item.modifier = "p"
      <4>1. /\ IsFiniteSet(AskedModifiers(request, "p", n))
            /\ Cardinality(AskedModifiers(request, "p", n)) \in Nat
        BY <1>1, <1>2, PreciseCount
      <4>2. AskedModifiers(request, "p", n + 1) = AskedModifiers(request, "p", n) \cup {n + 1}
        BY <1>6, <2>2, <3>6 DEF Modifiers
      <4>3. Cardinality(AskedModifiers(request, "p", n + 1)) =
              Cardinality(AskedModifiers(request, "p", n)) + 1
        BY <1>6, <4>1, <4>2, FS_AddElement
      <4>4. PreciseIP(options'.bits) = UpToThree(PreciseIP(options.bits) + 1)
        BY <1>7, <3>4, <3>6, IncPreciseIPCounts
      <4>5. PreciseIP(options'.bits) = UpToThree(Cardinality(AskedModifiers(request, "p", n + 1)))
        BY <1>5, <4>1, <4>3, <4>4 DEF OptionsAre, UpToThree
      <4>6. \A m \in Modifiers \ {"p"} :
              AskedModifiers(request, m, n + 1) = AskedModifiers(request, m, n)
        BY <1>6, <3>6
      <4>7. AskedFlags(request, n + 1) = AskedFlags(request, n)
        BY <4>6 DEF AskedFlags
      <4>8. options'.bits \ Precise = options.bits \ Precise
        BY <1>7, <3>4, <3>6, IncPreciseIPCounts
      <4> QED
        BY <1>4, <1>5, <3>5, <4>5, <4>7, <4>8 DEF OptionsAre
    <3>7. CASE item.modifier # "p"
      <4> DEFINE bit == ModifierBit(item.modifier)
      <4>1. bit \in Flags \ Precise
        BY <3>1, <3>7, ModifierBitApart
      <4>2. AskedModifiers(request, "p", n + 1) = AskedModifiers(request, "p", n)
        BY <1>6, <3>7 DEF Modifiers
      <4>3. options'.bits = options.bits \cup {bit}
        BY <3>4, <3>7
      <4>4. AskedFlags(request, n + 1) = AskedFlags(request, n) \cup {bit}
        <5>1. \A m \in Modifiers :
                AskedModifiers(request, m, n + 1) # {} <=>
                  (AskedModifiers(request, m, n) # {} \/ m = item.modifier)
          BY <1>6, <2>2
        <5>2. {m \in Modifiers \ {"p"} : AskedModifiers(request, m, n + 1) # {}} =
                {m \in Modifiers \ {"p"} : AskedModifiers(request, m, n) # {}} \cup {item.modifier}
          BY <3>1, <3>7, <5>1
        <5> QED
          BY <5>2 DEF AskedFlags
      <4> HIDE DEF bit
      <4>5. PreciseIP(options'.bits) = PreciseIP(options.bits)
        BY <4>1, <4>3 DEF PreciseIP, Precise
      <4>6. options'.bits \ Precise = (options.bits \ Precise) \cup {bit}
        BY <4>1, <4>3
      <4> QED
        BY <1>4, <1>5, <3>5, <4>2, <4>4, <4>5, <4>6 DEF OptionsAre
    <3> QED
      BY <3>6, <3>7
  <2> QED
    BY <1>3, <2>1, <2>2
<1>9. (at - 1)' = n + 1
  BY <1>2 DEF BuildItem
<1>10. OptionsAre(at - 1, {})'
  BY <1>8, <1>9 DEF OptionsAre
<1> QED
  BY <1>10 DEF AttrInv, KernelAttr, BuildItem

\* optionsBuilder.Build adds the two flags of enable_on_exec last.
LEMMA BuiltAttr ==
  ASSUME TypeOK, AttrInv, Built
  PROVE  AttrInv'
<1>1. request \in Request /\ request.items \in Seq(Item) /\ options \in Attr /\ request' = request
  BY RequestFacts DEF TypeOK, Built
<1>2. at - 1 = Len(request.items)
  BY <1>1 DEF TypeOK, Built
<1>3. OptionsAre(Len(request.items), {})
  BY <1>2 DEF AttrInv, Built
<1>4. options'.word = options.word /\ options'.bits = options.bits \cup OnExecFlags(request)
  BY <1>1 DEF Built, SetEnableOnExec, Attr, OnExecFlags
<1>5. OnExecFlags(request) \cap Precise = {}
  BY DEF OnExecFlags, Precise
<1>6. PreciseIP(options'.bits) = PreciseIP(options.bits)
  BY <1>4, <1>5 DEF PreciseIP, Precise
<1>7. OptionsAre(Len(request.items), OnExecFlags(request))'
  BY <1>1, <1>3, <1>4, <1>5, <1>6 DEF OptionsAre
<1> QED
  BY <1>7 DEF AttrInv, KernelAttr, Built

\* activateWithLeader merges Attr, the options and the inherit flag.
LEMMA ConfigureAttr ==
  ASSUME TypeOK, AttrInv, Configure
  PROVE  AttrInv'
<1> DEFINE event == request.event.attr
<1>1. /\ request \in Request /\ options \in Attr /\ request' = request /\ options' = options
      /\ event \in Attr
  BY RequestFacts DEF TypeOK, Configure
<1>2. event.bits = {}
  BY <1>1 DEF Request, Event
<1>3. OptionsAre(Len(request.items), OnExecFlags(request))
  BY DEF AttrInv, Configure
<1>4. /\ attr'.word = [f \in Fields |-> event.word[f] \cup options.word[f]]
      /\ attr'.bits = event.bits \cup options.bits \cup {"inherit"}
      /\ attr'.size = event.size
  BY <1>1 DEF Configure, Merge, Attr
<1> HIDE DEF event
<1>5. \A f \in Fields :
        KernelWord(attr', f) =
          IF f = "config2" /\ event.size = "ver0"
          THEN {} ELSE event.word[f] \cup AskedValues(request, f, Len(request.items))
  BY <1>3, <1>4 DEF OptionsAre, KernelWord
<1>6. PreciseIP(attr'.bits) =
        UpToThree(Cardinality(AskedModifiers(request, "p", Len(request.items))))
  <2>1. PreciseIP(attr'.bits) = PreciseIP(options.bits)
    BY <1>2, <1>4 DEF PreciseIP
  <2> QED
    BY <1>3, <2>1 DEF OptionsAre
<1>7. attr'.bits \ Precise =
        AskedFlags(request, Len(request.items)) \cup OnExecFlags(request) \cup {"inherit"}
  <2>1. attr'.bits \ Precise = (options.bits \ Precise) \cup {"inherit"}
    BY <1>2, <1>4 DEF Precise
  <2> QED
    BY <1>3, <2>1 DEF OptionsAre
<1>8. AsAsked(request, attr')
  BY <1>5, <1>6, <1>7 DEF AsAsked, event
<1>9. AsAsked(request, attr)'
  BY <1>1, <1>8 DEF AsAsked, KernelWord
<1>10. OptionsAre(Len(request.items), OnExecFlags(request))'
  BY <1>1, <1>3 DEF OptionsAre
<1>11. KernelAttr'
  BY <1>1 DEF AttrInv, KernelAttr, Configure
<1> QED
  BY <1>9, <1>10, <1>11 DEF AttrInv, Configure

\* What the kernel is given is that copy of Attr.
LEMMA OpenAttr ==
  ASSUME TypeOK, AttrInv, Open
  PROVE  AttrInv'
<1>1. request' = request /\ options' = options /\ pc' = "configure"
  BY DEF Open
<1>2. AsAsked(request, attr) /\ OptionsAre(Len(request.items), OnExecFlags(request))
  BY DEF AttrInv, Open
<1>3. \A c \in sent' : c \in sent \/ c.attr = attr
  BY DEF Open
<1>4. KernelAttr'
  BY <1>1, <1>2, <1>3 DEF AttrInv, KernelAttr
<1>5. OptionsAre(Len(request.items), OnExecFlags(request))'
  BY <1>1, <1>2 DEF OptionsAre
<1> QED
  BY <1>1, <1>4, <1>5 DEF AttrInv

\* All other steps leave the attributes alone.
LEMMA AttrStep == TypeOK /\ AttrInv /\ [Next]_vars => AttrInv'
<1> SUFFICES ASSUME TypeOK, AttrInv, [Next]_vars PROVE AttrInv'
  OBVIOUS
<1>1. CASE BuildItem
  BY <1>1, BuildItemAttr
<1>2. CASE Built
  BY <1>2, BuiltAttr
<1>3. CASE Configure
  BY <1>3, ConfigureAttr
<1>4. CASE Open
  BY <1>4, OpenAttr
<1>5. ASSUME Fail
      PROVE  AttrInv'
  BY <1>5 DEF Fail, AttrInv, KernelAttr
<1>6. CASE BuildFails \/ ReadIdFails \/ PlaceFails \/ ConfigureFails \/ OpenFails
  BY <1>5, <1>6 DEF BuildFails, ReadIdFails, PlaceFails, ConfigureFails, OpenFails
<1>7. ASSUME pc \notin {"build", "open"}, pc' \notin {"build", "open"}, pc # "done" \/ pc' = "done",
             UNCHANGED <<request, options, sent>>
      PROVE  AttrInv'
  BY <1>7 DEF AttrInv, KernelAttr, OptionsAre
<1>8. CASE Glob \/ ReadId \/ AllRead \/ Place \/ Return
  BY <1>7, <1>8 DEF Glob, ReadId, AllRead, Place, Return
<1>9. ASSUME UNCHANGED callVars
      PROVE  AttrInv'
  BY <1>9 DEF callVars, AttrInv, KernelAttr, OptionsAre
<1>10. CASE CpuGoesOrComes
  BY <1>9, <1>10 DEF CpuGoesOrComes
<1>11. CASE UNCHANGED vars
  BY <1>9, <1>11 DEF vars
<1> QED
  BY <1>1, <1>2, <1>3, <1>4, <1>6, <1>8, <1>10, <1>11 DEF Next, Step

\* The kernel is given what the event is defined as and the options add, for
\* any lists of options (options.go, modifiers.go, event.go:185).
THEOREM AttributesAsAsked == Spec => []KernelAttr
<1>1. AttrInv => KernelAttr
  BY DEF AttrInv
<1> QED
  BY <1>1, AttrInit, AttrStep, TypeCorrect, PTL DEF Spec
-----------------------------------------------------------------------------
\* The cpus of a range.
RangeCpus(r) == r.first .. r.last
CpusOf(ranges) == UNION {RangeCpus(r) : r \in ranges}

\* Two ranges of the list have no cpu in common, and each starts at a cpu of its own.
LEMMA RangesApart ==
  ASSUME present \subseteq Nat, NEW r \in PresentList, NEW q \in PresentList
  PROVE  /\ RangeCpus(r) \cap RangeCpus(q) # {} => r = q
         /\ r.first = q.first => r = q
<1> USE DEF PresentList, RangeCpus
<1>1. /\ r \in [first : present, last : present] /\ q \in [first : present, last : present]
      /\ r.first \in Nat /\ r.last \in Nat /\ q.first \in Nat /\ q.last \in Nat
  OBVIOUS
<1>2. /\ r.first - 1 \notin present /\ r.last + 1 \notin present
      /\ q.first - 1 \notin present /\ q.last + 1 \notin present
      /\ \A n \in r.first .. r.last : n \in present
      /\ \A n \in q.first .. q.last : n \in present
  OBVIOUS
<1>3. ASSUME NEW n \in r.first .. r.last, n \in q.first .. q.last
      PROVE  r = q
  <2>1. r.first = q.first
    <3>1. r.first - 1 \notin q.first .. q.last /\ q.first - 1 \notin r.first .. r.last
      BY <1>2
    <3> QED BY <1>1, <1>3, <3>1
  <2>2. r.last = q.last
    <3>1. r.last + 1 \notin q.first .. q.last /\ q.last + 1 \notin r.first .. r.last
      BY <1>2
    <3> QED BY <1>1, <1>3, <3>1
  <2> QED BY <1>1, <2>1, <2>2
<1>4. r.first \in r.first .. r.last /\ q.first \in q.first .. q.last
  BY <1>1
<1> QED BY <1>3, <1>4

\* The list can be summed up.
LEMMA ListIsFinite ==
  ASSUME present \subseteq Nat, IsFiniteSet(present)
  PROVE  IsFiniteSet(PresentList)
<1> DEFINE f == [r \in PresentList |-> r.first]
<1>1. f \in [PresentList -> present]
  BY DEF PresentList
<1>2. \A r, q \in PresentList : f[r] = f[q] => r = q
  BY RangesApart
<1>3. f \in Injection(PresentList, present)
  BY <1>1, <1>2 DEF Injection, IsInjective
<1> QED BY <1>3, FS_Injection

\* Every cpu is in a range of the list.
LEMMA ListIsComplete ==
  ASSUME present \subseteq Nat, IsFiniteSet(present)
  PROVE  CpusOf(PresentList) = present
<1>1. CpusOf(PresentList) \subseteq present
  BY DEF CpusOf, RangeCpus, PresentList
<1>2. ASSUME NEW cpu \in present PROVE cpu \in CpusOf(PresentList)
  <2> DEFINE Firsts == {n \in Nat : n <= cpu /\ n .. cpu \subseteq present}
             Ends == {n \in Nat : cpu <= n /\ n + 1 \notin present}
  <2>1. cpu \in Nat
    OBVIOUS
  <2>2. cpu \in Firsts
    <3>1. cpu .. cpu = {cpu}
      BY <2>1
    <3> QED BY <2>1, <3>1
  <2>3. PICK first \in Firsts : \A n \in Firsts : first <= n
    <3> HIDE DEF Firsts
    <3>1. Firsts \subseteq Nat
      BY DEF Firsts
    <3> QED BY <2>2, <3>1, LeastNat
  <2>4. Ends # {}
    <3> SUFFICES ASSUME \A n \in Nat : cpu <= n => n + 1 \in present PROVE FALSE
      BY <2>1
    <3>1. Cardinality(present) \in Nat
      BY FS_CardinalityType
    <3> DEFINE T == cpu .. (cpu + Cardinality(present))
    <3>2. T \subseteq present
      <4>1. \A n \in T : n = cpu \/ (n - 1 \in Nat /\ cpu <= n - 1)
        BY <2>1, <3>1
      <4> QED BY <4>1
    <3>3. Cardinality(T) = Cardinality(present) + 1
      BY <2>1, <3>1, FS_Interval
    <3>4. Cardinality(T) <= Cardinality(present)
      BY <3>2, FS_Subset
    <3> QED BY <3>1, <3>3, <3>4
  <2>5. PICK last \in Ends : \A n \in Ends : last <= n
    <3> HIDE DEF Ends
    <3>1. Ends \subseteq Nat
      BY DEF Ends
    <3> QED BY <2>4, <3>1, LeastNat
  <2>6. \A n \in cpu .. last : n \in present
    <3> DEFINE T == {n \in Nat : cpu + n <= last => cpu + n \in present}
    <3>1. 0 \in T
      BY <2>1
    <3>2. ASSUME NEW n \in Nat, n \in T PROVE n + 1 \in T
      BY <2>1, <2>5, <3>2
    <3>3. \A n \in Nat : n \in T
      <4> HIDE DEF T
      <4> QED BY <3>1, <3>2, Induct
    <3>4. \A n \in cpu .. last : n - cpu \in Nat /\ cpu + (n - cpu) = n
      BY <2>1
    <3> QED BY <3>3, <3>4
  <2>7. \A n \in first .. last : n \in present
    <3>1. \A n \in first .. last : n \in first .. cpu \/ n \in cpu .. last
      BY <2>1, <2>3, <2>5
    <3> QED BY <2>3, <2>6, <3>1
  <2>8. first - 1 \notin present
    <3> SUFFICES ASSUME first - 1 \in present PROVE FALSE
      OBVIOUS
    <3>1. first - 1 \in Nat /\ first - 1 <= cpu
      BY <2>1, <2>3
    <3>2. \A n \in (first - 1) .. cpu : n = first - 1 \/ n \in first .. cpu
      BY <2>1, <2>3
    <3>3. first - 1 \in Firsts
      BY <2>3, <3>1, <3>2
    <3> QED BY <2>3, <3>1, <3>3
  <2> DEFINE r == [first |-> first, last |-> last]
  <2>9. first \in first .. last /\ last \in first .. last /\ cpu \in first .. last
    BY <2>1, <2>3, <2>5
  <2>10. r \in PresentList /\ cpu \in RangeCpus(r)
    BY <2>3, <2>5, <2>7, <2>8, <2>9 DEF PresentList, RangeCpus
  <2> HIDE DEF r
  <2> QED BY <2>10 DEF CpusOf
<1> QED BY <1>1, <1>2

\* parseCPURange counts the cpus of the list.
LEMMA CpusNumIsCount ==
  ASSUME present \subseteq Nat, IsFiniteSet(present)
  PROVE  CpusNum = Cardinality(present)
<1> DEFINE L == PresentList
           Size(r) == r.last - r.first + 1
           First(s) == CHOOSE r \in s : TRUE
           Sum(g) == g = [s \in SUBSET L |-> IF s = {} THEN 0 ELSE Size(First(s)) + g[s \ {First(s)}]]
           g == CHOOSE h : Sum(h)
<1>1. CpusNum = g[L]
  BY DEF CpusNum, ParseCPURange, MapThenSumSet, MapThenFoldSet
<1>2. IsFiniteSet(L) /\ \A s \in SUBSET L : IsFiniteSet(s)
  BY ListIsFinite, FS_Subset
<1>3. \A r \in L : /\ Size(r) \in Int
                   /\ IsFiniteSet(RangeCpus(r)) /\ Cardinality(RangeCpus(r)) = Size(r)
  <2> TAKE r \in L
  <2>1. r.first \in Nat /\ r.last \in Nat /\ r.first <= r.last
    BY DEF PresentList
  <2>2. /\ IsFiniteSet(r.first .. r.last)
        /\ Cardinality(r.first .. r.last) = IF r.first > r.last THEN 0 ELSE r.last - r.first + 1
    <3>1. r.first \in Int /\ r.last \in Int
      BY <2>1
    <3> HIDE DEF Size
    <3> QED BY <3>1, FS_Interval, Zenon
  <2> QED BY <2>1, <2>2 DEF RangeCpus
<1>4. Sum(g)
  <2> DEFINE step == [p \in L \X Int |-> Size(p[1]) + p[2]]
             c == [s \in SUBSET L |-> First(s)]
  <2>1. step \in [L \X Int -> Int]
    <3> HIDE DEF Size, L
    <3> QED BY <1>3
  <2>2. \A s \in SUBSET L : s # {} => c[s] = First(s) /\ First(s) \in s
    OBVIOUS
  <2>3. PICK h : RecursiveOnSubsets(h, L, Int, 0, step, c)
    <3>1. 0 \in Int /\ \A s \in SUBSET L : s # {} => c[s] \in s
      BY <2>2
    <3> HIDE DEF step, c, L
    <3> QED BY <1>2, <2>1, <3>1, SetRecursion
  <2>4. \A s \in SUBSET L : s # {} => step[<<c[s], h[s \ {c[s]}]>>] = Size(First(s)) + h[s \ {First(s)}]
    <3> HIDE DEF Size, L, First
    <3> QED BY <2>2, <2>3 DEF RecursiveOnSubsets
  <2>5. Sum(h)
    <3> HIDE DEF Size, L, First, step, c
    <3> QED BY <2>3, <2>4 DEF RecursiveOnSubsets
  <2> HIDE DEF Sum
  <2> QED BY <2>5
<1> HIDE DEF g
<1> DEFINE X == {s \in SUBSET L : g[s] = Cardinality(CpusOf(s)) /\ IsFiniteSet(CpusOf(s))}
<1>5. \A s \in SUBSET L : s \in X
  <2> DEFINE N == {n \in Nat : \A s \in SUBSET L : Cardinality(s) = n => s \in X}
  <2>1. \A s \in SUBSET L : Cardinality(s) \in Nat
    BY <1>2, FS_CardinalityType
  <2>2. 0 \in N
    <3> SUFFICES ASSUME NEW s \in SUBSET L, Cardinality(s) = 0 PROVE s \in X
      OBVIOUS
    <3>1. s = {}
      BY <1>2, FS_EmptySet
    <3>2. CpusOf(s) = {}
      BY <3>1 DEF CpusOf
    <3>3. g[s] = 0
      BY <1>4, <3>1
    <3> QED BY <3>2, <3>3, FS_EmptySet
  <2>3. ASSUME NEW n \in Nat, n \in N PROVE n + 1 \in N
    <3> SUFFICES ASSUME NEW s \in SUBSET L, Cardinality(s) = n + 1 PROVE s \in X
      OBVIOUS
    <3> DEFINE r == First(s)
               t == s \ {r}
    <3>1. s # {}
      BY FS_EmptySet
    <3>2. r \in s /\ t \in SUBSET L
      BY <3>1
    <3>3. g[s] = Size(r) + g[t]
      <4> HIDE DEF Size, L, First
      <4> QED BY <1>4, <3>1
    <3> HIDE DEF r
    <3>4. Cardinality(t) = n
      <4>1. Cardinality(t) = Cardinality(s) - 1
        BY <1>2, <3>2, FS_RemoveElement
      <4> QED BY <4>1
    <3>5. g[t] = Cardinality(CpusOf(t)) /\ IsFiniteSet(CpusOf(t))
      BY <2>3, <3>2, <3>4
    <3>6. CpusOf(s) = RangeCpus(r) \cup CpusOf(t)
      BY <3>2 DEF CpusOf
    <3>7. RangeCpus(r) \cap CpusOf(t) = {}
      BY <3>2, RangesApart DEF CpusOf
    <3> HIDE DEF t, L, Size
    <3>8. /\ IsFiniteSet(CpusOf(s))
          /\ Cardinality(CpusOf(s)) = Size(r) + Cardinality(CpusOf(t))
      <4>1. r \in L
        BY <3>2
      <4>2. Cardinality({}) = 0 /\ Cardinality(CpusOf(t)) \in Nat
        BY <3>5, FS_EmptySet, FS_CardinalityType
      <4>3. /\ IsFiniteSet(RangeCpus(r) \cup CpusOf(t))
            /\ Cardinality(RangeCpus(r) \cup CpusOf(t)) =
                 Cardinality(RangeCpus(r)) + Cardinality(CpusOf(t))
                   - Cardinality(RangeCpus(r) \cap CpusOf(t))
        BY <1>3, <3>5, <4>1, FS_Union, Zenon
      <4>4. Cardinality(RangeCpus(r)) = Size(r) /\ Size(r) \in Int
        BY <1>3, <4>1
      <4>5. Cardinality(RangeCpus(r) \cap CpusOf(t)) = 0
        BY <3>7, <4>2
      <4> QED BY <3>6, <4>2, <4>3, <4>4, <4>5
    <3> QED BY <3>3, <3>5, <3>8
  <2>4. \A n \in Nat : n \in N
    <3> HIDE DEF N
    <3> QED BY <2>2, <2>3, Induct
  <2> QED BY <2>1, <2>4
<1> QED BY <1>1, <1>5, ListIsComplete
-----------------------------------------------------------------------------
\* What the steps so far have found out about a machine that has not changed:
\* the qualifiers that were parsed are good, the cpus listed are those online,
\* and the placements that are open have passed all checks.
Passes(p) ==
  /\ ConfigurePlacement(CpuOf(p), TypeOf(p))
  /\ ~(request.onExec /\ request.target = "all")

SteadySoFar ==
  steady =>
    /\ pc = "build" => \A k \in 1 .. at - 1 : request.items[k].kind # "bad"
    /\ pc # "build" /\ outcome # "error" => \A k \in DOMAIN request.items : request.items[k].kind # "bad"
    /\ pc \in {"read", "place"} \/ Placed => (request.kind # "core" => matches = online)
    /\ Placed =>
         /\ \A j \in CoreIndices(request) : Cores[j] \in 0 .. CpusNum - 1
         /\ \A p \in Wanted(request) \ todo : Passes(p) /\ KernelTakes(CpuOf(p))
    /\ pc = "open" => \A p \in todo : IsNext(p) => Passes(p)
    /\ outcome = "error" => ~Served

OutcomeInv == WhereInv /\ AttrInv /\ SteadySoFar

\* The cpus that a machine has can be counted, and are 0 and others.
LEMMA MachineFacts ==
  ASSUME MachineTypeOK
  PROVE  /\ present \subseteq Nat /\ IsFiniteSet(present) /\ Cardinality(present) \in Nat
         /\ online \subseteq present /\ 0 \in online
         /\ CpusNum = Cardinality(present)
<1>1. present \subseteq Nat /\ IsFiniteSet(present) /\ online \subseteq present /\ 0 \in online
  BY TopologyAssumption DEF MachineTypeOK
<1> QED
  BY <1>1, CpusNumIsCount, FS_CardinalityType

\* The checks of NewPlacements, configurePlacement and the kernel together.
LEMMA ServesIsAllChecks ==
  ASSUME MachineTypeOK, NEW cpu \in Int
  PROVE  Serves(cpu) <=> cpu \in 0 .. CpusNum - 1 /\ CpuOnline(cpu) /\ KernelTakes(cpu)
BY MachineFacts DEF Serves, CpuOnline, KernelTakes

\* The cpus of a request are numbers.
LEMMA CoreFacts ==
  ASSUME WhereInv, request.kind # "core" => request.socket \in DOMAIN socketCpus,
         NEW j \in CoreIndices(request)
  PROVE  /\ Cores[j] \in Int
         /\ request.kind = "core" => j \in DOMAIN request.cpus /\ Cores[j] = request.cpus[j]
         /\ request.kind # "core" => j = 1 /\ Cores[j] = socketCpus[request.socket]
<1>1. request \in Request
  BY DEF WhereInv, TypeOK
<1>2. CASE request.kind = "core"
  <2>1. request.cpus \in Seq(Int) /\ j \in DOMAIN request.cpus
    BY <1>1, <1>2, RequestFacts DEF CoreIndices
  <2>2. request.cpus[j] \in Int
    BY <2>1
  <2> QED
    BY <1>2, <2>1, <2>2 DEF Cores
<1>3. CASE request.kind # "core"
  <2>1. j = 1 /\ request.socket \in DOMAIN socketCpus
    BY <1>3 DEF CoreIndices
  <2>2. socketCpus[request.socket] \in CpuNumbers
    BY <2>1 DEF WhereInv, TypeOK
  <2>3. socketCpus[request.socket] \in Int
    BY <2>2, CpuFacts
  <2> QED
    BY <1>3, <2>1, <2>3 DEF Cores
<1> QED
  BY <1>2, <1>3

\* The cpu that stands for a socket is the first of those online.
LEMMA SocketCpuIsFirst ==
  ASSUME WhereInv, matches = online, unread = {}, request.socket \in DOMAIN socketCpus
  PROVE  /\ SocketCpu = socketCpus[request.socket]
         /\ \E cpu \in online : SocketOf[cpu] = request.socket
<1> DEFINE cpu == socketCpus[request.socket]
<1>1. cpu \in online /\ SocketOf[cpu] = request.socket
  BY DEF WhereInv, MapIsLowest
<1>2. \A other \in online : SocketOf[other] = request.socket => cpu <= other
  BY DEF WhereInv, MapIsLowest
<1>3. online \subseteq Nat
  BY MachineFacts DEF WhereInv, TypeOK
<1>4. ASSUME NEW c \in online, SocketOf[c] = request.socket,
             \A other \in online : SocketOf[other] = request.socket => c <= other
      PROVE  c = cpu
  <2>1. c <= cpu /\ cpu <= c
    BY <1>1, <1>2, <1>4
  <2>2. c \in Nat /\ cpu \in Nat
    BY <1>1, <1>3
  <2> HIDE DEF cpu
  <2> QED
    BY <2>1, <2>2
<1> HIDE DEF cpu
<1>5. SocketCpu = cpu
  BY <1>1, <1>2, <1>4 DEF SocketCpu
<1> QED
  BY <1>1, <1>5 DEF cpu

\* On a machine that has not changed, the cpus of a request serve it if those
\* of its placements do.
LEMMA CpusServe ==
  ASSUME WhereInv, unread = {},
         request.kind # "core" => matches = online /\ request.socket \in DOMAIN socketCpus
  PROVE  (IF request.kind = "core" THEN \A j \in DOMAIN request.cpus : Serves(request.cpus[j])
          ELSE (\E cpu \in online : SocketOf[cpu] = request.socket) /\ Serves(SocketCpu))
            <=> \A j \in CoreIndices(request) : Serves(Cores[j])
<1>1. CASE request.kind = "core"
  BY <1>1 DEF CoreIndices, Cores
<1>2. CASE request.kind # "core"
  <2>1. CoreIndices(request) = {1} /\ Cores[1] = socketCpus[request.socket]
    BY <1>2 DEF CoreIndices, Cores
  <2> QED
    BY <1>2, <2>1, SocketCpuIsFirst
<1> QED
  BY <1>1, <1>2

\* configureProcess sees the flag of enable_on_exec if and only if it was asked for.
LEMMA ProcessCheck ==
  ASSUME TypeOK, AttrInv, pc = "configure"
  PROVE  ConfigureProcess(Merge(request.event.attr, options).bits)
           <=> ~(request.onExec /\ request.target = "all")
<1>1. request \in Request /\ request.event.attr \in Attr /\ options \in Attr
  BY RequestFacts DEF TypeOK
<1>2. request.event.attr.bits = {}
  BY <1>1 DEF Request, Event
<1>3. Merge(request.event.attr, options).bits = options.bits
  BY <1>1, <1>2 DEF Merge, Attr
<1>4. options.bits \ Precise = AskedFlags(request, Len(request.items)) \cup OnExecFlags(request)
  BY DEF AttrInv, OptionsAre
<1>5. "enable_on_exec" \notin AskedFlags(request, Len(request.items))
  BY DEF AskedFlags, Modifiers, ModifierBit
<1>6. "enable_on_exec" \in options.bits <=> request.onExec
  BY <1>4, <1>5 DEF Precise, OnExecFlags
<1> QED
  BY <1>3, <1>6 DEF ConfigureProcess

\* There is a placement wanted where there is a unit.
LEMMA SomeWanted ==
  ASSUME NEW r \in Request, UnitIndices(r) # {}
  PROVE  Wanted(r) # {}
<1>1. UnitIndices(r) \subseteq Nat
  BY RequestFacts
<1>2. FirstUnit(r) # {}
  BY <1>1, LeastNat DEF FirstUnit
<1>3. CoreIndices(r) # {}
  <2>1. r.cpus \in Seq(Int) /\ r.cpus # <<>>
    BY DEF Request
  <2>2. 1 \in DOMAIN r.cpus
    BY <2>1
  <2> QED
    BY <2>2 DEF CoreIndices
<1>4. PICK i, k, j : i \in FirstUnit(r) /\ k \in UnitIndices(r) /\ j \in CoreIndices(r)
  BY <1>2, <1>3
<1>5. <<i, j>> \in Wanted(r) \/ <<k, j>> \in Wanted(r)
  BY <1>4 DEF Wanted
<1> QED
  BY <1>5
-----------------------------------------------------------------------------
LEMMA SteadyInit == Init => SteadySoFar
<1> SUFFICES ASSUME Init PROVE SteadySoFar
  OBVIOUS
<1> QED
  BY DEF Init, SteadySoFar, Placed

\* Whether a request can be served depends on it and the machine alone.
LEMMA ServedKept ==
  ASSUME UNCHANGED <<machineVars, request>>
  PROVE  Served' = Served
BY DEF machineVars, Served, Serves, SocketCpu

\* So do the checks that a placement passes, and the placements on the map.
LEMMA ChecksKept ==
  ASSUME UNCHANGED <<machineVars, request, socketCpus>>
  PROVE  /\ CpusNum' = CpusNum /\ Cores' = Cores
         /\ \A p : Passes(p)' = Passes(p) /\ CpuOf(p)' = CpuOf(p)
         /\ \A p : KernelTakes(CpuOf(p))' = KernelTakes(CpuOf(p))
<1> USE DEF machineVars
<1>1. CpusNum' = CpusNum
  BY DEF CpusNum, PresentList, ParseCPURange, MapThenSumSet, MapThenFoldSet
<1>2. Cores' = Cores
  BY DEF Cores
<1>3. \A p : CpuOf(p)' = CpuOf(p) /\ TypeOf(p)' = TypeOf(p)
  BY <1>2 DEF CpuOf, TypeOf
<1>4. \A p : Passes(p)' = Passes(p)
  BY <1>3 DEF Passes, ConfigurePlacement, CpuOnline
<1>5. \A p : KernelTakes(CpuOf(p))' = KernelTakes(CpuOf(p))
  BY <1>3 DEF KernelTakes
<1> QED
  BY <1>1, <1>2, <1>3, <1>4, <1>5

\* A call that fails is one that cannot be served.
LEMMA FailSteady ==
  ASSUME Fail, steady => ~Served
  PROVE  SteadySoFar'
<1>1. Served' = Served /\ steady' = steady
  BY ServedKept DEF Fail
<1>2. pc' = "done" /\ outcome' = "error"
  BY DEF Fail
<1> QED
  BY <1>1, <1>2 DEF SteadySoFar, Placed

LEMMA BuildFailsSteady ==
  ASSUME OutcomeInv, BuildFails
  PROVE  SteadySoFar'
<1>1. at \in DOMAIN request.items
  <2>1. request.items \in Seq(Item) /\ at \in 1 .. Len(request.items)
    BY RequestFacts DEF OutcomeInv, WhereInv, TypeOK, BuildFails
  <2> QED
    BY <2>1
<1>2. ~Served
  BY <1>1 DEF BuildFails, Served
<1> QED
  BY <1>2, FailSteady DEF BuildFails

\* No cpu has gone, and no file with it.
LEMMA ReadIdFailsSteady ==
  ASSUME OutcomeInv, ReadIdFails
  PROVE  SteadySoFar'
<1>1. steady => matches = online
  BY DEF OutcomeInv, SteadySoFar, WhereInv, Shape, ReadIdFails
<1>2. unread \subseteq matches
  BY DEF OutcomeInv, WhereInv, TypeOK
<1>3. ~steady
  BY <1>1, <1>2 DEF ReadIdFails
<1> QED
  BY <1>3, FailSteady DEF ReadIdFails

LEMMA PlaceFailsSteady ==
  ASSUME OutcomeInv, PlaceFails
  PROVE  SteadySoFar'
<1>1. Fail /\ ~Placeable /\ pc = "place"
  BY DEF PlaceFails
<1>2. ASSUME steady
      PROVE  ~Served
  <2>1. unread = {} /\ (request.kind # "core" => matches = online)
    BY <1>1, <1>2 DEF OutcomeInv, SteadySoFar, WhereInv, Shape
  <2>2. CASE request.kind # "core" /\ request.socket \notin DOMAIN socketCpus
    <3>1. \A cpu \in online : SocketOf[cpu] # request.socket
      BY <2>1, <2>2 DEF OutcomeInv, WhereInv, MapIsLowest
    <3> QED
      BY <2>2, <3>1 DEF Served
  <2>3. CASE UnitIndices(request) = {}
    BY <2>3 DEF Served
  <2>4. CASE /\ request.kind # "core" => request.socket \in DOMAIN socketCpus
             /\ \E j \in CoreIndices(request) : Cores[j] \notin 0 .. CpusNum - 1
    <3>1. PICK j \in CoreIndices(request) : Cores[j] \notin 0 .. CpusNum - 1
      BY <2>4
    <3>2. ~Serves(Cores[j])
      BY <2>4, <3>1, CoreFacts, ServesIsAllChecks DEF OutcomeInv, WhereInv, TypeOK
    <3> QED
      BY <2>1, <2>4, <3>2, CpusServe DEF OutcomeInv, Served
  <2> QED
    BY <1>1, <2>2, <2>3, <2>4 DEF Placeable
<1> QED
  BY <1>1, <1>2, FailSteady

\* What is known of the placement that is next.
LEMMA NextPlacement ==
  ASSUME OutcomeInv, pc \in {"configure", "open"}, NEW p \in todo
  PROVE  /\ p \in Wanted(request) /\ p[2] \in CoreIndices(request)
         /\ CpuOf(p) = Cores[p[2]] /\ CpuOf(p) \in Int
<1>1. Placed
  BY DEF Placed
<1>2. p \in Wanted(request)
  BY <1>1 DEF OutcomeInv, WhereInv, PlacementsKept
<1>3. p[2] \in CoreIndices(request)
  BY <1>2, WantedFacts DEF OutcomeInv, WhereInv, TypeOK
<1>4. CpuOf(p) \in Int
  BY <1>1, <1>2, PlacementTypes DEF OutcomeInv
<1> QED
  BY <1>2, <1>3, <1>4 DEF CpuOf

\* A placement that the machine has no cpu for cannot be served.
LEMMA NoCpuNotServed ==
  ASSUME OutcomeInv, steady, pc \in {"configure", "open"}, NEW p \in todo,
         ~CpuOnline(CpuOf(p)) \/ ~KernelTakes(CpuOf(p))
  PROVE  ~Served
<1>1. Placed
  BY DEF Placed
<1>2. unread = {} /\ (request.kind # "core" => matches = online /\ request.socket \in DOMAIN socketCpus)
  BY <1>1 DEF OutcomeInv, SteadySoFar, WhereInv, Shape, PlacementsKept
<1>3. p[2] \in CoreIndices(request) /\ CpuOf(p) = Cores[p[2]] /\ CpuOf(p) \in Int
  BY NextPlacement
<1>4. ~Serves(Cores[p[2]])
  BY <1>3, ServesIsAllChecks DEF OutcomeInv, WhereInv, TypeOK
<1> QED
  BY <1>2, <1>3, <1>4, CpusServe DEF OutcomeInv, Served

LEMMA ConfigureFailsSteady ==
  ASSUME OutcomeInv, ConfigureFails
  PROVE  SteadySoFar'
<1>1. PICK p \in todo :
        \/ ~ConfigurePlacement(CpuOf(p), TypeOf(p))
        \/ ~ConfigureProcess(Merge(request.event.attr, options).bits)
  BY DEF ConfigureFails
<1>2. pc = "configure" /\ Fail
  BY DEF ConfigureFails
<1>3. ASSUME steady
      PROVE  ~Served
  <2>1. CASE ~CpuOnline(CpuOf(p))
    BY <1>2, <1>3, <2>1, NoCpuNotServed
  <2>2. CASE ~\E k \in DOMAIN request.event.types : request.event.types[k].type = TypeOf(p)
    BY <1>2, <2>2, NextPlacement DEF Served, TypeOf
  <2>3. CASE ~ConfigureProcess(Merge(request.event.attr, options).bits)
    BY <1>2, <2>3, ProcessCheck DEF OutcomeInv, WhereInv, Served
  <2> QED
    BY <1>1, <2>1, <2>2, <2>3 DEF ConfigurePlacement
<1> QED
  BY <1>2, <1>3, FailSteady

LEMMA OpenFailsSteady ==
  ASSUME OutcomeInv, OpenFails
  PROVE  SteadySoFar'
<1>1. PICK p \in todo : ~KernelTakes(CpuOf(p))
  BY DEF OpenFails
<1>2. pc = "open" /\ Fail
  BY DEF OpenFails
<1>3. steady => ~Served
  BY <1>1, <1>2, NoCpuNotServed
<1> QED
  BY <1>2, <1>3, FailSteady
-----------------------------------------------------------------------------
\* One qualifier more is good.
LEMMA BuildItemSteady ==
  ASSUME OutcomeInv, BuildItem
  PROVE  SteadySoFar'
<1>1. at \in Nat \ {0} /\ at' - 1 = at
  BY RequestFacts DEF OutcomeInv, WhereInv, TypeOK, BuildItem
<1>2. \A k \in 1 .. at : k = at \/ k \in 1 .. at - 1
  BY <1>1
<1>3. steady => \A k \in 1 .. at : request.items[k].kind # "bad"
  BY <1>2 DEF OutcomeInv, SteadySoFar, BuildItem
<1>4. outcome # "error"
  BY DEF OutcomeInv, WhereInv, Shape, BuildItem
<1>5. /\ pc = "build" /\ pc' = "build" /\ outcome' = outcome
      /\ UNCHANGED <<steady, request>>
  BY DEF BuildItem
<1>6. steady' => \A k \in 1 .. at' - 1 : request'.items[k].kind # "bad"
  BY <1>1, <1>3, <1>5
<1> QED
  BY <1>4, <1>5, <1>6 DEF SteadySoFar, Placed, OutcomeInv, WhereInv, Shape

LEMMA BuiltSteady ==
  ASSUME OutcomeInv, Built
  PROVE  SteadySoFar'
<1>1. request.items \in Seq(Item) /\ at = Len(request.items) + 1
  BY RequestFacts DEF OutcomeInv, WhereInv, TypeOK, Built
<1>2. DOMAIN request.items = 1 .. at - 1
  BY <1>1
<1>3. steady => \A k \in DOMAIN request.items : request.items[k].kind # "bad"
  BY <1>2 DEF OutcomeInv, SteadySoFar, Built
<1>4. outcome = "none" /\ (pc' = "place" => request.kind = "core")
  BY DEF OutcomeInv, WhereInv, TypeOK, Shape, Built
<1> QED
  BY <1>3, <1>4 DEF SteadySoFar, Placed, Built

LEMMA TopologySteady ==
  ASSUME OutcomeInv, Glob \/ ReadId \/ AllRead
  PROVE  SteadySoFar'
<1>1. outcome = "none"
  BY DEF OutcomeInv, WhereInv, TypeOK, Shape, Glob, ReadId, AllRead
<1>2. CASE Glob
  BY <1>1, <1>2 DEF OutcomeInv, SteadySoFar, Placed, Glob, GlobPackageIds, machineVars
<1>3. CASE ReadId
  BY <1>1, <1>3 DEF OutcomeInv, SteadySoFar, Placed, ReadId, machineVars
<1>4. CASE AllRead
  BY <1>1, <1>4 DEF OutcomeInv, SteadySoFar, Placed, AllRead, machineVars
<1> QED
  BY <1>2, <1>3, <1>4

\* All placements are to do, on cpus that NewPlacements has accepted.
LEMMA PlaceSteady ==
  ASSUME OutcomeInv, Place
  PROVE  SteadySoFar'
<1>1. outcome = "none"
  BY DEF OutcomeInv, WhereInv, TypeOK, Shape, Place
<1>2. UNCHANGED <<machineVars, request, socketCpus, matches, outcome, steady>> /\ pc' = "configure"
  BY DEF Place
<1>3. CpusNum' = CpusNum /\ Cores' = Cores
  BY <1>2, ChecksKept
<1>4. \A j \in CoreIndices(request) : Cores[j] \in 0 .. CpusNum - 1
  BY DEF Place, Placeable
<1>5. Wanted(request)' \ todo' = {}
  BY DEF Place
<1> QED
  BY <1>1, <1>2, <1>3, <1>4, <1>5 DEF OutcomeInv, SteadySoFar, Placed, Place, machineVars

\* The checks before the system call, which the next placement has passed.
LEMMA ConfigureSteady ==
  ASSUME OutcomeInv, Configure
  PROVE  SteadySoFar'
<1>1. outcome = "none"
  BY DEF OutcomeInv, WhereInv, TypeOK, Shape, Configure
<1>2. /\ UNCHANGED <<machineVars, request, socketCpus, matches, todo, outcome, steady>>
      /\ pc = "configure" /\ pc' = "open"
  BY DEF Configure
<1>3. /\ CpusNum' = CpusNum /\ Cores' = Cores
      /\ \A p : Passes(p)' = Passes(p) /\ KernelTakes(CpuOf(p))' = KernelTakes(CpuOf(p))
  BY <1>2, ChecksKept
<1>4. PICK p \in todo : IsNext(p) /\ ConfigurePlacement(CpuOf(p), TypeOf(p))
  BY DEF Configure
<1>5. ASSUME NEW q \in todo, IsNext(q)
      PROVE  q = p
  <2>1. p \in Wanted(request) /\ q \in Wanted(request)
    BY <1>2, NextPlacement
  <2>2. p[1] \in Nat /\ p[2] \in Nat /\ p = <<p[1], p[2]>>
    BY <1>2, <2>1, PlacementTypes DEF Placed, OutcomeInv
  <2>3. q[1] \in Nat /\ q[2] \in Nat /\ q = <<q[1], q[2]>>
    BY <1>2, <2>1, PlacementTypes DEF Placed, OutcomeInv
  <2>4. p[1] = q[1] /\ p[2] = q[2]
    BY <1>4, <1>5, <2>2, <2>3 DEF IsNext
  <2> QED
    BY <2>2, <2>3, <2>4
<1>6. Passes(p)
  BY <1>4, ProcessCheck DEF Configure, OutcomeInv, WhereInv, Passes
<1>7. \A q \in todo' : IsNext(q)' => Passes(q)'
  BY <1>2, <1>3, <1>5, <1>6 DEF IsNext
<1>8. steady => /\ \A k \in DOMAIN request.items : request.items[k].kind # "bad"
                /\ request.kind # "core" => matches = online
                /\ \A j \in CoreIndices(request) : Cores[j] \in 0 .. CpusNum - 1
                /\ \A q \in Wanted(request) \ todo : Passes(q) /\ KernelTakes(CpuOf(q))
  BY <1>1, <1>2 DEF OutcomeInv, SteadySoFar, Placed
<1> QED
  BY <1>1, <1>2, <1>3, <1>7, <1>8 DEF SteadySoFar, machineVars

\* The kernel has taken it too.
LEMMA OpenSteady ==
  ASSUME OutcomeInv, Open
  PROVE  SteadySoFar'
<1>1. outcome = "none"
  BY DEF OutcomeInv, WhereInv, TypeOK, Shape, Open
<1>2. /\ UNCHANGED <<machineVars, request, socketCpus, matches, outcome, steady>>
      /\ pc = "open" /\ pc' = "configure"
  BY DEF Open
<1>3. /\ CpusNum' = CpusNum /\ Cores' = Cores
      /\ \A p : Passes(p)' = Passes(p) /\ KernelTakes(CpuOf(p))' = KernelTakes(CpuOf(p))
  BY <1>2, ChecksKept
<1>4. PICK p \in todo : IsNext(p) /\ KernelTakes(CpuOf(p)) /\ todo' = todo \ {p}
  BY DEF Open
<1>5. steady => /\ \A k \in DOMAIN request.items : request.items[k].kind # "bad"
                /\ request.kind # "core" => matches = online
                /\ \A j \in CoreIndices(request) : Cores[j] \in 0 .. CpusNum - 1
                /\ \A q \in Wanted(request) \ todo : Passes(q) /\ KernelTakes(CpuOf(q))
                /\ Passes(p)
  BY <1>1, <1>2, <1>4 DEF OutcomeInv, SteadySoFar, Placed
<1>6. steady => \A q \in Wanted(request) \ todo' : Passes(q) /\ KernelTakes(CpuOf(q))
  BY <1>4, <1>5
<1> QED
  BY <1>1, <1>2, <1>3, <1>5, <1>6 DEF SteadySoFar, machineVars

LEMMA ReturnSteady ==
  ASSUME OutcomeInv, Return
  PROVE  SteadySoFar'
<1>1. outcome = "none"
  BY DEF OutcomeInv, WhereInv, TypeOK, Shape, Return
<1>2. /\ UNCHANGED <<machineVars, request, socketCpus, matches, todo, steady>>
      /\ pc = "configure" /\ pc' = "done" /\ outcome' = "ok"
  BY DEF Return
<1>3. /\ CpusNum' = CpusNum /\ Cores' = Cores
      /\ \A p : Passes(p)' = Passes(p) /\ KernelTakes(CpuOf(p))' = KernelTakes(CpuOf(p))
  BY <1>2, ChecksKept
<1>4. steady => /\ \A k \in DOMAIN request.items : request.items[k].kind # "bad"
                /\ request.kind # "core" => matches = online
                /\ \A j \in CoreIndices(request) : Cores[j] \in 0 .. CpusNum - 1
                /\ \A q \in Wanted(request) \ todo : Passes(q) /\ KernelTakes(CpuOf(q))
  BY <1>1, <1>2 DEF OutcomeInv, SteadySoFar, Placed
<1> QED
  BY <1>2, <1>3, <1>4 DEF SteadySoFar, machineVars

LEMMA SteadyStep == OutcomeInv /\ [Next]_vars => SteadySoFar'
<1> SUFFICES ASSUME OutcomeInv, [Next]_vars PROVE SteadySoFar'
  OBVIOUS
<1>1. CASE BuildItem
  BY <1>1, BuildItemSteady
<1>2. CASE Built
  BY <1>2, BuiltSteady
<1>3. CASE Glob \/ ReadId \/ AllRead
  BY <1>3, TopologySteady
<1>4. CASE Place
  BY <1>4, PlaceSteady
<1>5. CASE Configure
  BY <1>5, ConfigureSteady
<1>6. CASE Open
  BY <1>6, OpenSteady
<1>7. CASE Return
  BY <1>7, ReturnSteady
<1>8. CASE BuildFails \/ ReadIdFails \/ PlaceFails \/ ConfigureFails \/ OpenFails
  BY <1>8, BuildFailsSteady, ReadIdFailsSteady, PlaceFailsSteady, ConfigureFailsSteady,
     OpenFailsSteady
<1>9. CASE CpuGoesOrComes
  BY <1>9 DEF CpuGoesOrComes, SteadySoFar
<1>10. CASE UNCHANGED vars
  <2>1. UNCHANGED <<machineVars, request, socketCpus, callVars, steady>>
    BY <1>10 DEF vars, callVars
  <2>2. /\ CpusNum' = CpusNum /\ Cores' = Cores /\ Served' = Served
        /\ \A p : Passes(p)' = Passes(p) /\ KernelTakes(CpuOf(p))' = KernelTakes(CpuOf(p))
    BY <2>1, ChecksKept, ServedKept
  <2>3. Placed' = Placed /\ \A p : IsNext(p)' = IsNext(p)
    BY <2>1 DEF callVars, Placed, IsNext
  <2> QED
    BY <2>1, <2>2, <2>3 DEF OutcomeInv, SteadySoFar, callVars, machineVars
<1> QED
  BY <1>1, <1>2, <1>3, <1>4, <1>5, <1>6, <1>7, <1>8, <1>9, <1>10 DEF Next, Step

\* While no cpu goes or comes, a call succeeds if and only if the request can
\* be served, at whichever of its steps that comes out (placements.go,
\* event.go:116 and 210, topology.go:226).
THEOREM OutcomeIsSteady == Spec => []SteadyOutcome
<1>1. OutcomeInv => SteadyOutcome
  <2> SUFFICES ASSUME OutcomeInv, pc = "done", steady PROVE outcome = "ok" <=> Served
    BY DEF SteadyOutcome
  <2>1. CASE outcome = "ok"
    <3>1. Placed /\ unread = {} /\ todo = {}
      BY <2>1 DEF Placed, OutcomeInv, WhereInv, Shape
    <3>2. /\ \A k \in DOMAIN request.items : request.items[k].kind # "bad"
          /\ request.kind # "core" => matches = online /\ request.socket \in DOMAIN socketCpus
          /\ \A j \in CoreIndices(request) : Cores[j] \in 0 .. CpusNum - 1
          /\ \A p \in Wanted(request) : Passes(p) /\ KernelTakes(CpuOf(p))
          /\ UnitIndices(request) # {}
      BY <2>1, <3>1 DEF OutcomeInv, SteadySoFar, WhereInv, PlacementsKept
    <3>3. request \in Request
      BY DEF OutcomeInv, WhereInv, TypeOK
    <3>4. ~(request.onExec /\ request.target = "all")
      BY <3>2, <3>3, SomeWanted DEF Passes
    <3>5. \A p \in Wanted(request) : \E k \in DOMAIN request.event.types :
            request.event.types[k].type = request.factory.types[p[1]].type
      BY <3>2 DEF Passes, ConfigurePlacement, TypeOf
    <3>6. ASSUME NEW j \in CoreIndices(request)
          PROVE  Serves(Cores[j])
      <4>1. PICK p \in Wanted(request) : p[2] = j
        <5>1. PICK q \in Wanted(request) : q \in UnitIndices(request) \X CoreIndices(request)
          BY <3>2, <3>3, SomeWanted, WantedFacts
        <5>2. <<q[1], j>> \in Wanted(request)
          BY <5>1 DEF Wanted
        <5> QED
          BY <5>2
      <4>2. CpuOnline(Cores[j]) /\ KernelTakes(Cores[j])
        BY <3>2, <4>1 DEF Passes, ConfigurePlacement, CpuOf
      <4>3. Cores[j] \in Int
        BY <3>2, CoreFacts DEF OutcomeInv
      <4> QED
        BY <3>2, <4>2, <4>3, ServesIsAllChecks DEF OutcomeInv, WhereInv, TypeOK
    <3> QED
      BY <2>1, <3>1, <3>2, <3>4, <3>5, <3>6, CpusServe DEF OutcomeInv, Served
  <2>2. CASE outcome # "ok"
    <3>1. outcome = "error"
      BY <2>2 DEF OutcomeInv, WhereInv, TypeOK, Shape
    <3> QED
      BY <3>1 DEF OutcomeInv, SteadySoFar
  <2> QED
    BY <2>1, <2>2
<1>2. Init => OutcomeInv
  BY WhereInit, AttrInit, SteadyInit DEF OutcomeInv
<1>3. OutcomeInv /\ [Next]_vars => OutcomeInv'
  BY WhereStep, AttrStep, SteadyStep DEF OutcomeInv, WhereInv
<1> QED
  BY <1>1, <1>2, <1>3, PTL DEF Spec
=============================================================================
