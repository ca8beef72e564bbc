--------------------------- MODULE MCEventRequest ---------------------------
(***************************************************************************)
(* EventRequest for TLC: two sockets of two cpus, one of which may be      *)
(* missing, a core event and an uncore event of two units.                 *)
(***************************************************************************)
EXTENDS EventRequest, TLC

MCSocketOf == (0 :> 0) @@ (1 :> 1) @@ (2 :> 1) @@ (3 :> 0)
\* Cpu 2 stands for one such as cpu10, whose path sorts before that of cpu1.
MCLexRank == (0 :> 0) @@ (1 :> 2) @@ (2 :> 1) @@ (3 :> 3)

Word(c, c1, c2) == [config |-> c, config1 |-> c1, config2 |-> c2]
CoreEvent ==
  [pmuName |-> "cpu", types |-> <<[name |-> "cpu", type |-> 4]>>,
   attr |-> [word |-> Word({0}, {}, {}), bits |-> {}, size |-> "ver0"]]
UncoreEvent ==
  [pmuName |-> "uncore_cha",
   types |-> <<[name |-> "uncore_cha_0", type |-> 10], [name |-> "uncore_cha_1", type |-> 11]>>,
   attr |-> [word |-> Word({0}, {}, {1}), bits |-> {}, size |-> "ver1"]]

Plain ==
  [factory |-> CoreEvent, event |-> CoreEvent, kind |-> "core", cpus |-> <<0>>,
   unit |-> "", socket |-> 0, items |-> <<>>, onExec |-> FALSE, target |-> "all"]

\* An event whose only unit is the first of UncoreEvent.
OneUnitEvent == [UncoreEvent EXCEPT !.types = <<UncoreEvent.types[1]>>]

\* Every way to place an event, without options.
CoreRequests ==
  {[Plain EXCEPT !.cpus = cpus, !.target = target] :
     cpus \in {<<-1>>, <<2>>, <<3>>, <<2, 0, 2>>, <<1, 3>>, <<0, 4>>},
     target \in {"all", "process"}}
UncoreRequests ==
  {[Plain EXCEPT !.factory = UncoreEvent, !.event = event, !.kind = "uncore", !.unit = unit, !.socket = socket] :
     event \in {CoreEvent, OneUnitEvent, UncoreEvent}, socket \in 0 .. 2,
     unit \in {"uncore_cha_1", "uncore_cha", "uncore_imc", ""}}
UncoreAllRequests ==
  {[Plain EXCEPT !.factory = UncoreEvent, !.event = UncoreEvent, !.kind = "uncoreAll", !.socket = socket] :
     socket \in 0 .. 2}

\* Options of every kind, in all short lists and in lists of p alone.
Value(f, v) == [kind |-> "value", field |-> f, value |-> v]
Modifier(m) == [kind |-> "modifier", modifier |-> m]
Items ==
  {Value("config", {0, 1}), Value("config2", {0}), Modifier("p"), Modifier("k"), Modifier("D"),
   [kind |-> "bad"]}
ItemLists ==
  UNION {[1 .. n -> Items] : n \in 0 .. 2} \cup {[k \in 1 .. n |-> Modifier("p")] : n \in 3 .. 5}
OptionRequests ==
  {[Plain EXCEPT !.event.attr = event.attr, !.factory.attr = event.attr, !.items = items,
                 !.onExec = onExec, !.target = target] :
     event \in {CoreEvent, UncoreEvent}, items \in ItemLists, onExec \in BOOLEAN,
     target \in {"all", "process", "cgroup"}}

MCRequests == CoreRequests \cup UncoreRequests \cup UncoreAllRequests \cup OptionRequests
=============================================================================
