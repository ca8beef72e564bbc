------------------------------- MODULE Iastat -------------------------------
(***************************************************************************)
(* examples/iastat: the command line is parsed into single events and      *)
(* groups, everything is activated, then read and printed in rounds, and   *)
(* closed at the end.  Activation stands for the library's calls: one gets *)
(* all counters of an event or the program exits.                          *)
(***************************************************************************)
EXTENDS Integers, FiniteSets, SequencesExt

CONSTANTS
  CoreEvents, UncoreEvents,   \* the names the JSON files define
  CommandLines,               \* the -events lists
  Cpus, Sockets,              \* the lists of -cpu and -socket, each element under a name of its own
  Units,                      \* the number of PMUs that count an uncore event
  Sharing,                    \* how the counters of a cpu or socket get their PMU
  Count,                      \* -loop, where 0 means for ever
  MaxFailures                 \* bound on the reads that fail

\* One element of the list: braces around it, its name, whether its modifiers
\* can be parsed and whether one of them is D.
Token == [name : STRING, opens : BOOLEAN, closes : BOOLEAN, valid : BOOLEAN, pinned : BOOLEAN]

ASSUME IastatAssumption ==
  /\ CommandLines \subseteq Seq(Token)
  /\ CoreEvents \cap UncoreEvents = {}
  /\ \A places \in {Cpus, Sockets} : places \in Seq(STRING) \ {<<>>} /\ IsInjective(places)
  /\ Units \in Nat \ {0}
  /\ Count \in Nat /\ MaxFailures \in Nat
  /\ \A k \in ToSet(Cpus) \cup ToSet(Sockets) : Sharing[k] \in {"alone", "shared", "starved"}

VARIABLES
  line, aggr, merge,                     \* the command line
  pc, at,                                \* the phase of main, a loop's position in it
  singles, groups, current, inGroup,     \* parseEvents: positions of the line
  active,                                \* activeEvents and activeMultiEvents
  activeEventNames, activeMultiEventNames,
  open, dead,                            \* the counters; those that are pinned and got no PMU
  round, unread, announced, output,      \* the round, names to read, failures and lines printed
  failures                               \* how many reads have failed

lineVars == <<line, aggr, merge>>
parseVars == <<singles, groups, current, inGroup>>
activeVars == <<active, activeEventNames, activeMultiEventNames, open, dead>>
roundVars == <<round, unread, announced, output, failures>>
vars == <<lineVars, pc, at, parseVars, activeVars, roundVars>>

Positions == DOMAIN line
Places(p) == IF line[p].name \in CoreEvents THEN ToSet(Cpus) ELSE ToSet(Sockets)
Width(name) == IF name \in CoreEvents THEN 1 ELSE Units
\* The i-th counter of an event in one place.
Counters == UNION {{p} \X Places(p) \X (1 .. Width(line[p].name)) : p \in Positions}

TypeOK ==
  /\ line \in CommandLines /\ aggr \in BOOLEAN /\ merge \in BOOLEAN
  /\ pc \in {"parse", "resolve", "singles", "groups", "sleep", "read", "print", "returned", "exited"}
  /\ at \in Nat \ {0}
  /\ singles \in Seq(Positions) /\ groups \in Seq(Seq(Positions)) /\ current \in Seq(Positions)
  /\ inGroup \in BOOLEAN
  /\ \A name \in DOMAIN active : \A k \in DOMAIN active[name] :
       /\ active[name][k].position \in Positions
       /\ active[name][k].place \in Places(active[name][k].position)
       /\ Len(active[name][k].values) \in {0, Width(name)}
  /\ ToSet(activeEventNames) \subseteq CoreEvents /\ ToSet(activeMultiEventNames) \subseteq UncoreEvents
  /\ open \subseteq Counters /\ dead \subseteq Positions
  /\ round \in Nat /\ (Count > 0 => round <= Count) /\ unread \subseteq DOMAIN active /\ announced \subseteq DOMAIN active
  /\ \A k \in DOMAIN output : output[k].name \in DOMAIN active /\ output[k].value \in Nat
  /\ failures \in 0 .. MaxFailures

Init ==
  /\ line \in CommandLines /\ aggr \in BOOLEAN /\ merge \in BOOLEAN
  /\ pc = "parse" /\ at = 1
  /\ singles = <<>> /\ groups = <<>> /\ current = <<>> /\ inGroup = FALSE
  /\ active = [name \in {} |-> <<>>]
  /\ activeEventNames = <<>> /\ activeMultiEventNames = <<>>
  /\ open = {} /\ dead = {}
  /\ round = 0 /\ unread = {} /\ announced = {} /\ output = <<>> /\ failures = 0

\* os.Exit(1): the kernel closes what is open (external).
Exit ==
  /\ pc' = "exited"
  /\ open' = {}
  /\ UNCHANGED <<lineVars, at, parseVars, active, activeEventNames, activeMultiEventNames, dead, roundVars>>
-----------------------------------------------------------------------------
\* (mutant) A group ends where the next one begins.
MisplacedClose(token) == token.closes /\ ~(inGroup \/ token.opens)

\* A round of parseEvents' loop that is an error.
Misplaced(token) ==
  \/ token.opens /\ inGroup
  \/ token.closes /\ ~(inGroup \/ token.opens)

Parse ==
  /\ pc = "parse"
  /\ at <= Len(line)
  /\ ~Misplaced(line[at])
  /\ LET token == line[at]
         list == (IF token.opens THEN <<>> ELSE current) \o <<at>>
     IN  \/ /\ ~(inGroup \/ token.opens)
            /\ singles' = Append(singles, at)
            /\ UNCHANGED <<groups, current, inGroup>>
         \/ /\ inGroup \/ token.opens
            /\ ~token.closes
            /\ current' = list
            /\ inGroup' = TRUE
            /\ UNCHANGED <<singles, groups>>
         \/ /\ token.closes
            /\ groups' = Append(groups, list)
            /\ current' = <<>>
            /\ inGroup' = FALSE
            /\ UNCHANGED singles
  /\ at' = at + 1
  /\ UNCHANGED <<lineVars, pc, activeVars, roundVars>>

ParseError == IF at <= Len(line) THEN Misplaced(line[at]) ELSE inGroup

ParseFails == pc = "parse" /\ ParseError /\ Exit

Parsed ==
  /\ pc = "parse"
  /\ at > Len(line) /\ ~inGroup
  /\ pc' = "resolve"
  /\ UNCHANGED <<lineVars, at, parseVars, activeVars, roundVars>>

Known == \A p \in Positions : line[p].name \in CoreEvents \cup UncoreEvents

Resolve ==
  /\ pc = "resolve"
  /\ Known
  /\ pc' = "singles"
  /\ at' = 1
  /\ UNCHANGED <<lineVars, parseVars, activeVars, roundVars>>

ResolveFails == pc = "resolve" /\ ~Known /\ Exit
-----------------------------------------------------------------------------
\* A CounterValue that nothing has been read into.
Zero == [Raw |-> 0, Enabled |-> 0, Running |-> 0]

\* A new eventValue or eventMultiValue, whose list of values is nil.
NewValue(p, place) ==
  [position |-> p, place |-> place, values |-> IF line[p].name \in CoreEvents THEN <<Zero>> ELSE <<>>]

\* (mutant) The list of a name that comes again is replaced.
AddReplaced(map, name, list) ==
  [n \in DOMAIN map \cup {name} |-> IF n = name THEN list ELSE map[n]]

\* activeEvents[name] = append(activeEvents[name], ...)
Add(map, name, list) ==
  [n \in DOMAIN map \cup {name} |->
     (IF n \in DOMAIN map THEN map[n] ELSE <<>>) \o (IF n = name THEN list ELSE <<>>)]

\* (mutant) Uncore events are placed by cpu.
ActivateEventOnCpus(p) == [k \in DOMAIN Cpus |-> NewValue(p, Cpus[k])]

\* activateCoreEvent over the cpus, activateUncoreEvent over the sockets.
ActivateEvent(p) ==
  LET places == IF line[p].name \in CoreEvents THEN Cpus ELSE Sockets
  IN  [k \in DOMAIN places |-> NewValue(p, places[k])]

\* The counters of new events; a pinned event may find no room on its PMU (external).
OpenCounters(positions) ==
  /\ open' = open \cup UNION {{p} \X Places(p) \X (1 .. Width(line[p].name)) : p \in positions}
  /\ \E lost \in SUBSET {p \in positions : line[p].pinned} : dead' = dead \cup lost

ActivateSingle ==
  /\ pc = "singles"
  /\ at <= Len(singles)
  /\ LET p == singles[at]
         name == line[p].name
     IN  /\ line[p].valid
         /\ OpenCounters({p})
         /\ active' = Add(active, name, ActivateEvent(p))
         /\ IF name \in UncoreEvents
            THEN /\ activeMultiEventNames' = Append(activeMultiEventNames, name)
                 /\ UNCHANGED activeEventNames
            ELSE /\ activeEventNames' = Append(activeEventNames, name)
                 /\ UNCHANGED activeMultiEventNames
  /\ at' = at + 1
  /\ UNCHANGED <<lineVars, pc, parseVars, roundVars>>

SinglesDone ==
  /\ pc = "singles"
  /\ at > Len(singles)
  /\ pc' = "groups"
  /\ at' = 1
  /\ UNCHANGED <<lineVars, parseVars, activeVars, roundVars>>

\* activateGroup: cpu by cpu, and each event of the group in its order.
AddEach(map, values) ==
  LET added[n \in 0 .. Len(values)] ==
        IF n = 0 THEN map ELSE Add(added[n - 1], line[values[n].position].name, <<values[n]>>)
  IN  added[Len(values)]

AddGroup(map, group) ==
  LET added[n \in 0 .. Len(Cpus)] ==
        IF n = 0 THEN map ELSE AddEach(added[n - 1], [k \in DOMAIN group |-> NewValue(group[k], Cpus[n])])
  IN  added[Len(Cpus)]

ActivateGroup ==
  /\ pc = "groups"
  /\ at <= Len(groups)
  /\ \A p \in ToSet(groups[at]) : line[p].valid /\ line[p].name \notin UncoreEvents
  /\ OpenCounters(ToSet(groups[at]))
  /\ active' = AddGroup(active, groups[at])
  /\ activeEventNames' = activeEventNames \o [k \in DOMAIN groups[at] |-> line[groups[at][k]].name]
  /\ at' = at + 1
  /\ UNCHANGED <<lineVars, pc, parseVars, activeMultiEventNames, roundVars>>

\* Modifiers, an uncore event in a group, placements, the kernel.
ActivationFails ==
  /\ \/ pc = "singles" /\ at <= Len(singles)
     \/ pc = "groups" /\ at <= Len(groups)
  /\ Exit

GroupsDone ==
  /\ pc = "groups"
  /\ at > Len(groups)
  /\ pc' = "sleep"
  /\ UNCHANGED <<lineVars, at, parseVars, activeVars, roundVars>>
-----------------------------------------------------------------------------
\* main's condition.
GoesOn(i) == Count > 0 => i < Count

BeginRound ==
  /\ pc = "sleep"
  /\ GoesOn(round)
  /\ pc' = "read"
  /\ round' = round + 1
  /\ unread' = DOMAIN active
  /\ announced' = {}
  /\ output' = <<>>
  /\ UNCHANGED <<lineVars, at, parseVars, activeVars, failures>>

\* What a counter shows in round r (external): alone on its PMU, sharing it
\* for a third of the time, or never scheduled.
Shows(place, r) ==
  CASE Sharing[place] = "alone" -> [Raw |-> 3 * r, Enabled |-> r, Running |-> r]
    [] Sharing[place] = "shared" -> [Raw |-> 2 * r, Enabled |-> 3 * r, Running |-> r]
    [] Sharing[place] = "starved" -> [Raw |-> 0, Enabled |-> r, Running |-> 0]

\* readActiveEventValues: of a dead counter read returns no bytes and no error,
\* and what is then taken from the buffer are its zeros.
ReadActiveEventValues(event) ==
  IF event.position \in dead THEN Zero ELSE Shows(event.place, round)

\* ReadValue of an eventValue, ReadValues of an eventMultiValue.
Refreshed(event) ==
  [event EXCEPT !.values = [i \in 1 .. Width(line[event.position].name) |-> ReadActiveEventValues(event)]]

\* ... and where they fail: the zero value or nil takes the place of the last.
Failed(event) == [event EXCEPT !.values = NewValue(event.position, event.place).values]

\* readValues and readMultiValues where the n first reads succeed: the
\* next one fails, and those after it are left alone.
ReadN(list, n) ==
  [k \in DOMAIN list |-> IF k <= n THEN Refreshed(list[k])
                         ELSE IF k = n + 1 THEN Failed(list[k]) ELSE list[k]]

\* The names come in the random order of a map, the core events first.
MayRead(name) == name \in unread /\ (name \in UncoreEvents => unread \cap CoreEvents = {})

Read(name) ==
  /\ pc = "read"
  /\ MayRead(name)
  /\ active' = [active EXCEPT ![name] = ReadN(active[name], Len(active[name]))]
  /\ unread' = unread \ {name}
  /\ UNCHANGED <<lineVars, pc, at, parseVars, activeEventNames, activeMultiEventNames, open, dead,
                 round, announced, output, failures>>

\* The error is printed.
ReadFails(name) ==
  /\ pc = "read"
  /\ MayRead(name)
  /\ failures < MaxFailures
  /\ failures' = failures + 1
  /\ \E n \in 0 .. Len(active[name]) - 1 : active' = [active EXCEPT ![name] = ReadN(active[name], n)]
  /\ announced' = announced \cup {name}
  /\ unread' = unread \ {name}
  /\ UNCHANGED <<lineVars, pc, at, parseVars, activeEventNames, activeMultiEventNames, open, dead,
                 round, output>>

\* (mutant) A round with an error never gets to its printing.
AllReadWell ==
  /\ pc = "read"
  /\ unread = {} /\ announced = {}
  /\ pc' = "print"
  /\ at' = 1
  /\ UNCHANGED <<lineVars, parseVars, activeVars, roundVars>>

AllRead ==
  /\ pc = "read"
  /\ unread = {}
  /\ pc' = "print"
  /\ at' = 1
  /\ UNCHANGED <<lineVars, parseVars, activeVars, roundVars>>
-----------------------------------------------------------------------------
EventScaledValue(v) ==
  IF v.Enabled # v.Running /\ v.Running # 0 THEN (v.Raw * v.Enabled) \div v.Running ELSE v.Raw

\* (mutant) The sums are scaled in place of the values.
MergeValuesFirst(values) ==
  EventScaledValue([f \in DOMAIN Zero |-> SumFunction([k \in DOMAIN values |-> values[k][f]])])

\* mergeValues; the other three sums are printed beside it with -raw.
MergeValues(values) == SumFunction([k \in DOMAIN values |-> EventScaledValue(values[k])])

ValuesOf(list) == [k \in DOMAIN list |-> list[k].values]
EachApart(values) == [i \in DOMAIN values |-> MergeValues(<<values[i]>>)]

\* printCoreEvent and printCoreEventAggr.
PrintCore(list) ==
  IF aggr THEN <<MergeValues(FlattenSeq(ValuesOf(list)))>> ELSE EachApart(FlattenSeq(ValuesOf(list)))

\* printUncoreEvent: nothing more after values that are missing.
PrintUncoreEvent(list) ==
  LET whole == {k \in DOMAIN list : \A j \in 1 .. k : Len(list[j].values) = Units}
  IN  FlattenSeq([k \in 1 .. Cardinality(whole) |-> EachApart(list[k].values)])

\* printUncoreEventAggr: a line for each value of the first, of sockets that
\* have as many.
PrintUncoreEventAggr(list) ==
  LET whole == {k \in DOMAIN list : Len(list[k].values) = Units}
  IN  [i \in DOMAIN list[1].values |-> MergeValues([k \in whole |-> list[k].values[i]])]

\* printUncore.
PrintUncore(list) ==
  CASE ~aggr /\ merge -> [k \in DOMAIN list |-> MergeValues(list[k].values)]
    [] aggr /\ merge -> <<MergeValues(FlattenSeq(ValuesOf(list)))>>
    [] ~aggr /\ ~merge -> PrintUncoreEvent(list)
    [] aggr /\ ~merge -> PrintUncoreEventAggr(list)

\* The core events' names in their order, then those of the uncore events.
Names == activeEventNames \o activeMultiEventNames

PrintName ==
  /\ pc = "print"
  /\ at <= Len(Names)
  /\ LET name == Names[at]
         values == IF name \in CoreEvents THEN PrintCore(active[name]) ELSE PrintUncore(active[name])
     IN  output' = output \o [k \in DOMAIN values |-> [name |-> name, value |-> values[k]]]
  /\ at' = at + 1
  /\ UNCHANGED <<lineVars, pc, parseVars, activeVars, round, unread, announced, failures>>

Printed ==
  /\ pc = "print"
  /\ at > Len(Names)
  /\ pc' = "sleep"
  /\ UNCHANGED <<lineVars, at, parseVars, activeVars, roundVars>>

\* cleanUp, deferred by main: Deactivate for each event in the maps.
Reachable ==
  {c \in Counters : \E k \in DOMAIN active[line[c[1]].name] :
     active[line[c[1]].name][k].position = c[1] /\ active[line[c[1]].name][k].place = c[2]}

CleanUp ==
  /\ pc = "sleep"
  /\ ~GoesOn(round)
  /\ open' = open \ Reachable
  /\ pc' = "returned"
  /\ UNCHANGED <<lineVars, at, parseVars, active, activeEventNames, activeMultiEventNames, dead, roundVars>>

\* SIGINT or SIGTERM: os.Exit in the goroutine that waits for it, without cleanUp.
Interrupt == pc \notin {"returned", "exited"} /\ Exit
-----------------------------------------------------------------------------
Step ==
  \/ Parse \/ ParseFails \/ Parsed \/ Resolve \/ ResolveFails
  \/ ActivateSingle \/ SinglesDone \/ ActivateGroup \/ ActivationFails \/ GroupsDone
  \/ BeginRound \/ (\E name \in unread : Read(name) \/ ReadFails(name)) \/ AllRead
  \/ PrintName \/ Printed \/ CleanUp

Next == Step \/ Interrupt

Spec == Init /\ [][Next]_vars

\* main goes on by itself: reads return and a sleep ends.
FairSpec == Spec /\ WF_vars(Step)
-----------------------------------------------------------------------------
\* How deep position p is in braces, its own included.
Opened(p) == Cardinality({q \in 1 .. p : line[q].opens})
Closed(p) == Cardinality({q \in 1 .. p : line[q].closes})
Balanced ==
  /\ \A p \in Positions : Opened(p) - Closed(p) \in {0, 1} /\ Opened(p) - Closed(p - 1) \in {0, 1}
  /\ Opened(Len(line)) = Closed(Len(line))

\* The positions in S, in the order of the line.
InLineOrder(list, S) ==
  /\ ToSet(list) = S
  /\ \A i, j \in DOMAIN list : i < j => list[i] < list[j]

\* Safety: what parseEvents makes of a line is what its braces say
\* (main.go:77, "Use {} for groups"): it accepts the lines with balanced braces
\* that do not nest, and no other; outside them an event is single, and the
\* n-th pair of braces is the n-th group, both in the order of the line.
ParsedAsWritten ==
  /\ pc \notin {"parse", "exited"} =>
       /\ Balanced
       /\ InLineOrder(singles, {p \in Positions : Opened(p) = Closed(p - 1)})
       /\ Len(groups) = Opened(Len(line))
       /\ \A g \in DOMAIN groups :
            InLineOrder(groups[g], {p \in Positions : Opened(p) = g /\ Closed(p - 1) = g - 1})
  /\ pc = "parse" /\ Balanced => ~ParseError

\* Safety: cleanUp reaches every counter (main.go:281), through one event, even
\* when a name is there several times: when main returns none is open.
CleanUpReaches ==
  /\ pc \in {"sleep", "read", "print"} =>
       \A c \in open :
         Cardinality({k \in DOMAIN active[line[c[1]].name] :
                        active[line[c[1]].name][k].position = c[1]
                          /\ active[line[c[1]].name][k].place = c[2]}) = 1
  /\ pc = "returned" => open = {}

\* The events that an event's occurrences in the line have counted in the
\* round, estimated for the time they ran.
Measured(name) ==
  LET estimate(c) == IF c[1] \in dead THEN 0
                     ELSE (CASE Sharing[c[2]] = "alone" -> 3 [] Sharing[c[2]] = "shared" -> 6
                             [] Sharing[c[2]] = "starved" -> 0) * round
  IN  SumFunction([c \in {c \in open : line[c[1]].name = name} |-> estimate(c)])

TimesNamed(name) == Cardinality({p \in Positions : line[p].name = name})

\* Safety: once a round is printed, the lines of each name add up to what its
\* counters have counted in this round, whatever the options -no-aggr and
\* -merge, unless an error was printed for it: no value is one of an earlier
\* round (main.go:308), none is left out and none counted twice.  Two things
\* to know: each time a name is given it is printed with the counters of all,
\* and a pinned event that has no PMU passes for one that counted 0 (event.go:404).
PrintedIsMeasured ==
  pc = "sleep" /\ round > 0 =>
    \A name \in DOMAIN active \ announced :
      SumFunction([k \in {k \in DOMAIN output : output[k].name = name} |-> output[k].value])
        = TimesNamed(name) * Measured(name)

\* Liveness: with -loop main comes to its end, whatever fails.
Finishes == Count > 0 => <>(pc \in {"returned", "exited"})
=============================================================================
