--------------------------- MODULE EventTransform ---------------------------
(***************************************************************************)
(* PerfTransformer.Transform (transformer.go): the events of a Reader that *)
(* a NameMatcher selects become PerfEvents, with the PMUs, their types and *)
(* the bit formats that sysfs shows.  Every look at sysfs is a step of its *)
(* own, and a PMU driver may come or go between two of them.               *)
(***************************************************************************)
EXTENDS Integers, Sequences, Functions

CONSTANTS
  Units,       \* the PMU names of event definitions
  Pmus,        \* directories under /sys/devices
  Exact,       \* unit -> directory "<unit>"
  Single,      \* unit -> directory "uncore_<unit>"
  Globbed,     \* unit -> directories "uncore_<unit>_[0-9]*", sorted
  OnlyDigits,  \* of these, the ones with a decimal number in the end
  Types,       \* PMU type numbers
  Gone,        \* the type of a PMU that is not there
  BootType,    \* the type that each PMU of this machine got at boot
  Cpumask,     \* PMU -> what its cpumask file is
  Format,      \* PMU -> its format files: term -> config field, or "bad"
  JSONEvents,  \* event definitions
  Null,        \* a null in the array of events
  BadUnit,     \* a Unit that validateEntry refuses
  NameSets,    \* the name lists clients give their matchers; {} matches all
  MaxBatch,    \* bound on the events of one Transform
  MaxChanges   \* bound on the times a PMU comes or goes

Masks   == {"missing", "zero", "other", "garbage", "unreadable"}
Configs == {"config", "config1", "config2", "bad"}

\* The terms parseJSONEventImpl makes.  The last is any of the MSR terms.
Terms == {"umask", "cmask", "inv", "any", "edge", "period", "event", "msr"}

\* What of a JSONEvent the transformer distinguishes: fields holds the entries
\* that are not zero, numbers whether their values all parse as numbers, and
\* fixed the events with a fixed encoding.
JSONEvent ==
  [name : STRING, deprecated : BOOLEAN, code : {"ok", "missing", "bad"},
   extSel : {"none", "ok", "bad"}, unit : Units \cup {BadUnit},
   fixed : {"no", "event", "any"}, fields : SUBSET (Terms \ {"event"}),
   numbers : BOOLEAN]

ASSUME TransformAssumption ==
  /\ Exact \in [Units -> Pmus] /\ Single \in [Units -> Pmus]
  /\ Globbed \in [Units -> Seq(Pmus)]
  /\ \A u \in Units :
       /\ IsInjective(Globbed[u])
       /\ Range(Globbed[u]) \cap {Exact[u], Single[u]} = {}
  /\ OnlyDigits \subseteq Pmus
  /\ Gone \notin Types
  /\ DOMAIN BootType \subseteq Pmus /\ BootType \in Injection(DOMAIN BootType, Types)
  /\ Cpumask \in [Pmus -> Masks]
  /\ \A p \in Pmus : Format[p] \in [DOMAIN Format[p] -> Configs]
  /\ JSONEvents \subseteq JSONEvent
  /\ Null \notin JSONEvents
  /\ BadUnit \notin Units
  /\ MaxBatch \in Nat /\ MaxChanges \in Nat

VARIABLES
  sysfs,      \* type of each PMU, or Gone
  changes,    \* how many times a PMU came or went
  pc,         \* the next step of the Transform in progress
  batch,      \* what Reader.Read returned
  names,      \* the matcher's names; empty for all events
  at,         \* position in batch
  paths,      \* local of findPMUs: positions in what glob found, still to be read
  pmus,       \* PMUTypes of the event being resolved
  uncore,     \* its Uncore
  attr,       \* its Attr: which term went to which field
  terms,      \* the terms still to be parsed
  perfEvents, \* the events resolved so far
  errors,     \* positions of the events whose errors were collected
  seen,       \* history: the PMUs and types there while the event is resolved
  stayed      \* history: the PMUs there, with one type, all that time

resolveVars == <<paths, pmus, uncore, attr, terms, seen, stayed>>
vars == <<sysfs, changes, pc, batch, names, at, resolveVars, perfEvents, errors>>

Named == Pmus \X Types
Attrs == SUBSET ({"config", "config1", "config2", "sample"} \X Terms)

TypeOK ==
  /\ sysfs \in [Pmus -> Types \cup {Gone}]
  /\ changes \in 0 .. MaxChanges
  /\ pc \in {"idle", "next", "exact", "single", "glob", "types", "cpumask", "scan", "terms"}
  /\ batch \in Seq(JSONEvents \cup {Null}) /\ Len(batch) <= MaxBatch
  /\ names \in NameSets \cup {{}}
  /\ at \in 1 .. (MaxBatch + 1)
  /\ paths \in SUBSET Nat
  /\ pmus \in Seq(Named)
  /\ uncore \in BOOLEAN
  /\ attr \in Attrs
  /\ terms \in SUBSET Terms
  /\ perfEvents \in Seq([of : 1 .. MaxBatch, pmus : Seq(Named), uncore : BOOLEAN, attr : Attrs])
  /\ errors \in Seq(1 .. MaxBatch)
  /\ seen \in SUBSET Named /\ stayed \in SUBSET Named

Present(s) == {pt \in Named : s[pt[1]] = pt[2]}

\* Any of the machine's drivers may be loaded.
Init ==
  /\ \E loaded \in SUBSET DOMAIN BootType :
       sysfs = [p \in Pmus |-> IF p \in loaded THEN BootType[p] ELSE Gone]
  /\ changes = 0
  /\ pc = "idle" /\ batch = <<>> /\ names = {} /\ at = 1
  /\ paths = {} /\ pmus = <<>> /\ uncore = FALSE /\ attr = {} /\ terms = {}
  /\ perfEvents = <<>> /\ errors = <<>>
  /\ seen = {} /\ stayed = {}
-----------------------------------------------------------------------------
Event == batch[at]

\* NameMatcher.Match, and the check for null that precedes it.
Match(e) == e # Null /\ ~e.deprecated /\ (names = {} \/ e.name \in names)

\* parseJSONEventImpl: which definitions it refuses, and the terms of the rest.
Parses(e) == e.code = "ok" /\ e.extSel # "bad" /\ e.unit # BadUnit

TermsOf(e) ==
  CASE e.fixed = "event" -> {"event"}
    [] e.fixed = "any"   -> {"event", "any"}
    [] e.fixed = "no"    -> e.fields \cup {"event"}

\* Their order.
TermOrder(e) ==
  IF e.fixed = "any" THEN <<"event", "any">>
  ELSE <<"umask", "cmask", "inv", "any", "edge", "period", "event", "msr">>

\* splitEventTerms; the values of a fixed encoding are numbers.
Splits(e) == e.numbers \/ e.fixed # "no"

\* The locals of resolve, afresh.
NewPerfEvent ==
  /\ paths' = {} /\ pmus' = <<>> /\ uncore' = FALSE /\ attr' = {} /\ terms' = {}
  /\ seen' = {} /\ stayed' = {}

\* Entry of Transform.  An error of the reader and an empty batch end it before
\* it starts.
Transform ==
  /\ pc = "idle"
  /\ \E n \in 1 .. MaxBatch : batch' \in [1 .. n -> JSONEvents \cup {Null}]
  /\ names' \in NameSets
  /\ pc' = "next"
  /\ at' = 1
  /\ perfEvents' = <<>> /\ errors' = <<>>
  /\ NewPerfEvent
  /\ UNCHANGED <<sysfs, changes>>

Skip ==
  /\ pc = "next" /\ at <= Len(batch)
  /\ ~Match(Event)
  /\ at' = at + 1
  /\ UNCHANGED <<sysfs, changes, pc, batch, names, resolveVars, perfEvents, errors>>

\* (mutant) The first event that fails ends the loop.
CollectLast ==
  /\ errors' = Append(errors, at)
  /\ at' = Len(batch) + 1
  /\ pc' = "next"
  /\ NewPerfEvent
  /\ UNCHANGED <<sysfs, changes, batch, names, perfEvents>>

\* (mutant) The event that failed is tried again.
CollectAgain ==
  /\ UNCHANGED <<errors, at>>
  /\ pc' = "next"
  /\ NewPerfEvent
  /\ UNCHANGED <<sysfs, changes, batch, names, perfEvents>>

\* The event's error joins the TransformationError; the loop goes on.
Collect ==
  /\ errors' = Append(errors, at)
  /\ at' = at + 1
  /\ pc' = "next"
  /\ NewPerfEvent
  /\ UNCHANGED <<sysfs, changes, batch, names, perfEvents>>

ParseFails ==
  /\ pc = "next" /\ at <= Len(batch)
  /\ Match(Event) /\ ~Parses(Event)
  /\ Collect

Resolve ==
  /\ pc = "next" /\ at <= Len(batch)
  /\ Match(Event) /\ Parses(Event)
  /\ pc' = "exact"
  /\ terms' = TermsOf(Event)
  /\ seen' = Present(sysfs) /\ stayed' = Present(sysfs)
  /\ UNCHANGED <<sysfs, changes, batch, names, at, paths, pmus, uncore, attr, perfEvents, errors>>

\* Transform returns the events, and the errors if there are any.
Return ==
  /\ pc = "next" /\ at > Len(batch)
  /\ pc' = "idle"
  /\ batch' = <<>> /\ names' = {} /\ at' = 1 /\ perfEvents' = <<>> /\ errors' = <<>>
  /\ UNCHANGED <<sysfs, changes, resolveVars>>
-----------------------------------------------------------------------------
\* findPMUs: the directory of the unit's name, then "uncore_" and the name, then
\* the numbered ones.  getPMUType fails on a PMU that is not there.
Try(dir, otherwise) ==
  /\ IF sysfs[dir] # Gone
     THEN pmus' = <<<<dir, sysfs[dir]>>>> /\ pc' = "cpumask"
     ELSE pc' = otherwise /\ UNCHANGED pmus
  /\ UNCHANGED <<sysfs, changes, batch, names, at, paths, uncore, attr, terms,
                 perfEvents, errors, seen, stayed>>

FindExact  == pc = "exact" /\ Try(Exact[Event.unit], "single")
FindSingle == pc = "single" /\ Try(Single[Event.unit], "glob")

\* (mutant) glob's pattern is trusted.
VerifiedAll(dirs) == {i \in DOMAIN dirs : sysfs[dirs[i]] # Gone}

\* findMultiPMUPaths: what glob finds, less the names that go on after a digit.
Verified(dirs) == {i \in DOMAIN dirs : sysfs[dirs[i]] # Gone /\ dirs[i] \in OnlyDigits}

FindNumbered ==
  /\ pc = "glob"
  /\ LET found == Verified(Globbed[Event.unit])
     IN  IF found = {}
         THEN Collect
         ELSE /\ paths' = found
              /\ pc' = "types"
              /\ UNCHANGED <<sysfs, changes, batch, names, at, pmus, uncore, attr, terms,
                             perfEvents, errors, seen, stayed>>

\* Another numbered PMU.
AddPMU(i, dir) ==
  /\ pmus' = Append(pmus, <<dir, sysfs[dir]>>)
  /\ paths' = paths \ {i}
  /\ pc' = IF paths = {i} THEN "cpumask" ELSE "types"
  /\ UNCHANGED <<sysfs, changes, batch, names, at, uncore, attr, terms,
                 perfEvents, errors, seen, stayed>>

\* (mutant) The error of getPMUType is ignored.
ReadTypeUnchecked ==
  /\ pc = "types"
  /\ \E i \in paths :
       /\ \A j \in paths : i <= j
       /\ AddPMU(i, Globbed[Event.unit][i])

\* getPMUType of the next path.
ReadType ==
  /\ pc = "types"
  /\ \E i \in paths :
       /\ \A j \in paths : i <= j
       /\ LET dir == Globbed[Event.unit][i]
          IN  IF sysfs[dir] = Gone THEN Collect ELSE AddPMU(i, dir)

\* The PMU whose cpumask and formats are read.
RealPMU == pmus[1][1]

\* isPMUUncore, validateFile: without a cpumask the event is a core event.
ValidateCpumask ==
  /\ pc = "cpumask"
  /\ IF sysfs[RealPMU] # Gone /\ Cpumask[RealPMU] = "unreadable"
     THEN Collect
     ELSE /\ pc' = IF sysfs[RealPMU] = Gone \/ Cpumask[RealPMU] = "missing"
                   THEN "terms" ELSE "scan"
          /\ UNCHANGED <<sysfs, changes, batch, names, at, resolveVars,
                         perfEvents, errors, seen, stayed>>

\* isPMUUncore, scanOneValue: only a file that cannot be opened is an error.
ScanCpumask ==
  /\ pc = "scan"
  /\ IF sysfs[RealPMU] = Gone
     THEN Collect
     ELSE /\ uncore' = (Cpumask[RealPMU] = "zero")
          /\ pc' = "terms"
          /\ UNCHANGED <<sysfs, changes, batch, names, at, paths, pmus, attr, terms,
                         perfEvents, errors, seen, stayed>>
-----------------------------------------------------------------------------
\* Where a term of the event goes: specialAttributes knows period; the format
\* file of the PMU tells the others, unless it is missing or not understood.
HasFormat(p, t) == sysfs[p] # Gone /\ t \in DOMAIN Format[p] /\ Format[p][t] # "bad"
Places(p, t) == t = "period" \/ HasFormat(p, t)
Place(p, t) == IF t = "period" THEN <<"sample", t>> ELSE <<Format[p][t], t>>

\* (mutant) Attr is not a new one for each event.
AddEventAttrKept(a) ==
  /\ perfEvents' = Append(perfEvents, [of |-> at, pmus |-> pmus, uncore |-> uncore, attr |-> a])
  /\ at' = at + 1
  /\ pc' = "next"
  /\ paths' = {} /\ pmus' = <<>> /\ uncore' = FALSE /\ attr' = a /\ terms' = {}
  /\ seen' = {} /\ stayed' = {}

\* The event is resolved and joins the result.
AddEvent(a) ==
  /\ perfEvents' = Append(perfEvents, [of |-> at, pmus |-> pmus, uncore |-> uncore, attr |-> a])
  /\ at' = at + 1
  /\ pc' = "next"
  /\ NewPerfEvent

\* parseTerms: one term a step.
NextTerm(t) ==
  LET order == TermOrder(Event)
  IN  \E i \in DOMAIN order : order[i] = t /\ \A j \in 1 .. i - 1 : order[j] \notin terms

ParseTerm ==
  /\ pc = "terms"
  /\ \E t \in terms :
       LET a == attr \cup {Place(RealPMU, t)}
       IN  /\ NextTerm(t)
           /\ IF ~Splits(Event) \/ ~Places(RealPMU, t)
              THEN Collect
              ELSE /\ IF terms = {t}
                      THEN AddEvent(a)
                      ELSE /\ attr' = a
                           /\ terms' = terms \ {t}
                           /\ UNCHANGED <<pc, at, paths, pmus, uncore, seen, stayed, perfEvents>>
                   /\ UNCHANGED <<sysfs, changes, batch, names, errors>>

\* A PMU driver is loaded, unloaded, or both at once (external); the kernel
\* gives a PMU any type number that is free.
Plug ==
  /\ changes < MaxChanges
  /\ changes' = changes + 1
  /\ pc # "idle"
  /\ \E p \in DOMAIN BootType, t \in Types \cup {Gone} :
       /\ t # sysfs[p]
       /\ t = Gone \/ t \notin Range(sysfs)
       /\ sysfs' = [sysfs EXCEPT ![p] = t]
  /\ seen' = IF pc = "next" THEN seen ELSE seen \cup Present(sysfs')
  /\ stayed' = stayed \cap Present(sysfs')
  /\ UNCHANGED <<pc, batch, names, at, paths, pmus, uncore, attr, terms, perfEvents, errors>>

Step ==
  \/ Skip \/ ParseFails \/ Resolve \/ Return
  \/ FindExact \/ FindSingle \/ FindNumbered \/ ReadType
  \/ ValidateCpumask \/ ScanCpumask \/ ParseTerm

Next == Transform \/ Step \/ Plug

Spec == Init /\ [][Next]_vars

\* Sequential code over system calls that return.
FairSpec == Spec /\ WF_vars(Step)
-----------------------------------------------------------------------------
Positions(events) == [k \in DOMAIN events |-> events[k].of]
Increasing(s) == \A j, k \in DOMAIN s : j < k => s[j] < s[k]

\* Safety: an event that matches ends up once, as a PerfEvent or as an error,
\* in the reader's order; no other does (transformer.go:102).  One event's
\* failure loses no other event, README.md "Transform selected event(s)".
Answered ==
  LET done == Range(Positions(perfEvents))
  IN  /\ Increasing(Positions(perfEvents)) /\ Increasing(errors)
      /\ done \cap Range(errors) = {}
      /\ done \cup Range(errors) = {i \in 1 .. at - 1 : i \in DOMAIN batch /\ Match(batch[i])}

\* The directories that are PMUs of a unit, in the order in which findPMUs
\* prefers them.
Numbered(u) == Range(Globbed[u]) \cap OnlyDigits
PmusOf(u) == {Exact[u], Single[u]} \cup Numbered(u)

\* The event a step resolved, and the one whose error it collected.
Resolved == Len(perfEvents') > Len(perfEvents)
Result   == perfEvents'[Len(perfEvents')]
Failed   == Len(errors') > Len(errors)

\* Action property: the PMUTypes of an event are PMUs of its unit that existed,
\* with that type, while it was resolved, none of them twice; an event with
\* numbered PMUs has every one of them that was there all the time.
\* ActivateMulti counts on all of them, and only them.
PmusOfUnit ==
  [][Resolved =>
       LET u == batch[Result.of].unit
           dirs == {pt[1] : pt \in Range(Result.pmus)}
       IN  /\ Range(Result.pmus) \subseteq seen
           /\ dirs \subseteq PmusOf(u)
           /\ \A j, k \in DOMAIN Result.pmus : Result.pmus[j][1] = Result.pmus[k][1] => j = k
           /\ dirs \subseteq {Exact[u], Single[u]} => Len(Result.pmus) = 1
           /\ dirs \cap {Exact[u], Single[u]} = {} =>
                {pt \in stayed : pt[1] \in Numbered(u)} \subseteq Range(Result.pmus)]_vars

\* Action property: Attr holds every term of the event's own definition, where
\* the format of its first PMU places it, and nothing of another event; Uncore
\* is what the cpumask of a PMU that stayed tells.
AttrOfEvent ==
  [][Resolved =>
       LET e == batch[Result.of]
           p == Result.pmus[1][1]
       IN  /\ Result.attr = {Place(p, t) : t \in TermsOf(e)}
           /\ Result.pmus[1] \in stayed => Result.uncore = (Cpumask[p] = "zero")]_vars

\* The PMUs an unchanging sysfs has for a unit.
Here(dirs) == {p \in dirs : sysfs[p] # Gone}
Chosen(u) ==
  IF Here({Exact[u]}) # {} THEN {Exact[u]}
  ELSE IF Here({Single[u]}) # {} THEN {Single[u]}
  ELSE Here(Numbered(u))

\* Whether a definition can be resolved in it.
Resolvable(e) ==
  /\ Parses(e) /\ Splits(e)
  /\ Chosen(e.unit) # {}
  /\ \E p \in Chosen(e.unit) :
       /\ \A i \in DOMAIN Globbed[e.unit] :
            Globbed[e.unit][i] \in Chosen(e.unit)
              => \E j \in 1 .. i : Globbed[e.unit][j] = p
       /\ Cpumask[p] # "unreadable"
       /\ \A t \in TermsOf(e) : Places(p, t)

\* Action property: in a sysfs that does not change while an event is resolved,
\* the event fails exactly when it cannot be resolved, and its PMUs are those
\* of the first of the three kinds of names that exists.
StableOutcome ==
  [][stayed = seen =>
       /\ Failed => ~Resolvable(Event)
       /\ Resolved => /\ Resolvable(Event)
                      /\ {pt[1] : pt \in Range(Result.pmus)} = Chosen(Event.unit)]_vars

\* Liveness: Transform returns, whatever the drivers do.
TransformReturns == pc # "idle" ~> pc = "idle"
=============================================================================
