# A TLA+ development of iaevents

`iaevents` is a Go library that counts events of Intel PMUs with the Linux
`perf_event_open` system call. This directory models it in TLA+, checks the
models with TLC on small instances and proves the safety properties that hold
with TLAPS for all instances. `PROJECT.json` lists the runs, the code lines
each definition stands for, the hazards of the code and the theorems.

## 1. The system

Events are defined in JSON files. A *reader* loads the files, a *transformer*
turns the definitions that a *matcher* selects into *PerfEvents*, asking
sysfs which PMUs exist; a client makes *placements* (cpu and PMU type) for a
PerfEvent, *activates* it there, and gets *ActiveEvents*, which it reads and
deactivates. All calls are synchronous Go functions without locks or
goroutines of their own: concurrency comes from clients that call from several
goroutines, from other processes that change files and drivers, and from the
kernel's shared descriptor table.

| Component | State | Operations | What is hard | What makes it correct |
|---|---|---|---|---|
| Activation (`event.go`) | Attr of each PerfEvent, FileDescriptor of each ActiveEvent | Activate, ActivateMulti, ActivateGroup, Deactivate, NewPlacements, ReadValue | rollback of partial activations; a shared Attr that a group activation changes and restores; recycled descriptor numbers | all or nothing; no counter lost; no descriptor of another event used; the leader waits; Attr restored |
| Multi events, groups (`groups.go`) | the slice of ActiveEvents | Deactivate, ReadValues, AggregateValues | one event of several failing; slices emptied under a client that kept them | every event is closed, once |
| System calls (`unixes.go`) | kernel: descriptors, counters, groups | open, close, read, ioctl | EMFILE, EBADF, short reads | - |
| Reader (`reader.go`) | path list, cached data | AddFiles, AddDefaultFiles, Read, GetHeaders | failure at the n-th file; two formats, one reported as an error although added | files enter all at once; what was answered is what can be read |
| File access (`iohelpers.go`) | none | validateFile, open, readAll, scanOneValue, glob | the path is looked up up to three times | never a symlink, never a file swapped in while it is opened |
| Matcher (`matcher.go`) | names | Match | - | deprecated definitions never match |
| Transformer (`transformer.go`) | none (locals of Transform) | Transform, resolve, findPMUs, parseTerms, formatValue | a batch in which single events fail; several looks at a sysfs that changes; bit ranges | every matching event is answered once; its PMUs are those of its unit; its terms are its own; no bit is lost |
| Placements (`placements.go`, NewPlacements) | none | NewCorePlacement(s), NewUncore(All)Placement(s) | cpus that go offline later; sockets | a placement names a PMU of the event and a present cpu |
| Topology (`topology.go`) | none | AllCPUs, AllSockets, cpuOnline, CheckCPUid | sparse cpu lists, ranges that wrap | the cpus listed are those present |
| Options, modifiers (`options.go`, `modifiers.go`) | attributes under construction | Build, updateQualifiers | config2 without the attribute size that covers it; precise_ip counts up | what is asked is what the kernel gets |
| Target process (`processes.go`) | two fields | getters | - | - |
| Values (`values.go`) | none | EventScaledValue | running time 0, 128 bit products | scaled = raw * enabled / running |
| iastat (`examples/iastat`) | maps of active events and last values | parse, activate, read loop, clean up | failed reads, signals, events named twice | values printed are of this round; everything is closed |

Interactions: activation calls the kernel through `unixHelper` and reads a
cpu's `online` file through `cpuMonitor`; ActivateMulti and ActivateGroup call
Activate and `activateWithLeader`; the deactivations of groups call that of
ActiveEvent; AddDefaultFiles calls AddFiles; Transform calls Reader.Read and
Matcher.Match and all its sysfs lookups go through `ioHelper`. There are no
callbacks and no channels in the library; `iastat` has one goroutine that waits
for signals.

## 2. What is modelled

| Module | Kind | Models | Uses |
|---|---|---|---|
| `PerfKernel` | environment | the kernel's descriptors, counters and groups | - |
| `CounterSessions` | abstract specification | all-or-nothing sessions of counters | - |
| `Activation` | state machine | `event.go`, `groups.go`: activation, rollback, deactivation | `PerfKernel`; implements `CounterSessions` |
| `Topology` | state of a machine, operators | `topology.go`, hotplug | - |
| `AttrOptions` | operators | `options.go`, `modifiers.go`, configurePerfEvent | - |
| `EventRequest` | state machine | `placements.go`, NewPlacements, `processes.go`, the checks of an activation | `Topology`, `AttrOptions` |
| `FilesReader` | state machine | `reader.go`, `iohelpers.go` | - |
| `EventTransform` | state machine | `transformer.go`, `matcher.go` | - |
| `FormatBits` | algorithm | formatValue, parseBitFormat | - |
| `Iastat` | state machine | `examples/iastat`, ReadValue(s), `values.go` | - |

The modules `*_proofs` hold the proofs, `Counting` the lemmas about induction,
recursion and sums that several of them use (section 4).

`MCActivation`, `MCFilesReader`, `MCEventTransform`, `MCEventRequest` and
`MCIastat` give the constants values for TLC. A definition whose comment begins
with "(mutant)" is a plausible wrong version of the one after it; no
specification uses it, it is there to see that the properties notice.

**`PerfKernel`** (external) is the kernel as `unixes.go` uses it: a table of
`MaxFds` descriptors, each free or naming the counter it was opened for, the
set of enabled counters, and the leader of each counter's group. Opening takes
the lowest free number, as Unix does, so numbers are recycled at once. A close
of an open descriptor succeeds. `Orphan` marks an open counter that no
ActiveEvent names any more.

**`Activation`** extends it with `event.go` and `groups.go`. `Callers` are
goroutines; each has at most one call in progress, whose steps are the code's
accesses to shared state: copying a PerfEvent's Attr (`Prepare`), setting its
Disabled bit (`SetDisable`), each `perf_event_open`, each `close` of a
rollback (`Undo`), both ioctls, and writing Attr back (`Restore`).
`disabled[e]` is the one bit of Attr that the code changes after the
transformer; `attr[c]` is that bit in the local copy. A failure takes one of
the code's error returns: `PrepareFails` for a placement, options or process
that is refused, `OpenFails`, `IoctlFails`. `Refuse` is the error return itself,
after which the caller has no ActiveEvent. The result of a call stays in the
caller's hands (`held`, `opened`, `fd`, `slice`) until its events are closed.
Clients are assumed to close what they hold before they call again, and not to
share a result between goroutines; they may share PerfEvents. `Exclusive` is
the rule under which the attributes can be right at all: no call uses a
PerfEvent while another leads a group with it. The code has no lock, so the
properties that hold without the rule are checked without it.

**`CounterSessions`** is the abstract specification: a client asks for a set of
counters and gets all of them or none, and its counters go only when it stops
them. `Activation` implements it (`SessionsSpec`); the mapping takes the
counters of a client from the descriptor table and its phase from `pc` and
`held`. It holds as long as the ioctls do not fail: the finding
`activation_leak` is exactly a failed call that leaves counters.

**`Topology`** has the cpus of a machine, which of them are online, and
`Hotplug`. `present` is fixed at boot and may have gaps; cpu 0 is always
online. `PresentList` is sysfs' list of ranges, `CpusNum` the sum that
parseCPURange makes of it, `AllCPUs` what the code concludes. `Assign` is one
round of assignCPUToSocket, `LexRank` the order in which glob returns the
paths, cpu10 before cpu2.

**`AttrOptions`** has the attributes as sets: a config word is the set of its
bits, `bits` the set of its flags. `UpdateQualifier` is one entry of a
qualifier list, `IncPreciseIP` the counting of `p`, `Merge` configurePerfEvent,
and `KernelWord` what the kernel reads of a word with the `Size` it is given.

**`EventRequest`** is the way from what a client asks for to what the kernel
is asked: the options, qualifier by qualifier (`BuildItem`, `Built`), the
topology file by file (`Glob`, `ReadId`), the placements of NewPlacements or a
placement constructor (`Place`), and for each the checks of configurePlacement
and configureProcess (`Configure`) and perf_event_open (`Open`), while cpus go
and come. A behaviour is one call, since a call leaves nothing in the library
that the next one would see. A client may pass a placement made by another
event (`factory`). What a failure does to open counters is one step here
(`Fail`); `Activation` has its steps. `steady` and `awake` are history: whether a
cpu has gone or come, and which have been online since the placements were made
or the counter before was opened. That the kernel takes an offline cpu only
for the target "one process" is external (`KernelTakes`).

**`FilesReader`** is `reader.go` over `iohelpers.go`. The directory maps paths
to files, symlinks, directories or nothing, and `Replace` changes an entry
between any two lookups. One AddFiles runs through `Validate`, `Lstat`,
`OpenAndRead` for each path and then `Commit`; AddDefaultFiles is the sequence
of AddFiles calls that the code makes (`DefaultNext`). A file's content is
its format: new, deprecated (old) or broken. `wasFile`, `acked` and `begun`, the
length of the path list when the client's call began, are history variables for
the properties. The core and uncore files have different names; the full and the
short name may be the same, as for a cpu whose stepping is not known.

**`EventTransform`** is Transform with the matcher. A definition is a record of
what the code tells apart. `terms` are its terms that are still to be parsed,
in the code's order (`TermOrder`); `paths` the positions in glob's result that
are still to be read, lowest first. `FindExact`, `FindSingle`, `FindNumbered`
and `ReadType` are the lookups of findPMUs, `ValidateCpumask` and
`ScanCpumask` those of isPMUUncore, `ParseTerm` one format file. A PMU whose
type file cannot be read counts as not there. `Plug` lets a driver come, go or
come back with another type between any two of these. `seen` and `stayed`
record what sysfs showed while the current event was resolved. JSON units
stand for the PMU names that `unitToPMU` maps them to.

**`FormatBits`** is formatValue and parseBitFormat on words of `Width` bits,
one round of the loop per step, arithmetic modulo `2^Width`.

**`Iastat`** is main from the parsed flags on: parseEvents over the -events
list, one element a step; the activation of single events and groups, which
fills the maps of active events by name; rounds of reading, in the random order
of the maps, and of printing, in the order of the lists of names; `CleanUp` and
`Interrupt`. Events are positions of the list, since a name may be there
twice. An activation is one step that yields all counters or exits
(`OpenCounters`), which is what `CounterSessions` promises of `event.go`. What a counter shows in a round (`Shows`) depends on
how it gets its PMU: alone, for part of the time, or never; a pinned event may
be `dead`, of which read returns no bytes. A read that fails leaves the zero
value or nil behind (`Failed`) and what comes after it unread (`ReadN`), as
the loops over the events do. The four printers add up and scale the values
(`MergeValues`, `EventScaledValue`); a line of output is a name and a number.

## 3. What is checked

| Run | Bounds | What it shows |
|---|---|---|
| `activation` | 2 goroutines, 2 PerfEvents, up to 2 counters a call, 3 descriptors; configuration and open faults; Exclusive | all or nothing, no leak, own descriptors, leader waits, results count, groups are units, Attr restored, isolation, refinement of CounterSessions; the inductive invariant of the proofs |
| `activation_shared` | 2 goroutines on one PerfEvent with no rule, 2 descriptors; open and ioctl faults; fairness | descriptors stay their events' own; every call returns |
| `activation_groups` | 1 goroutine, groups of up to 3, 4 descriptors, enable-on-exec, all faults | the group properties where a member is neither first nor last |
| `activation_attr` | as above, open faults; expected violation | `ActivateStarts`, see findings |
| `activation_leak` | as above, ioctl faults; expected violation | `Accounted`, see findings |
| `files_reader` | 4 default paths, 3 formats, calls of up to 2 paths, 3 paths in the reader, 1 replacement; fairness | adds are whole and fresh, cache and answers agree, AddDefaultFiles answers for what it has added, calls return |
| `files_reader_defaults` | no replacement; expected violation | `DefaultsAdded`, see findings |
| `event_transform` | 2 units, 7 directories, 7 definitions, batches of 2, 1 change; fairness | every matching event answered once, PMUs of its unit, own terms, the outcome a steady sysfs determines, Transform returns |
| `format_bits` | words of 3 bits, all lists of 2 ranges of numbers up to 7, all values | each bit placed as the ranges say, nothing lost, only ranges that are none of a word refused |
| `event_request` | 2 sockets of 2 cpus, machines of 2 and 3 cpus with and without a gap, 2 hotplugs; 6 cpu lists, 4 unit names, 3 socket numbers, all lists of up to 2 of 6 qualifiers and up to 5 `p`, 3 targets | counters where asked, attributes as asked, none opened on a cpu that was offline all along, the outcome a steady machine determines |
| `topology_sparse` | the machine 0-1,3; expected violation | `AllCPUsPresent`, see findings |
| `iastat` | all ways to put braces around up to 4 events and 7 lists with repeated, pinned, uncore, invalid ones; 2 cpus, 2 sockets of 2 units, 2 rounds, 2 reads that fail, a signal at any time; fairness | groups are what the braces say, the clean-up reaches every counter, a round's lines add up to what was counted in it, main ends |

*Bounds.* Two goroutines are enough for the interleavings of interest, a
descriptor freed by one and taken by the other, or an attribute written by one
and copied by the other: the model relates callers in pairs only. Three
descriptors against four counters make the table run full in the middle of both
activations; three members in a group give a first, a middle and a last one.
One replacement of a directory entry is the race that SameFile is about, and the
initial directory is arbitrary. One change of a driver may be its loading,
unloading or reloading with a new type. A batch of two shows what one event
leaves to the next. In a word of three bits numbers go up to 7, beyond the
width and twice it, as 64 bit numbers go beyond 64. Two hotplugs take a cpu away
between two lookups and bring it back, or take both cpus of a socket; a gap
makes the count of cpus differ from the highest number; cpu 2 of the model
sorts before cpu 1 as cpu10 does before cpu2. Three `p` reach the limit of
precise_ip, five go beyond it. Two rounds are what a stale value needs, two
failures spoil two events of a round or one event in both, with two cpus and
sockets a read fails before or after another that went well. Where the proofs
below cover a property, the bounds do not matter for it.

*Symmetry* over goroutines and PerfEvents is used in `activation`, which checks
safety only.

*Deadlock* is checked where calls can go on for ever. It is off where the
modelled program really ends: the reader, whose `MaxPaths` ends the run,
`FormatBits`, a function that returns, the one request of `EventRequest`, and
`Iastat`, whose process exits.

*Fairness.* `WF(Step)`, per goroutine in `Activation`: a call in progress goes
on, because Go runs every goroutine and system calls return. `Iastat`'s main
goes on likewise, its sleeps included; that a read succeeds is not assumed.
Nothing is assumed about clients, files, drivers and signals: they may do
something or not.

### Findings

* `activation_attr`: a failed ActivateGroup leaves the Disabled bit in the
  leader's Attr (`event.go:265`, restored only at line 300), and every later
  Activate of that PerfEvent returns a counter that never counts.
* `activation_leak`: if an ioctl on the leader fails, ActivateGroup returns an
  error without closing the group (`event.go:291-298`).
* `files_reader_defaults`: AddDefaultFiles takes DeprecatedFormatError for
  failure (`reader.go:123`), so an old-format core file is added without its
  uncore file. If the short name's files are there, they are added to it and the
  answer is nil.
* `topology_sparse`: where the list of present cpus has a gap, AllCPUs names a
  cpu that does not exist and omits one that does (`topology.go:294`, against
  the comment at line 281).

Some properties had to name an exception worth knowing:

* `ResultCounts`: a group that repeats its leader's PerfEvent as a member has a
  member that never counts.
* `DefaultsTogether`: beside the files of the short name the reader may hold the
  core file of the full name, in the old format, which the answer does not report
  (`reader.go:123`, the finding above); no other mixture occurs.
* `KernelAttr`: bits of config2 that options add to an event without any are
  lost, for `Size` stays that of the first version of the attributes
  (`event.go:196`).
* `SteadyOutcome`: on a machine with a gap, NewPlacements refuses present cpus
  beyond the count (`event.go:116`), and an absent cpu, which has no `online`
  file, counts as online (`topology.go:226`), so that a request for one process
  passes on it. `OpenedAwake` leaves such a cpu out too.
* `OnlyInWord`: the range of all `2^64` numbers passes, since the number of its
  bits wraps to 0, and takes no bit of the value (`transformer.go:361`).
* `PrintedIsMeasured`: a name that is given twice is printed twice, each time
  with the counters of both (`main.go:239`); a pinned event without a PMU, of
  which read returns nothing, is shown as 0 (`event.go:404`).
* `CleanUpReaches` is about main's return: a signal ends the process without
  the clean-up that `main.go:288` announces, and the kernel closes the counters.

## 4. What is proved

The proofs hold for every value of the constants that satisfies the modules'
assumptions, which TLC evaluates in the runs. Each proof module begins with the
strengthening it needs; its theorems follow from it.

| Module | Theorem | Property | Beyond the constants' assumptions |
|---|---|---|---|
| `Activation_proofs` | `TypeCorrect`, `DescriptorsAreOwn`, `Invariance` | `TypeOK`, `OwnDescriptor`, `IInv` | - |
| | `NothingLeaks` | `Accounted` | no ioctl faults |
| | `ActivationImplementsSessions` | `SessionsSpec` (refinement) | no ioctl faults |
| | `CountersAreIsolated` | `Isolation` | - |
| `Groups_proofs` | `GroupsAreUnits` | `GroupIsUnit` | - |
| | `AttrIsRestored`, `LeadersWait`, `ResultsCount` | `AttrRestored`, `LeaderWaits`, `ResultCounts` | `Exclusive` |
| `EventRequest_proofs` | `TypeCorrect`, `CountersWhereAsked`, `AttributesAsAsked` | `TypeOK`, `OpenedWhereAsked`, `KernelAttr` | - |
| | `OutcomeIsSteady`, `CountersOpenedAwake` | `SteadyOutcome`, `OpenedAwake` | - |
| `FilesReader_proofs` | `TypeCorrect`, `AnswersMatch`, `AddsAreWholeAndFresh`, `DefaultsComeTogether` | `TypeOK`, `ReaderMatchesAnswers`, `AddsWholeAndFresh`, `DefaultsTogether` | - |
| `EventTransform_proofs` | `TypeCorrect`, `AllAreAnswered`, `PmusAreOfUnit`, `AttrIsOfEvent`, `OutcomeIsStable` | `TypeOK`, `Answered`, `PmusOfUnit`, `AttrOfEvent`, `StableOutcome` | - |
| `FormatBits_proofs` | `BitsDeposited`, `RefusedWhenNotInWord`, `FormatIsLossless` | `Deposited`, `OnlyInWord`, `Lossless` | - |
| `Iastat_proofs` | `TypeCorrect`, `LinesAreParsed`, `CleanUpReachesAll`, `PrintedAddsUp` | `TypeOK`, `ParsedAsWritten`, `CleanUpReaches`, `PrintedIsMeasured` | - |

That ioctls do not fail, and `Exclusive`, are what the findings and the race on
Attr make necessary.

*Activation.* `OwnDescriptor` says that a number an ActiveEvent holds leads
to its own counter. That alone is not inductive: to see that a close by
another caller does not hit the counter, one needs the converse, `Owned`, that
every counter in the table is held, under that number, by the ActiveEvent it
was opened for; to see that a rollback which closes by number closes its own,
one needs that a call in progress holds every descriptor up to `opened`
(`HoldsWhatItOpened`); for both, where the loops stand (`Shape`). `RefusedEmpty`
adds that without ioctl faults no error return still has counters open, so
that `Forget` orphans none; with `Owned` that gives `Accounted`.

*Sessions.* `Held` relates the phase of a call to what its caller holds, which
is what a step's image under the refinement mapping depends on; initial states
map to initial states and each step to a step of a session or a stutter. For
`Isolation`, `GroupsApart` says that the kernel's groups join counters of one
caller only, so that closing a leader regroups nobody else's.

*Groups.* `Grouped` is `GroupIsUnit` for a group that is still being opened.
Under `Exclusive`, `Alone` says that nobody uses a PerfEvent that another's
group leads with; then the bit a group has saved is the original one
(`AttrRight`), its leader was opened disabled (`LeaderHeld`), and every other
counter in hand is enabled from its opening on or waits for a reason that the
property names (`Counted`).

*EventRequest.* `WhereInv`: socketCpus holds the lowest cpu of each socket
among those read (`MapIsLowest`), and each placement wanted is open or still
to do (`PlacementsKept`). `AttrInv`: after n qualifiers the options hold what
the first n ask for, precise_ip by a count that stops at three. For
`SteadyOutcome`, `SteadySoFar` says what each step so far has found out about
a machine on which no cpu came or went: the checks that are behind were passed
and an error means that the request cannot be served. It rests on what the code
concludes from sysfs' list of cpus: that the sum parseCPURange makes of the
ranges is the number of cpus (`CpusNumIsCount`). For `OpenedAwake`, `Watched`
says that from the check of a cpu to the system call it stays among those that
have been awake, however it goes and comes.

*FilesReader.* `ReaderInv`: what was read so far is the first part of the
call's paths (`Progress`) and was there during the call (`Fresh`); which
AddFiles of AddDefaultFiles runs determines its paths (`Defaults`); the two
lists of the reader and the answers given agree (`Added`). For
`DefaultsTogether`, `Gathered` says what the AddFiles calls that AddDefaultFiles
has behind it have added, and in which formats; that the core file of one name is
not the uncore file of another is an assumption (`ReaderAssumption`).

*EventTransform.* `Found`: the PMUs found so far were seen, none twice, and
each numbered one that stayed is found or still to be read; `AttrSoFar`: the
terms that are no longer to be parsed are in Attr. For `StableOutcome`,
`SteadySoFar` says what each step so far has found out about a sysfs that has
not changed: a change makes `stayed` and `seen` differ for good.

*FormatBits.* `FormatInv` is `Deposited` with `RangesSoFar`, that the ranges
behind the loop were not refused and that the loop stands where the result
says. The numbers of a range wrap as `uint64` does; that a width computed from
them is right needs a word to have more numbers than bits (`PowersOfTwo`), which
with `RangesSoFar` gives `OnlyInWord` (`RefusedNotInWord`). `FormatInv` has the
types too; they are no property of a run, for Go's `uint64` guarantees them.
`Lossless` follows because the bits of a value that fits and their positions
correspond one to one (`TakenFacts`, `ApartWhenPlaced`, `AllBitsPlaced`).

*Iastat.* `IastatInv` has a part for each thing main builds. `ParsedSoFar`
is what the braces say of the elements seen so far, an open group included.
`ActiveSoFar`: the maps have exactly one entry for each event and place that
has been activated (`Registered`), under the event's name, and those are the
counters that are open. That needs the elements of the lists of cpus and
sockets to be told apart, so a cpu that is given twice (`-cpu 0,0`) is two
elements of `Cpus`, as it is two counters of the program. `NamedSoFar`:
a name is in the lists of names as often as its activated positions.
`RoundSoFar`: during the reading, a list that is behind has the values of
this round or its error was announced; during the printing, the lines of a name
add up to the name's measured value times how often it was among the names
so far. `PrintedAddsUp` is the end of that sum. The printers of `-no-aggr` and
`-merge` need no case of their own beyond a lemma each: they add up the same
table, by rows, by columns or whole, and scaling commutes with addition on
what a round's counters show.

*Counting* has what the proofs need of numbers. The provers cannot use the
library's induction theorems, which are about operators; `Induct` and
`FiniteInduct` are induction about a set, from the least element that the
well-founded order of the numbers gives; `NatRecursion`, `BoundedRecursion` and
`SetRecursion` show that recursive functions exist and satisfy their equations,
the step being a function. With them the sums of the community modules are
characterised by what they add up to (`SumAdds`, `SumReindexed`, `SumOfTable`,
`SumByColumns`).

*What the proofs found in the models.* `Served`, what `SteadyOutcome` measures
a request by, asked only whether the PMU of one placement is the event's; a
client may pass placements of another event, some of whose PMUs are the
event's and others not, so it now asks it of each. `Iastat!TypeOK` said that the round is at
most `Count`, which is not so without a bound (`Count = 0`); TLC's bounds
hid it. That the elements of `Cpus` and `Sockets` are told apart was said in a
comment only; `IastatAssumption` now says it. `AddGroup` added the events of a
group name by name; it now follows the loops of activateGroup, cpu by cpu.

*Only model-checked.* Liveness, which the prover has no rules for, as it has
none for ENABLED: `CallsReturn` of `Activation` and of `FilesReader`,
`TransformReturns` and `Finishes`. Every other property of a passing run has a
theorem.

## 5. Not modelled, and what could follow

* That the letters of modifiers stand for the right flags: no document here says
  which flag a letter sets (the library's README links to a wiki), so `KernelAttr`
  takes `ModifierBit`, the map of the code, for granted.
* The wording of errors, JSON and command line syntax, the layout of lines,
  headers, `-listevents` and flags; GetHeaders, which only returns what was
  read.
* scanCPUid and CheckCPUid: one pass over cpuinfo that formats a name. AllSockets:
  the keys of the map that `Assign` makes.
* AggregateValues (`groups.go`), a sum of three fields that `iastat -raw`
  alone prints; numbers beyond 64 bits, for which the code uses math/big.
* The slice of events that a client keeps after Deactivate has emptied it
  (`groups.go:46`): it is the client's own.
* Which of two definitions of one name wins when Read returns files in the
  order of a map (`reader.go:151`): nothing in the library says which should.
* Clients that share the result of one activation between goroutines; the
  library has no rule for them.

What could follow: `Iastat` on top of `CounterSessions` with several
activations in progress, should it come to use goroutines; the bits of several
terms in one word, which EventTransform keeps as names, over the words of
`FormatBits`.
