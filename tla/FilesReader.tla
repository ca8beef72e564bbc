---------------------------- MODULE FilesReader ----------------------------
(***************************************************************************)
(* JSONFilesReader and AddDefaultFiles (reader.go) over the file access of *)
(* iohelpers.go.  A call looks every path up three times, by validateFile, *)
(* by the Lstat of open and by os.Open, and anyone may replace a directory *)
(* entry between two of them.                                              *)
(***************************************************************************)
EXTENDS Integers, Sequences, Functions

CONSTANTS
  FullCore, FullUncore, ShortCore, ShortUncore,  \* the default files' paths
  ClientPaths,      \* paths the client passes to AddFiles
  Inodes,           \* regular files
  Format,           \* content of each: "new", "deprecated" or "broken" JSON
  MaxArgs,          \* bound on the paths of one AddFiles
  MaxPaths,         \* bound on the reader's path list
  MaxReplacements   \* bound on the times directory entries are replaced

Paths == {FullCore, FullUncore, ShortCore, ShortUncore} \cup ClientPaths

\* The names of the core and the uncore files end differently.  Those with and
\* without stepping may be the same, as for a cpu that has none (topology.go:171).
ASSUME ReaderAssumption ==
  /\ {FullCore, ShortCore} \cap {FullUncore, ShortUncore} = {}
  /\ Format \in [Inodes -> {"new", "deprecated", "broken"}]
  /\ MaxArgs \in Nat /\ MaxPaths \in Nat /\ MaxReplacements \in Nat

\* What a path may name.  A symlink names the file it points to.
Entry == [kind : {"file", "symlink"}, inode : Inodes] \cup [kind : {"dir", "none"}]

NoInode == "no inode"

\* A cachedData map, and the assignment of what another one holds to it.
NoData == [p \in {} |-> NoInode]
Put(map, more) ==
  [p \in DOMAIN map \cup DOMAIN more |-> IF p \in DOMAIN more THEN more[p] ELSE map[p]]

VARIABLES
  dir,           \* the directory: path -> Entry
  replacements,  \* how many times an entry has been replaced
  cachedData,    \* the reader's events: path -> inode they were read from
  paths,         \* the reader's path list
  pc, list, at,  \* AddFiles in progress: next step, its paths, position in them
  link,          \* inode of the Lstat in ioHelper.open
  staged,        \* local cachedData of AddFiles
  deprecated,    \* a path was added to DeprecatedFormatError
  result,        \* outcome of the last AddFiles
  stage,         \* which AddFiles of AddDefaultFiles runs
  wasFile,       \* history: (path, inode) pairs seen as regular files in this call
  acked,         \* history: the paths whose AddFiles answered that they are added
  begun          \* history: the length of paths when the client's call began

readerVars == <<cachedData, paths>>
callVars == <<pc, list, at, link, staged, deprecated, result, stage>>
vars == <<dir, replacements, readerVars, callVars, wasFile, acked, begun>>

Cache == UNION {[S -> Inodes] : S \in SUBSET Paths}
Lists == UNION {[1 .. n -> ClientPaths] : n \in 1 .. MaxArgs}

TypeOK ==
  /\ dir \in [Paths -> Entry]
  /\ replacements \in 0 .. MaxReplacements
  /\ cachedData \in Cache
  /\ paths \in Seq(Paths) /\ Len(paths) <= MaxPaths
  /\ pc \in {"idle", "validate", "lstat", "open", "commit", "return"}
  /\ list \in Seq(Paths)
  /\ at \in 1 .. (Len(list) + 1)
  /\ link \in Inodes \cup {NoInode}
  /\ staged \in Cache
  /\ deprecated \in BOOLEAN
  /\ result \in {"none", "ok", "deprecated", "error"}
  /\ stage \in {"none", "fullCore", "fullUncore", "short"}
  /\ wasFile \in SUBSET (Paths \X Inodes)
  /\ acked \in SUBSET Paths
  /\ begun \in 0 .. Len(paths)

\* The regular files of directory d.
FilesOf(d) == {pf \in Paths \X Inodes : d[pf[1]] = [kind |-> "file", inode |-> pf[2]]}

\* The directory starts with regular files and missing ones; links and
\* directories come with the replacements.
Init ==
  /\ dir \in [Paths -> [kind : {"file"}, inode : Inodes] \cup [kind : {"none"}]]
  /\ replacements = 0
  /\ cachedData = NoData
  /\ paths = <<>>
  /\ pc = "idle" /\ list = <<>> /\ at = 1 /\ link = NoInode /\ staged = NoData
  /\ deprecated = FALSE /\ result = "none" /\ stage = "none"
  /\ wasFile = {}
  /\ acked = {}
  /\ begun = 0
-----------------------------------------------------------------------------
\* Entry of AddFiles: every local starts afresh.
Enter(args) ==
  /\ pc' = "validate"
  /\ list' = args
  /\ at' = 1
  /\ link' = NoInode
  /\ staged' = NoData
  /\ deprecated' = FALSE
  /\ result' = "none"
  /\ wasFile' = FilesOf(dir)

AddFiles ==
  /\ pc = "idle"
  /\ \E args \in Lists :
       /\ Len(paths) + Len(args) <= MaxPaths
       /\ Enter(args)
  /\ begun' = Len(paths)
  /\ UNCHANGED <<dir, replacements, readerVars, stage, acked>>

\* The three names the calls of AddDefaultFiles may add.
AddDefaultFiles ==
  /\ pc = "idle"
  /\ Len(paths) + 3 <= MaxPaths
  /\ Enter(<<FullCore>>)
  /\ stage' = "fullCore"
  /\ begun' = Len(paths)
  /\ UNCHANGED <<dir, replacements, readerVars, acked>>

\* AddFiles gives up: the staged data is lost with its locals.
Fail ==
  /\ pc' = "return"
  /\ result' = "error"
  /\ UNCHANGED <<dir, replacements, readerVars, list, at, link, staged, deprecated, stage,
                 wasFile, acked, begun>>

\* validateFile: neither missing, nor a symlink, nor a directory.
Validate ==
  /\ pc = "validate"
  /\ IF dir[list[at]].kind = "file"
     THEN /\ pc' = "lstat"
          /\ UNCHANGED <<dir, replacements, readerVars, list, at, link, staged,
                         deprecated, result, stage, wasFile, acked, begun>>
     ELSE Fail

\* The Lstat of ioHelper.open; a directory passes it.
Lstat ==
  /\ pc = "lstat"
  /\ IF dir[list[at]].kind \in {"file", "dir"}
     THEN /\ link' = IF dir[list[at]].kind = "dir" THEN NoInode ELSE dir[list[at]].inode
          /\ pc' = "open"
          /\ UNCHANGED <<dir, replacements, readerVars, list, at, staged,
                         deprecated, result, stage, wasFile, acked, begun>>
     ELSE Fail

\* The file that os.Open yields, through a symlink too.
Opened(path) ==
  IF dir[path].kind \in {"file", "symlink"} THEN dir[path].inode ELSE NoInode

\* (mutant) The data that comes with DeprecatedFormatError is lost.
StageNil(path, inode) ==
  /\ staged' = Put(staged, [p \in {path} |-> IF Format[inode] = "new" THEN inode ELSE NoInode])
  /\ deprecated' = (deprecated \/ Format[inode] = "deprecated")
  /\ at' = at + 1
  /\ pc' = IF at = Len(list) THEN "commit" ELSE "validate"
  /\ link' = NoInode
  /\ UNCHANGED <<dir, replacements, readerVars, list, result, stage, wasFile, acked, begun>>

\* What AddFiles does with a file's content once it has it.
Stage(path, inode) ==
  /\ staged' = Put(staged, [p \in {path} |-> inode])
  /\ deprecated' = (deprecated \/ Format[inode] = "deprecated")
  /\ at' = at + 1
  /\ pc' = IF at = Len(list) THEN "commit" ELSE "validate"
  /\ link' = NoInode
  /\ UNCHANGED <<dir, replacements, readerVars, list, result, stage, wasFile, acked, begun>>

\* (mutant) The opened file is not compared with the one of Lstat.
OpenAndReadAny ==
  /\ pc = "open"
  /\ LET inode == Opened(list[at])
     IN  IF inode # NoInode /\ Format[inode] # "broken"
         THEN Stage(list[at], inode)
         ELSE Fail

\* os.Open, Stat and SameFile, then ReadAll and the two attempts to parse: the
\* directory is not looked at again after os.Open.
OpenAndRead ==
  /\ pc = "open"
  /\ LET inode == Opened(list[at])
     IN  IF inode # NoInode /\ inode = link /\ Format[inode] # "broken"
         THEN Stage(list[at], inode)
         ELSE Fail

\* (mutant) An old-format file is reported before the data is added.
CommitOnlyNew ==
  /\ pc = "commit"
  /\ cachedData' = IF deprecated THEN cachedData ELSE Put(cachedData, staged)
  /\ paths' = IF deprecated THEN paths ELSE paths \o list
  /\ result' = IF deprecated THEN "deprecated" ELSE "ok"
  /\ pc' = "return"
  /\ UNCHANGED <<dir, replacements, list, at, link, staged, deprecated, stage, wasFile,
                 acked, begun>>

\* All paths were read: the staged data enters the reader in one go.
Commit ==
  /\ pc = "commit"
  /\ cachedData' = Put(cachedData, staged)
  /\ paths' = paths \o list
  /\ result' = IF deprecated THEN "deprecated" ELSE "ok"
  /\ pc' = "return"
  /\ UNCHANGED <<dir, replacements, list, at, link, staged, deprecated, stage, wasFile,
                 acked, begun>>
-----------------------------------------------------------------------------
\* AddFiles returns to its caller.
Answer ==
  /\ pc' = "idle"
  /\ list' = <<>> /\ at' = 1 /\ staged' = NoData /\ deprecated' = FALSE
  /\ stage' = "none"
  /\ wasFile' = {}
  /\ begun' = 0
  /\ UNCHANGED <<dir, replacements, readerVars, link, result>>

Return ==
  /\ pc = "return"
  /\ stage = "none"
  /\ acked' = IF result = "error" THEN acked ELSE acked \cup Range(list)
  /\ Answer

\* (mutant) The full name is tried until it works.
DefaultNextAgain ==
  /\ pc = "return"
  /\ stage = "fullCore"
  /\ IF result = "ok"
     THEN Enter(<<FullUncore>>) /\ stage' = "fullUncore"
     ELSE Enter(<<FullCore>>) /\ stage' = "fullCore"
  /\ UNCHANGED <<dir, replacements, readerVars, acked, begun>>

\* (mutant) The uncore file is always the one of the short name.
DefaultNextMixed ==
  /\ pc = "return"
  /\ stage = "fullCore"
  /\ IF result = "ok"
     THEN Enter(<<ShortUncore>>) /\ stage' = "fullUncore"
     ELSE Enter(<<ShortCore, ShortUncore>>) /\ stage' = "short"
  /\ UNCHANGED <<dir, replacements, readerVars, acked, begun>>

\* AddDefaultFiles goes on: with the full name if its core file was added and
\* reported no error, and otherwise with the short one.
DefaultNext ==
  /\ pc = "return"
  /\ stage = "fullCore"
  /\ IF result = "ok"
     THEN Enter(<<FullUncore>>) /\ stage' = "fullUncore"
     ELSE Enter(<<ShortCore, ShortUncore>>) /\ stage' = "short"
  /\ UNCHANGED <<dir, replacements, readerVars, acked, begun>>

DefaultReturn ==
  /\ pc = "return"
  /\ stage \in {"fullUncore", "short"}
  /\ acked' = IF result = "error" THEN acked
              ELSE acked \cup Range(list) \cup (IF stage = "short" THEN {} ELSE {FullCore})
  /\ Answer

\* Another process replaces a directory entry (external).
Replace ==
  /\ replacements < MaxReplacements
  /\ replacements' = replacements + 1
  /\ \E p \in Paths, e \in Entry :
       /\ e # dir[p]
       /\ dir' = [dir EXCEPT ![p] = e]
  /\ wasFile' = IF pc = "idle" THEN {} ELSE wasFile \cup FilesOf(dir')
  /\ UNCHANGED <<readerVars, callVars, acked, begun>>

Step == Validate \/ Lstat \/ OpenAndRead \/ Commit \/ Return \/ DefaultNext \/ DefaultReturn

Next == AddFiles \/ AddDefaultFiles \/ Step \/ Replace

Spec == Init /\ [][Next]_vars

\* The calls are sequential code over system calls that return.
FairSpec == Spec /\ WF_vars(Step)
-----------------------------------------------------------------------------
\* Read: fails on an empty reader, otherwise the events of every cached file.
ReadFails == paths = <<>> \/ DOMAIN cachedData = {}
Read == {<<p, cachedData[p]>> : p \in DOMAIN cachedData}

\* Safety: what String names, what Read returns and what clients were told is
\* one thing.  Every path whose AddFiles answered "added", the old format
\* included (README.md:58), can be read; nothing else can, but for the core
\* file that an AddDefaultFiles adds before it fails.
ReaderMatchesAnswers ==
  /\ Range(paths) = DOMAIN cachedData
  /\ acked \subseteq {e[1] : e \in Read}
  /\ pc = "idle" => {e[1] : e \in Read} \subseteq acked \cup {FullCore}
  /\ ReadFails <=> Read = {}

\* Action property: the reader changes only by all the paths of a call at once,
\* each with the content of a file that its path named directly, not through
\* a symlink, at some time during that call: neither a replaced file nor data
\* of an earlier call gets in.
AddsWholeAndFresh ==
  [][readerVars' # readerVars =>
       /\ DOMAIN cachedData' = DOMAIN cachedData \cup Range(list)
       /\ paths' = paths \o list
       /\ \A p \in Range(list) : <<p, cachedData'[p]>> \in wasFile
       /\ \A p \in DOMAIN cachedData \ Range(list) : cachedData'[p] = cachedData[p]]_vars

\* The paths that the client's call has added so far.
AddedByCall == {paths[i] : i \in begun + 1 .. Len(paths)}

Holds(path, format) == Format[cachedData[path]] = format

\* Action property: what an AddDefaultFiles has added is what its answer says
\* (reader.go:115).  With nil or the old-format error it is the core and the
\* uncore file of one name of the cpu, nil if both are in the new format; when
\* it failed, no more than the core file of the full name.  One mixture there
\* is: a core file of the full name in the old format counts as missing but
\* stays (reader.go:123), next to the files of the short name, and its format
\* is not reported.
DefaultsTogether ==
  [][stage # "none" /\ stage' = "none" =>
       IF result = "error" THEN AddedByCall \subseteq {FullCore}
       ELSE \E name \in {{FullCore, FullUncore}, {ShortCore, ShortUncore}} :
              /\ name \subseteq AddedByCall
              /\ \A p \in AddedByCall \ name : p = FullCore /\ Holds(p, "deprecated")
              /\ result = "ok" <=> \A p \in name : Holds(p, "new")]_vars

\* Liveness: a call returns, however often files are replaced under it.
CallsReturn == pc # "idle" ~> pc = "idle"

\* The full name's files are there, in formats the library supports.
FullNameUsable ==
  \A p \in {FullCore, FullUncore} : dir[p].kind = "file" /\ Format[dir[p].inode] # "broken"

\* What reader.go:114 and README.md say of AddDefaultFiles: it adds the core
\* and the uncore events of the cpu when both files of its name are usable.
DefaultsAdded ==
  [][stage # "none" /\ stage' = "none" /\ FullNameUsable
       => {FullCore, FullUncore} \subseteq DOMAIN cachedData]_vars
=============================================================================
