-------------------------- MODULE FilesReader_proofs --------------------------
(***************************************************************************)
(* Proofs about FilesReader for any paths, files and formats, calls of any *)
(* length and a directory that changes as often as it likes: type          *)
(* correctness, that the reader agrees with the answers it has given, that *)
(* a call adds all its files as they were, and that what AddDefaultFiles   *)
(* adds is what it answers.                                                *)
(***************************************************************************)
EXTENDS FilesReader, SequenceTheorems, TLAPS

USE ReaderAssumption

\* A call before it has read all its files.
Looking == {"validate", "lstat", "open"}
Running == Looking \cup {"commit"}

\* How far the loop of AddFiles has come, and what it has read.
Progress ==
  /\ pc \in Looking => at <= Len(list)
  /\ pc = "commit" => at = Len(list) + 1
  /\ pc \in Running => /\ Len(paths) + Len(list) <= MaxPaths
                       /\ \A p : p \in DOMAIN staged <=> \E i \in 1 .. at - 1 : list[i] = p

\* The paths that each AddFiles of AddDefaultFiles is called with.
Defaults ==
  /\ pc = "idle" => stage = "none"
  /\ stage = "fullCore" => /\ list = <<FullCore>>
                           /\ Len(paths) + (IF pc = "return" THEN 2 ELSE 3) <= MaxPaths
  /\ stage = "fullUncore" => list = <<FullUncore>> /\ FullCore \in DOMAIN cachedData
  /\ stage = "short" => list = <<ShortCore, ShortUncore>>

\* What was read was there during the call.
Fresh ==
  /\ pc # "idle" => FilesOf(dir) \subseteq wasFile
  /\ pc = "open" /\ link # NoInode => <<list[at], link>> \in wasFile
  /\ pc \in Running => \A p \in DOMAIN staged : <<p, staged[p]>> \in wasFile

\* The reader's two lists and the answers agree.
Added ==
  /\ Range(paths) = DOMAIN cachedData
  /\ acked \subseteq DOMAIN cachedData
  /\ pc = "return" /\ result # "error" => Range(list) \subseteq DOMAIN cachedData
  /\ \A p \in DOMAIN cachedData :
       \/ p \in acked \/ p = FullCore
       \/ pc = "return" /\ result # "error" /\ p \in Range(list)

\* The inductive invariant.
ReaderInv == TypeOK /\ Progress /\ Defaults /\ Fresh /\ Added

-----------------------------------------------------------------------------
LEMMA NoDataType == NoData \in Cache /\ DOMAIN NoData = {}
<1>1. NoData \in [{} -> Inodes]
  BY DEF NoData
<1>2. {} \in SUBSET Paths
  OBVIOUS
<1> QED
  BY <1>1, <1>2 DEF NoData, Cache

LEMMA CacheFacts ==
  ASSUME NEW m \in Cache
  PROVE  DOMAIN m \subseteq Paths /\ \A p \in DOMAIN m : m[p] \in Inodes
BY DEF Cache

LEMMA PutFacts ==
  ASSUME NEW m, NEW n
  PROVE  /\ DOMAIN Put(m, n) = DOMAIN m \cup DOMAIN n
         /\ \A p \in DOMAIN n : Put(m, n)[p] = n[p]
         /\ \A p \in DOMAIN m \ DOMAIN n : Put(m, n)[p] = m[p]
BY DEF Put

LEMMA PutType ==
  ASSUME NEW m \in Cache, NEW n, DOMAIN n \subseteq Paths, \A p \in DOMAIN n : n[p] \in Inodes
  PROVE  Put(m, n) \in Cache
<1> DEFINE S == DOMAIN m \cup DOMAIN n
<1>1. DOMAIN m \subseteq Paths /\ \A p \in DOMAIN m : m[p] \in Inodes
  BY CacheFacts
<1>2. Put(m, n) \in [S -> Inodes]
  BY <1>1 DEF Put
<1>3. S \in SUBSET Paths
  BY <1>1
<1> QED
  BY <1>2, <1>3 DEF Cache

\* The paths of a call of AddFiles.
LEMMA ListType ==
  ASSUME NEW args \in Lists
  PROVE  args \in Seq(Paths) /\ Len(args) \in Nat /\ Len(args) >= 1 /\ DOMAIN args = 1 .. Len(args)
<1>1. PICK n \in 1 .. MaxArgs : args \in [1 .. n -> ClientPaths]
  BY DEF Lists
<1>2. args \in Seq(ClientPaths) /\ Len(args) = n
  BY <1>1
<1> QED
  BY <1>1, <1>2 DEF Paths

\* What TypeOK says of the call's list and position.
LEMMA CurrentPath ==
  ASSUME TypeOK, Progress
  PROVE  /\ Len(list) \in Nat /\ at \in Nat /\ Len(paths) \in Nat /\ MaxPaths \in Nat
         /\ DOMAIN list = 1 .. Len(list)
         /\ \A i \in 1 .. Len(list) : list[i] \in Paths
         /\ pc \in Looking => at \in 1 .. Len(list) /\ list[at] \in Paths
<1>1. Len(list) \in Nat /\ at \in Nat /\ Len(paths) \in Nat /\ DOMAIN list = 1 .. Len(list)
  BY LenProperties DEF TypeOK
<1>2. \A i \in 1 .. Len(list) : list[i] \in Paths
  BY ElementOfSeq DEF TypeOK
<1>3. pc \in Looking => at \in 1 .. Len(list)
  BY <1>1 DEF TypeOK, Progress
<1> QED
  BY <1>1, <1>2, <1>3

LEMMA ReaderInit == Init => ReaderInv
<1> SUFFICES ASSUME Init PROVE ReaderInv
  OBVIOUS
<1>1. TypeOK
  <2>1. dir \in [Paths -> Entry]
    BY DEF Init, Entry
  <2>2. paths \in Seq(Paths) /\ Len(paths) = 0 /\ list \in Seq(Paths) /\ Len(list) = 0
    BY EmptySeq DEF Init
  <2>3. /\ at \in 1 .. (Len(list) + 1) /\ Len(paths) <= MaxPaths /\ begun \in 0 .. Len(paths)
        /\ replacements \in 0 .. MaxReplacements
    BY <2>2 DEF Init
  <2> QED
    BY <2>1, <2>2, <2>3, NoDataType DEF Init, TypeOK
<1>2. Range(paths) = {}
  <2>1. paths \in Seq(Paths) /\ Len(paths) = 0
    BY EmptySeq DEF Init
  <2>2. Range(paths) = {paths[i] : i \in 1 .. 0}
    BY <2>1, RangeEquality
  <2> QED
    BY <2>2
<1> QED
  BY <1>1, <1>2, NoDataType
  DEF Init, ReaderInv, Progress, Defaults, Fresh, Added, Looking, Running
-----------------------------------------------------------------------------
\* A call of AddFiles begins.
LEMMA EnterStep ==
  ASSUME ReaderInv, NEW args \in Seq(Paths), Len(args) \in Nat, Len(args) >= 1, Enter(args),
         Len(paths) + Len(args) <= MaxPaths, UNCHANGED <<dir, replacements, readerVars, acked>>,
         begun' \in {begun, Len(paths)},
         stage' \in {"none", "fullCore", "fullUncore", "short"},
         stage' = "fullCore" => args = <<FullCore>> /\ Len(paths) + 3 <= MaxPaths,
         stage' = "fullUncore" => args = <<FullUncore>> /\ FullCore \in DOMAIN cachedData,
         stage' = "short" => args = <<ShortCore, ShortUncore>>,
         \A p \in DOMAIN cachedData : p \in acked \/ p = FullCore
  PROVE  ReaderInv'
<1> USE DEF ReaderInv
<1>1. TypeOK'
  <2>1. FilesOf(dir) \in SUBSET (Paths \X Inodes)
    BY DEF FilesOf
  <2>2. list' \in Seq(Paths) /\ at' \in 1 .. (Len(list') + 1)
    BY DEF Enter
  <2>3. begun' \in 0 .. Len(paths')
    BY CurrentPath DEF TypeOK, readerVars
  <2> QED
    BY <2>1, <2>2, <2>3, NoDataType DEF TypeOK, Enter, readerVars
<1>2. Progress'
  BY NoDataType DEF Progress, Enter, readerVars, Looking, Running
<1>3. Defaults'
  BY DEF Defaults, Enter, readerVars
<1>4. Fresh'
  BY NoDataType DEF Fresh, Enter, FilesOf, Looking, Running
<1>5. Added'
  BY DEF Added, Enter, readerVars
<1> QED
  BY <1>1, <1>2, <1>3, <1>4, <1>5

\* A call in progress gives up.
LEMMA FailStep ==
  ASSUME ReaderInv, pc # "idle", pc # "return", Fail
  PROVE  ReaderInv'
<1> USE DEF ReaderInv, Fail, readerVars
<1>1. TypeOK'
  BY DEF TypeOK
<1>2. Progress' /\ Fresh'
  BY DEF Progress, Fresh, Looking, Running, FilesOf
<1>3. Defaults'
  BY CurrentPath DEF Defaults
<1>4. Added'
  BY DEF Added
<1> QED
  BY <1>1, <1>2, <1>3, <1>4

LEMMA ValidateStep == ASSUME ReaderInv, Validate PROVE ReaderInv'
<1> USE DEF ReaderInv
<1>1. CASE Fail
  BY <1>1, FailStep DEF Validate
<1>2. CASE ~Fail
  <2>1. /\ pc = "validate" /\ pc' = "lstat"
        /\ UNCHANGED <<dir, replacements, readerVars, list, at, link, staged,
                       deprecated, result, stage, wasFile, acked, begun>>
    BY <1>2 DEF Validate
  <2> QED
    BY <2>1 DEF TypeOK, Progress, Defaults, Fresh, Added, Looking, Running, FilesOf, readerVars
<1> QED
  BY <1>1, <1>2

LEMMA LstatStep == ASSUME ReaderInv, Lstat PROVE ReaderInv'
<1> USE DEF ReaderInv
<1>1. CASE Fail
  BY <1>1, FailStep DEF Lstat
<1>2. CASE ~Fail
  <2>1. /\ pc = "lstat" /\ pc' = "open" /\ dir[list[at]].kind \in {"file", "dir"}
        /\ link' = IF dir[list[at]].kind = "dir" THEN NoInode ELSE dir[list[at]].inode
        /\ UNCHANGED <<dir, replacements, readerVars, list, at, staged,
                       deprecated, result, stage, wasFile, acked, begun>>
    BY <1>2 DEF Lstat
  <2>2. list[at] \in Paths /\ dir[list[at]] \in Entry
    BY <2>1, CurrentPath DEF TypeOK, Looking
  <2>3. \/ link' = NoInode
        \/ link' \in Inodes /\ dir[list[at]] = [kind |-> "file", inode |-> link']
    BY <2>1, <2>2 DEF Entry
  <2>4. link' # NoInode => <<list[at], link'>> \in wasFile
    BY <2>1, <2>2, <2>3 DEF Fresh, FilesOf
  <2>5. TypeOK'
    BY <2>1, <2>3 DEF TypeOK, readerVars
  <2> QED
    BY <2>1, <2>4, <2>5 DEF Progress, Defaults, Fresh, Added, Looking, Running, FilesOf, readerVars
<1> QED
  BY <1>1, <1>2

LEMMA OpenAndReadStep == ASSUME ReaderInv, OpenAndRead PROVE ReaderInv'
<1> USE DEF ReaderInv
<1>1. CASE Fail
  BY <1>1, FailStep DEF OpenAndRead
<1>2. CASE ~Fail
  <2>1. /\ pc = "open" /\ link # NoInode /\ Stage(list[at], link)
    BY <1>2 DEF OpenAndRead
  <2>2. link \in Inodes /\ at \in 1 .. Len(list) /\ list[at] \in Paths /\ Len(list) \in Nat
    BY <2>1, CurrentPath DEF TypeOK, Looking
  <2> DEFINE more == [p \in {list[at]} |-> link]
  <2>3. /\ UNCHANGED <<dir, replacements, cachedData, paths, list, result, stage, wasFile, acked, begun>>
        /\ staged' = Put(staged, more) /\ at' = at + 1 /\ link' = NoInode
        /\ pc' = IF at = Len(list) THEN "commit" ELSE "validate"
        /\ deprecated' \in BOOLEAN
    BY <2>1 DEF Stage, readerVars, TypeOK
  <2>4. DOMAIN more = {list[at]} /\ more[list[at]] = link
    OBVIOUS
  <2> HIDE DEF more
  <2>5. /\ DOMAIN staged' = DOMAIN staged \cup {list[at]}
        /\ staged'[list[at]] = link
        /\ \A p \in DOMAIN staged \ {list[at]} : staged'[p] = staged[p]
    <3>1. /\ DOMAIN Put(staged, more) = DOMAIN staged \cup DOMAIN more
          /\ \A p \in DOMAIN more : Put(staged, more)[p] = more[p]
          /\ \A p \in DOMAIN staged \ DOMAIN more : Put(staged, more)[p] = staged[p]
      BY PutFacts
    <3> QED
      BY <2>3, <2>4, <3>1
  <2>6. TypeOK'
    <3>1. staged' \in Cache
      BY <2>2, <2>3, <2>4, PutType DEF TypeOK
    <3> QED
      BY <2>2, <2>3, <3>1 DEF TypeOK
  <2>7. Progress'
    <3>1. \A p : p \in DOMAIN staged' <=> \E i \in 1 .. at : list[i] = p
      BY <2>1, <2>2, <2>5 DEF Progress, Looking, Running
    <3>2. at' - 1 = at
      BY <2>2, <2>3
    <3> QED
      BY <2>1, <2>2, <2>3, <3>1, <3>2 DEF Progress, Looking, Running
  <2>8. Fresh'
    <3>1. <<list[at], link>> \in wasFile
      BY <2>1 DEF Fresh
    <3> QED
      BY <2>1, <2>3, <2>5, <3>1 DEF Fresh, Looking, Running, FilesOf
  <2>9. Defaults' /\ Added'
    BY <2>1, <2>3 DEF Defaults, Added
  <2> QED
    BY <2>6, <2>7, <2>8, <2>9
<1> QED
  BY <1>1, <1>2

\* What a call has read enters the reader at once.
LEMMA Committed ==
  ASSUME ReaderInv, Commit
  PROVE  /\ Range(list) = DOMAIN staged
         /\ DOMAIN cachedData' = DOMAIN cachedData \cup Range(list)
         /\ \A p \in Range(list) : cachedData'[p] = staged[p]
         /\ \A p \in DOMAIN cachedData \ Range(list) : cachedData'[p] = cachedData[p]
         /\ paths' = paths \o list
<1>1. /\ pc = "commit" /\ at - 1 = Len(list) /\ DOMAIN list = 1 .. Len(list)
  BY CurrentPath DEF ReaderInv, Progress, Commit
<1>2. \A p : p \in DOMAIN staged <=> \E i \in 1 .. Len(list) : list[i] = p
  BY <1>1 DEF ReaderInv, Progress, Running
<1>3. Range(list) = {list[i] : i \in 1 .. Len(list)}
  BY <1>1 DEF Range
<1>4. Range(list) = DOMAIN staged
  BY <1>2, <1>3
<1>5. cachedData' = Put(cachedData, staged) /\ paths' = paths \o list
  BY DEF Commit
<1>6. /\ DOMAIN Put(cachedData, staged) = DOMAIN cachedData \cup DOMAIN staged
      /\ \A p \in DOMAIN staged : Put(cachedData, staged)[p] = staged[p]
      /\ \A p \in DOMAIN cachedData \ DOMAIN staged : Put(cachedData, staged)[p] = cachedData[p]
  BY PutFacts
<1> QED
  BY <1>4, <1>5, <1>6

LEMMA CommitStep == ASSUME ReaderInv, Commit PROVE ReaderInv'
<1> USE DEF ReaderInv
<1>1. /\ pc = "commit" /\ pc' = "return" /\ result' \in {"ok", "deprecated"}
      /\ UNCHANGED <<dir, replacements, list, at, link, staged, deprecated, stage, wasFile, acked, begun>>
  BY DEF Commit
<1>2. /\ DOMAIN cachedData' = DOMAIN cachedData \cup Range(list)
      /\ paths' = paths \o list
  BY Committed
<1>3. /\ paths \in Seq(Paths) /\ list \in Seq(Paths)
      /\ Len(paths) + Len(list) <= MaxPaths
  BY <1>1 DEF TypeOK, Progress, Running
<1>4. /\ paths' \in Seq(Paths) /\ Len(paths') = Len(paths) + Len(list)
      /\ Range(paths') = Range(paths) \cup Range(list)
  BY <1>2, <1>3, ConcatProperties, RangeConcatenation
<1>5. TypeOK'
  <2>1. cachedData' \in Cache
    BY CacheFacts, PutType DEF TypeOK, Commit
  <2> QED
    BY <1>1, <1>3, <1>4, <2>1 DEF TypeOK
<1>6. Progress' /\ Fresh'
  BY <1>1 DEF Progress, Fresh, Looking, Running, FilesOf
<1>7. Defaults'
  <2>1. Len(list) \in Nat /\ Len(paths) \in Nat /\ MaxPaths \in Nat
    BY CurrentPath
  <2>2. stage = "fullCore" => Len(list) = 1
    BY DEF Defaults
  <2>3. stage = "fullCore" => Len(paths) + 3 <= MaxPaths
    BY <1>1 DEF Defaults
  <2> QED
    BY <1>1, <1>2, <1>4, <2>1, <2>2, <2>3 DEF Defaults
<1>8. Added'
  BY <1>1, <1>2, <1>4 DEF Added
<1> QED
  BY <1>5, <1>6, <1>7, <1>8

\* The call is over; what it answers is in acked.
LEMMA AnswerStep ==
  ASSUME ReaderInv, pc = "return", Answer,
         \/ acked' = acked /\ result = "error"
         \/ acked' = acked \cup Range(list) /\ result # "error"
         \/ /\ acked' = acked \cup Range(list) \cup {FullCore} /\ result # "error"
            /\ FullCore \in DOMAIN cachedData
  PROVE  ReaderInv'
<1> USE DEF ReaderInv
<1>1. /\ list' = <<>> /\ Len(list') = 0 /\ list' \in Seq(Paths)
  BY EmptySeq DEF Answer
<1>2. UNCHANGED <<dir, replacements, cachedData, paths, link, result>>
  BY DEF Answer, readerVars
<1>3. acked' \subseteq DOMAIN cachedData
  BY DEF Added
<1>4. DOMAIN cachedData \subseteq Paths
  BY CacheFacts DEF TypeOK
<1>5. TypeOK'
  <2>1. at' \in 1 .. (Len(list') + 1) /\ acked' \in SUBSET Paths
    BY <1>1, <1>3, <1>4 DEF Answer
  <2>2. UNCHANGED <<dir, replacements, cachedData, paths, link, result>> /\ pc' = "idle"
        /\ staged' = NoData /\ deprecated' = FALSE /\ stage' = "none" /\ wasFile' = {}
    BY <1>2 DEF Answer
  <2>3. begun' \in 0 .. Len(paths')
    BY <1>2, CurrentPath DEF Answer
  <2> QED
    BY <1>1, <2>1, <2>2, <2>3, NoDataType DEF TypeOK
<1>6. Progress' /\ Defaults' /\ Fresh'
  BY DEF Answer, Progress, Defaults, Fresh, Looking, Running
<1>7. Added'
  BY <1>2, <1>3 DEF Added, Answer
<1> QED
  BY <1>5, <1>6, <1>7

\* Somebody replaces a file.
LEMMA ReplaceStep == ASSUME ReaderInv, Replace PROVE ReaderInv'
<1> USE DEF ReaderInv
<1>1. PICK p \in Paths, e \in Entry : dir' = [dir EXCEPT ![p] = e]
  BY DEF Replace
<1>2. FilesOf(dir') \subseteq Paths \X Inodes
  BY DEF FilesOf
<1>3. /\ UNCHANGED <<readerVars, callVars, acked, begun>>
      /\ wasFile' = IF pc = "idle" THEN {} ELSE wasFile \cup FilesOf(dir')
      /\ replacements' \in 0 .. MaxReplacements
  BY DEF Replace, TypeOK
<1>4. dir' \in [Paths -> Entry]
  BY <1>1 DEF TypeOK
<1>5. TypeOK'
  BY <1>2, <1>3, <1>4 DEF TypeOK, readerVars, callVars
<1>6. Progress' /\ Defaults' /\ Added'
  BY <1>3 DEF Progress, Defaults, Added, readerVars, callVars
<1>7. Fresh'
  BY <1>3 DEF Fresh, readerVars, callVars, Looking, Running
<1> QED
  BY <1>5, <1>6, <1>7

LEMMA ReaderStep == ASSUME ReaderInv, Next PROVE ReaderInv'
<1> USE DEF ReaderInv
<1>a. \A p \in DOMAIN cachedData :
        pc = "idle" \/ stage = "fullCore" => p \in acked \/ p = FullCore
  <2>1. stage = "fullCore" => Range(list) = {FullCore}
    BY DEF Defaults, Range
  <2> QED
    BY <2>1 DEF Added, Defaults
<1>b. /\ FullCore \in Paths /\ FullUncore \in Paths /\ ShortCore \in Paths /\ ShortUncore \in Paths
      /\ Len(paths) \in Nat /\ MaxPaths \in Nat
  BY CurrentPath DEF Paths
<1>1. CASE AddFiles
  <2>1. PICK args \in Lists : Len(paths) + Len(args) <= MaxPaths /\ Enter(args)
    BY <1>1 DEF AddFiles
  <2>2. stage' = "none"
    BY <1>1 DEF AddFiles, TypeOK, Defaults
  <2> QED
    BY <1>1, <1>a, <2>1, <2>2, ListType, EnterStep DEF AddFiles
<1>2. CASE AddDefaultFiles
  <2>1a. <<FullCore>> \in Seq(Paths) /\ Len(<<FullCore>>) = 1
    BY <1>b
  <2>1. PICK args \in Seq(Paths) : args = <<FullCore>> /\ Len(args) = 1
    BY <2>1a
  <2>2. /\ pc = "idle" /\ Len(paths) + 3 <= MaxPaths /\ Enter(args) /\ stage' = "fullCore"
        /\ UNCHANGED <<dir, replacements, readerVars, acked>> /\ begun' = Len(paths)
    BY <1>2, <2>1 DEF AddDefaultFiles
  <2>3. Len(paths) + Len(args) <= MaxPaths
    BY <1>b, <2>1, <2>2
  <2> QED
    <3>1. \A p \in DOMAIN cachedData : p \in acked \/ p = FullCore
      BY <1>a, <2>2
    <3>2. Len(args) \in Nat /\ Len(args) >= 1
      BY <2>1
    <3>3. stage' = "fullCore" => args = <<FullCore>> /\ Len(paths) + 3 <= MaxPaths
      BY <2>1, <2>2
    <3>4. stage' # "fullUncore" /\ stage' # "short"
      BY <2>2
    <3>5. ReaderInv
      OBVIOUS
    <3> HIDE DEF ReaderInv
    <3> QED
      BY <2>2, <2>3, <3>1, <3>2, <3>3, <3>4, <3>5, EnterStep
<1>3. CASE DefaultNext
  <2>1. /\ pc = "return" /\ stage = "fullCore" /\ Len(paths) + 2 <= MaxPaths
        /\ UNCHANGED <<dir, replacements, readerVars, acked, begun>>
    BY <1>3 DEF DefaultNext, Defaults
  <2>2. CASE result = "ok"
    <3>1. FullCore \in DOMAIN cachedData
      BY <2>1, <2>2 DEF Added, Defaults, Range
    <3>2a. <<FullUncore>> \in Seq(Paths) /\ Len(<<FullUncore>>) = 1
      BY <1>b
    <3>2. PICK args \in Seq(Paths) : args = <<FullUncore>> /\ Len(args) = 1
      BY <3>2a
    <3>3. Enter(args) /\ stage' = "fullUncore" /\ Len(paths) + Len(args) <= MaxPaths
      BY <1>3, <1>b, <2>1, <2>2, <3>2 DEF DefaultNext
    <3>4. \A p \in DOMAIN cachedData : p \in acked \/ p = FullCore
      BY <1>a, <2>1
    <3>5. Len(args) \in Nat /\ Len(args) >= 1
      BY <3>2
    <3>6. ReaderInv
      OBVIOUS
    <3> HIDE DEF ReaderInv
    <3> QED
      BY <2>1, <3>1, <3>2, <3>3, <3>4, <3>5, <3>6, EnterStep
  <2>3. CASE result # "ok"
    <3>1a. <<ShortCore, ShortUncore>> \in Seq(Paths) /\ Len(<<ShortCore, ShortUncore>>) = 2
      BY <1>b
    <3>1. PICK args \in Seq(Paths) : args = <<ShortCore, ShortUncore>> /\ Len(args) = 2
      BY <3>1a
    <3>2. Enter(args) /\ stage' = "short" /\ Len(paths) + Len(args) <= MaxPaths
      BY <1>3, <1>b, <2>1, <2>3, <3>1 DEF DefaultNext
    <3>3. \A p \in DOMAIN cachedData : p \in acked \/ p = FullCore
      BY <1>a, <2>1
    <3>4. Len(args) \in Nat /\ Len(args) >= 1
      BY <3>1
    <3>5. ReaderInv
      OBVIOUS
    <3> HIDE DEF ReaderInv
    <3> QED
      BY <2>1, <3>1, <3>2, <3>3, <3>4, <3>5, EnterStep
  <2> QED
    BY <2>2, <2>3
<1>4. CASE Return
  BY <1>4, AnswerStep DEF Return
<1>5. CASE DefaultReturn
  BY <1>5, AnswerStep DEF DefaultReturn, Defaults
<1> QED
  BY <1>1, <1>2, <1>3, <1>4, <1>5, ValidateStep, LstatStep, OpenAndReadStep, CommitStep, ReplaceStep
  DEF Next, Step

LEMMA ReaderQuiet == ReaderInv /\ UNCHANGED vars => ReaderInv'
BY DEF vars, readerVars, callVars, ReaderInv, TypeOK, Progress, Defaults, Fresh, Added, Looking,
       Running, FilesOf

\* The inductive invariant holds in every reachable state.
THEOREM ReaderInvariance == Spec => []ReaderInv
BY ReaderInit, ReaderStep, ReaderQuiet, PTL DEF Spec

\* Every variable of the reader, of a call in progress and of the directory
\* keeps its type (reader.go, iohelpers.go).
THEOREM TypeCorrect == Spec => []TypeOK
<1>1. ReaderInv => TypeOK
  BY DEF ReaderInv
<1> QED
  BY <1>1, ReaderInvariance, PTL

\* What the reader names, what it returns and what its clients were told is one
\* thing, whatever fails and however files change (reader.go, AddFiles, Read).
THEOREM AnswersMatch == Spec => []ReaderMatchesAnswers
<1>1. ReaderInv => ReaderMatchesAnswers
  <2> SUFFICES ASSUME ReaderInv PROVE ReaderMatchesAnswers
    OBVIOUS
  <2>1. \A p : p \in {e[1] : e \in Read} <=> p \in DOMAIN cachedData
    <3>1. \A p \in DOMAIN cachedData : <<p, cachedData[p]>> \in Read /\ <<p, cachedData[p]>>[1] = p
      BY DEF Read
    <3>2. \A e \in Read : e[1] \in DOMAIN cachedData
      BY DEF Read
    <3> QED
      BY <3>1, <3>2
  <2>a. {e[1] : e \in Read} = DOMAIN cachedData /\ (Read = {} <=> DOMAIN cachedData = {})
    BY <2>1 DEF Read
  <2>2. paths = <<>> => DOMAIN cachedData = {}
    <3>1. Range(paths) = {paths[i] : i \in 1 .. Len(paths)}
      BY RangeEquality DEF ReaderInv, TypeOK
    <3> QED
      BY <3>1 DEF ReaderInv, Added
  <2> QED
    BY <2>a, <2>2 DEF ReaderMatchesAnswers, ReadFails, ReaderInv, Added
<1> QED
  BY <1>1, ReaderInvariance, PTL

\* A call adds all its files at once, each with a content that its name had
\* while the call ran, or none (reader.go:193, iohelpers.go:38).
THEOREM AddsAreWholeAndFresh == Spec => AddsWholeAndFresh
<1> DEFINE Whole ==
      readerVars' # readerVars =>
        /\ DOMAIN cachedData' = DOMAIN cachedData \cup Range(list)
        /\ paths' = paths \o list
        /\ \A p \in Range(list) : <<p, cachedData'[p]>> \in wasFile
        /\ \A p \in DOMAIN cachedData \ Range(list) : cachedData'[p] = cachedData[p]
<1>1. ReaderInv /\ [Next]_vars => [Whole]_vars
  <2> SUFFICES ASSUME ReaderInv, Next PROVE Whole
    BY DEF vars
  <2>1. CASE Commit
    <3>1. \A p \in DOMAIN staged : <<p, staged[p]>> \in wasFile
      BY <2>1 DEF Commit, ReaderInv, Fresh, Running
    <3> QED
      BY <2>1, <3>1, Committed
  <2>2. CASE ~Commit
    BY <2>2 DEF Next, Step, AddFiles, AddDefaultFiles, Validate, Lstat, OpenAndRead, Stage, Fail,
                Return, DefaultNext, DefaultReturn, Answer, Replace, readerVars
  <2> QED
    BY <2>1, <2>2
<1> QED
  BY <1>1, ReaderInvariance, PTL DEF Spec, AddsWholeAndFresh

-----------------------------------------------------------------------------
\* The AddFiles in progress has added its paths.
Entered == pc = "return" /\ result # "error"

\* What AddDefaultFiles has added so far, and in which formats.
Gathered ==
  /\ stage = "fullCore" => AddedByCall = (IF Entered THEN {FullCore} ELSE {})
  /\ stage = "fullUncore" =>
       /\ AddedByCall = {FullCore} \cup (IF Entered THEN {FullUncore} ELSE {})
       /\ Holds(FullCore, "new")
  /\ stage = "short" =>
       \E core \in {{}, {FullCore}} :
         /\ AddedByCall = core \cup (IF Entered THEN {ShortCore, ShortUncore} ELSE {})
         /\ \A p \in core : p \in DOMAIN cachedData
                            /\ (Holds(p, "deprecated") \/ (Entered /\ p = ShortCore))
  /\ stage # "none" /\ pc \in Running =>
       /\ \A p \in DOMAIN staged : Format[staged[p]] \in {"new", "deprecated"}
       /\ deprecated <=> \E p \in DOMAIN staged : Format[staged[p]] = "deprecated"
  /\ stage # "none" /\ Entered =>
       /\ \A p \in Range(list) : Format[cachedData[p]] \in {"new", "deprecated"}
       /\ result = "ok" <=> \A p \in Range(list) : Holds(p, "new")

\* The paths of AddDefaultFiles differ within a call of AddFiles.
LEMMA DefaultLists ==
  ASSUME ReaderInv, stage # "none"
  PROVE  /\ \A i, j \in 1 .. Len(list) : list[i] = list[j] => i = j
         /\ stage = "fullCore" => Range(list) = {FullCore}
         /\ stage = "fullUncore" => Range(list) = {FullUncore}
         /\ stage = "short" => Range(list) = {ShortCore, ShortUncore}
<1>1. stage \in {"fullCore", "fullUncore", "short"}
  BY DEF ReaderInv, TypeOK
<1>2. \A p : LET l == <<p>> IN Len(l) = 1 /\ l[1] = p /\ Range(l) = {p}
  BY DEF Range
<1>3. \A p, q : LET l == <<p, q>> IN Len(l) = 2 /\ l[1] = p /\ l[2] = q /\ Range(l) = {p, q}
  <2> TAKE p, q
  <2> DEFINE l == <<p, q>>
  <2>1. DOMAIN l = {1, 2} /\ Len(l) = 2 /\ l[1] = p /\ l[2] = q
    OBVIOUS
  <2> HIDE DEF l
  <2>2. Range(l) = {p, q}
    BY <2>1 DEF Range
  <2> QED
    BY <2>1, <2>2 DEF l
<1>4. CASE stage = "fullCore" \/ stage = "fullUncore"
  <2>1. PICK p \in {FullCore, FullUncore} : list = <<p>> /\ (stage = "fullCore" <=> p = FullCore)
    BY <1>4 DEF ReaderInv, Defaults
  <2>2. Len(list) = 1 /\ Range(list) = {p}
    BY <1>2, <2>1
  <2>3. \A i, j \in 1 .. Len(list) : i = j
    BY <2>2
  <2> QED
    BY <1>4, <2>1, <2>2, <2>3
<1>5. CASE stage = "short"
  <2>1. list = <<ShortCore, ShortUncore>>
    BY <1>5 DEF ReaderInv, Defaults
  <2>2. Len(list) = 2 /\ list[1] = ShortCore /\ list[2] = ShortUncore /\ Range(list) = {ShortCore, ShortUncore}
    BY <1>3, <2>1
  <2>3. ShortCore # ShortUncore
    OBVIOUS
  <2>4. \A i \in 1 .. Len(list) : i = 1 \/ i = 2
    BY <2>2
  <2> QED
    BY <1>5, <2>2, <2>3, <2>4
<1> QED
  BY <1>1, <1>4, <1>5

\* Nothing but a commit and the beginning of a client's call changes what it has added.
LEMMA AddedKept ==
  ASSUME UNCHANGED <<paths, begun>>
  PROVE  AddedByCall' = AddedByCall
BY DEF AddedByCall

LEMMA GatheredInit == Init => Gathered
BY DEF Init, Gathered, Entered

\* The steps that read, fail or are not the reader's.
LEMMA GatheredQuiet ==
  ASSUME ReaderInv, Gathered, UNCHANGED <<cachedData, paths, begun, list, stage, staged, deprecated>>,
         \/ pc' = pc /\ result' = result
         \/ pc \in Looking /\ pc' \in Looking
         \/ pc \in Looking /\ pc' = "return" /\ result' = "error"
  PROVE  Gathered'
<1>1. AddedByCall' = AddedByCall
  BY AddedKept
<1>2. Range(list') = Range(list)
  OBVIOUS
<1>3. Entered' <=> Entered
  BY DEF Entered, Looking
<1>4. pc' \in Running => pc \in Running
  BY DEF Running, Looking
<1>5. Entered' => result' = result
  BY DEF Entered, Looking
<1> QED
  BY <1>1, <1>2, <1>3, <1>4, <1>5 DEF Gathered, Holds

\* A file has been read.
LEMMA GatheredStage ==
  ASSUME ReaderInv, Gathered, OpenAndRead, ~Fail
  PROVE  Gathered'
<1>1. /\ pc = "open" /\ link # NoInode /\ Format[link] # "broken" /\ Stage(list[at], link)
  BY DEF OpenAndRead
<1>2. /\ link \in Inodes /\ at \in 1 .. Len(list) /\ Len(list) \in Nat
  BY <1>1, CurrentPath DEF ReaderInv, TypeOK, Looking
<1>3. Format[link] \in {"new", "deprecated"}
  BY <1>1, <1>2
<1>4. /\ UNCHANGED <<cachedData, paths, begun, list, stage, result>>
      /\ staged' = Put(staged, [p \in {list[at]} |-> link])
      /\ deprecated' = (deprecated \/ Format[link] = "deprecated")
      /\ pc' \in {"commit", "validate"}
  BY <1>1 DEF Stage, readerVars
<1>5. /\ DOMAIN staged' = DOMAIN staged \cup {list[at]}
      /\ staged'[list[at]] = link
      /\ \A p \in DOMAIN staged \ {list[at]} : staged'[p] = staged[p]
  BY <1>4, PutFacts
<1>6. stage # "none" => list[at] \notin DOMAIN staged
  <2> SUFFICES ASSUME stage # "none", list[at] \in DOMAIN staged PROVE FALSE
    OBVIOUS
  <2>1. PICK i \in 1 .. at - 1 : list[i] = list[at]
    BY <1>1 DEF ReaderInv, Progress, Running, Looking
  <2> QED
    BY <1>2, <2>1, DefaultLists
<1>7. ~Entered /\ ~Entered' /\ pc \in Running
  BY <1>1, <1>4 DEF Entered, Running, Looking
<1>8. AddedByCall' = AddedByCall
  BY <1>4, AddedKept
<1>9. stage # "none" =>
        /\ \A p \in DOMAIN staged' : Format[staged'[p]] \in {"new", "deprecated"}
        /\ deprecated' <=> \E p \in DOMAIN staged' : Format[staged'[p]] = "deprecated"
  BY <1>3, <1>4, <1>5, <1>6, <1>7 DEF Gathered
<1> QED
  BY <1>4, <1>7, <1>8, <1>9 DEF Gathered, Holds

\* The staged files enter the reader.
LEMMA GatheredCommit ==
  ASSUME ReaderInv, Gathered, Commit
  PROVE  Gathered'
<1>1. /\ pc = "commit" /\ pc' = "return" /\ result' = (IF deprecated THEN "deprecated" ELSE "ok")
      /\ UNCHANGED <<list, stage, begun, deprecated>>
  BY DEF Commit
<1>2. ~Entered /\ Entered' /\ pc \in Running
  BY <1>1 DEF Entered, Running
<1>3. /\ Range(list) = DOMAIN staged
      /\ \A p \in Range(list) : cachedData'[p] = staged[p]
      /\ \A p \in DOMAIN cachedData \ Range(list) : cachedData'[p] = cachedData[p]
      /\ DOMAIN cachedData' = DOMAIN cachedData \cup Range(list)
      /\ paths' = paths \o list
  BY Committed
<1>4. AddedByCall' = AddedByCall \cup Range(list)
  <2>1. /\ paths \in Seq(Paths) /\ list \in Seq(Paths) /\ Len(paths) \in Nat /\ Len(list) \in Nat
        /\ begun \in 0 .. Len(paths) /\ DOMAIN list = 1 .. Len(list)
    BY CurrentPath DEF ReaderInv, TypeOK
  <2>2. /\ Len(paths') = Len(paths) + Len(list)
        /\ \A i \in 1 .. Len(paths) : paths'[i] = paths[i]
        /\ \A i \in 1 .. Len(list) : paths'[Len(paths) + i] = list[i]
    BY <1>3, <2>1, ConcatProperties
  <2>3. \A i \in begun + 1 .. Len(paths') :
          \/ i \in begun + 1 .. Len(paths)
          \/ i - Len(paths) \in 1 .. Len(list) /\ i = Len(paths) + (i - Len(paths))
    BY <2>1, <2>2
  <2>4. \A i \in 1 .. Len(list) : Len(paths) + i \in begun + 1 .. Len(paths')
    BY <2>1, <2>2
  <2>5. \A i \in begun + 1 .. Len(paths) : i \in begun + 1 .. Len(paths') /\ i \in 1 .. Len(paths)
    BY <2>1, <2>2
  <2>6. Range(list) = {list[i] : i \in 1 .. Len(list)}
    BY <2>1 DEF Range
  <2>7. AddedByCall' = {paths'[i] : i \in begun + 1 .. Len(paths')}
    BY <1>1 DEF AddedByCall
  <2>8. ASSUME NEW i \in begun + 1 .. Len(paths') PROVE paths'[i] \in AddedByCall \cup Range(list)
    <3>1. CASE i \in begun + 1 .. Len(paths)
      BY <2>2, <2>5, <3>1 DEF AddedByCall
    <3>2. CASE i - Len(paths) \in 1 .. Len(list) /\ i = Len(paths) + (i - Len(paths))
      BY <2>2, <2>6, <3>2
    <3> QED
      BY <2>3, <3>1, <3>2
  <2>9. AddedByCall \subseteq AddedByCall'
    BY <2>2, <2>5, <2>7 DEF AddedByCall
  <2>10. Range(list) \subseteq AddedByCall'
    BY <2>2, <2>4, <2>6, <2>7
  <2> QED
    BY <2>7, <2>8, <2>9, <2>10
<1>5. \A p \in Range(list), format \in STRING : Format[cachedData'[p]] = format <=> Format[staged[p]] = format
  BY <1>3
<1>6. stage # "none" =>
        /\ \A p \in Range(list) : Format[cachedData'[p]] \in {"new", "deprecated"}
        /\ result' = "ok" <=> \A p \in Range(list) : Format[cachedData'[p]] = "new"
  <2> SUFFICES ASSUME stage # "none"
               PROVE  /\ \A p \in Range(list) : Format[cachedData'[p]] \in {"new", "deprecated"}
                      /\ result' = "ok" <=> \A p \in Range(list) : Format[cachedData'[p]] = "new"
    OBVIOUS
  <2>1. /\ \A p \in DOMAIN staged : Format[staged[p]] \in {"new", "deprecated"}
        /\ deprecated <=> \E p \in DOMAIN staged : Format[staged[p]] = "deprecated"
    BY <1>2 DEF Gathered
  <2>2. result' = "ok" <=> ~deprecated
    BY <1>1
  <2> QED
    BY <1>3, <2>1, <2>2
<1>7. stage = "fullCore" => AddedByCall' = {FullCore}
  BY <1>2, <1>4, DefaultLists DEF Gathered
<1>8. stage = "fullUncore" =>
        /\ AddedByCall' = {FullCore} \cup {FullUncore}
        /\ Format[cachedData'[FullCore]] = "new"
  <2> SUFFICES ASSUME stage = "fullUncore"
               PROVE  /\ AddedByCall' = {FullCore} \cup {FullUncore}
                      /\ Format[cachedData'[FullCore]] = "new"
    OBVIOUS
  <2>1. Range(list) = {FullUncore} /\ FullCore \in DOMAIN cachedData
    BY DefaultLists DEF ReaderInv, Defaults
  <2>2. FullCore \in DOMAIN cachedData \ Range(list)
    BY <2>1
  <2> QED
    BY <1>2, <1>3, <1>4, <2>1, <2>2 DEF Gathered, Holds
<1>9. ASSUME stage = "short"
      PROVE  \E core \in {{}, {FullCore}} :
               /\ AddedByCall' = core \cup {ShortCore, ShortUncore}
               /\ \A p \in core : p \in DOMAIN cachedData'
                                  /\ (Format[cachedData'[p]] = "deprecated" \/ p = ShortCore)
  <2>1. PICK core \in {{}, {FullCore}} :
          /\ AddedByCall = core
          /\ \A p \in core : p \in DOMAIN cachedData /\ Format[cachedData[p]] = "deprecated"
    BY <1>2, <1>9 DEF Gathered, Holds
  <2>2. Range(list) = {ShortCore, ShortUncore}
    BY <1>9, DefaultLists
  <2>a. FullCore # ShortUncore
    OBVIOUS
  <2>3. \A p \in core : p = ShortCore \/ p \in DOMAIN cachedData \ Range(list)
    BY <2>1, <2>2, <2>a
  <2> QED
    BY <1>3, <1>4, <2>1, <2>2, <2>3
<1> QED
  BY <1>1, <1>2, <1>6, <1>7, <1>8, <1>9 DEF Gathered, Holds, Entered, Running, Looking

\* An AddFiles of an AddDefaultFiles begins.
LEMMA GatheredEnter ==
  ASSUME ReaderInv, Gathered, AddDefaultFiles \/ DefaultNext
  PROVE  Gathered'
<1>1. /\ pc' = "validate" /\ staged' = NoData /\ deprecated' = FALSE
      /\ UNCHANGED <<cachedData, paths>>
  BY DEF AddDefaultFiles, DefaultNext, Enter, readerVars
<1>2. ~Entered' /\ DOMAIN staged' = {}
  BY <1>1, NoDataType DEF Entered
<1>3. CASE AddDefaultFiles
  <2>1. stage' = "fullCore" /\ begun' = Len(paths)
    BY <1>3 DEF AddDefaultFiles
  <2>2. AddedByCall' = {paths[i] : i \in Len(paths) + 1 .. Len(paths)} /\ Len(paths) \in Nat
    BY <1>1, <2>1, CurrentPath DEF AddedByCall, ReaderInv
  <2>3. AddedByCall' = {}
    BY <2>2
  <2> QED
    BY <1>1, <1>2, <2>1, <2>3 DEF Gathered
<1>4. CASE DefaultNext
  <2>1. pc = "return" /\ stage = "fullCore" /\ UNCHANGED begun
    BY <1>4 DEF DefaultNext
  <2>2. AddedByCall' = AddedByCall /\ AddedByCall = (IF Entered THEN {FullCore} ELSE {})
    BY <1>1, <2>1, AddedKept DEF Gathered
  <2>3. Range(list) = {FullCore}
    BY <2>1, DefaultLists
  <2>4. CASE result = "ok"
    <3>1. Entered /\ stage' = "fullUncore"
      BY <1>4, <2>1, <2>4 DEF DefaultNext, Entered
    <3>2. Format[cachedData[FullCore]] = "new"
      BY <2>1, <2>3, <2>4, <3>1 DEF Gathered, Holds
    <3> QED
      BY <1>1, <1>2, <2>2, <3>1, <3>2 DEF Gathered, Holds
  <2>5. CASE result # "ok"
    <3>1. stage' = "short"
      BY <1>4, <2>5 DEF DefaultNext
    <3>2. Entered => FullCore \in DOMAIN cachedData /\ Format[cachedData[FullCore]] = "deprecated"
      BY <2>1, <2>3, <2>5 DEF Gathered, Holds, Entered, ReaderInv, Added
    <3> QED
      BY <1>1, <1>2, <2>2, <3>1, <3>2 DEF Gathered, Holds
  <2> QED
    BY <2>4, <2>5
<1> QED
  BY <1>3, <1>4

LEMMA GatheredStep == ASSUME ReaderInv, Gathered, [Next]_vars PROVE Gathered'
<1>1. CASE Validate \/ Lstat \/ Replace \/ UNCHANGED vars \/ (OpenAndRead /\ Fail)
  <2>1. /\ UNCHANGED <<cachedData, paths, begun, list, stage, staged, deprecated>>
        /\ \/ pc' = pc /\ result' = result
           \/ pc \in Looking /\ pc' \in Looking
           \/ pc \in Looking /\ pc' = "return" /\ result' = "error"
    BY <1>1 DEF Validate, Lstat, Replace, OpenAndRead, Fail, vars, readerVars, callVars, Looking
  <2> QED
    BY <2>1, GatheredQuiet
<1>2. CASE AddFiles \/ Return \/ DefaultReturn
  <2>1. stage' = "none"
    BY <1>2 DEF AddFiles, Return, DefaultReturn, Answer, ReaderInv, Defaults
  <2> QED
    BY <2>1 DEF Gathered
<1> QED
  BY <1>1, <1>2, GatheredStage, GatheredCommit, GatheredEnter DEF Next, Step

\* What an AddDefaultFiles has added is what it answers: both files of one name
\* of the cpu, the core file of the full name in the old format beside them,
\* or, when it failed, at most that file (reader.go:115).
THEOREM DefaultsComeTogether == Spec => DefaultsTogether
<1> DEFINE Together ==
      stage # "none" /\ stage' = "none" =>
        IF result = "error" THEN AddedByCall \subseteq {FullCore}
        ELSE \E name \in {{FullCore, FullUncore}, {ShortCore, ShortUncore}} :
               /\ name \subseteq AddedByCall
               /\ \A p \in AddedByCall \ name : p = FullCore /\ Holds(p, "deprecated")
               /\ result = "ok" <=> \A p \in name : Holds(p, "new")
<1>1. ReaderInv /\ Gathered /\ [Next]_vars => [Together]_vars
  <2> SUFFICES ASSUME ReaderInv, Gathered, Next, stage # "none", stage' = "none"
               PROVE  Together
    OBVIOUS
  <2>1. DefaultReturn
    BY DEF Next, Step, AddFiles, AddDefaultFiles, Validate, Lstat, OpenAndRead, Stage, Fail,
           Commit, Return, DefaultNext, Replace, callVars
  <2>2. pc = "return" /\ stage \in {"fullUncore", "short"}
    BY <2>1 DEF DefaultReturn
  <2>3. CASE result = "error"
    BY <2>2, <2>3 DEF Gathered, Entered
  <2>4. CASE result # "error"
    <3>1. Entered
      BY <2>2, <2>4 DEF Entered
    <3>2. CASE stage = "fullUncore"
      <4>1. AddedByCall = {FullCore, FullUncore} /\ Range(list) = {FullUncore} /\ Holds(FullCore, "new")
        BY <3>1, <3>2, DefaultLists DEF Gathered
      <4>2. result = "ok" <=> Holds(FullUncore, "new")
        BY <3>1, <3>2, <4>1 DEF Gathered
      <4>3. result = "ok" <=> \A p \in {FullCore, FullUncore} : Holds(p, "new")
        BY <4>1, <4>2
      <4> QED
        BY <2>4, <4>1, <4>3
    <3>3. CASE stage = "short"
      <4>1. PICK core \in {{}, {FullCore}} :
              /\ AddedByCall = core \cup {ShortCore, ShortUncore}
              /\ \A p \in core : Holds(p, "deprecated") \/ p = ShortCore
        BY <3>1, <3>3 DEF Gathered
      <4>2. Range(list) = {ShortCore, ShortUncore}
        BY <3>3, DefaultLists
      <4>3. result = "ok" <=> \A p \in {ShortCore, ShortUncore} : Holds(p, "new")
        BY <3>1, <3>3, <4>2 DEF Gathered
      <4> QED
        BY <2>4, <4>1, <4>3
    <3> QED
      BY <2>2, <3>2, <3>3
  <2> QED
    BY <2>3, <2>4
<1>2. Init => Gathered
  BY GatheredInit
<1>3. ReaderInv /\ Gathered /\ [Next]_vars => Gathered'
  BY GatheredStep
<1> QED
  BY <1>1, <1>2, <1>3, ReaderInvariance, PTL DEF Spec, DefaultsTogether
=============================================================================
