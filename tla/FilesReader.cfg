\* The four default files, two of which the client also adds by itself, over a
\* file of each format; one entry is replaced while calls run.  MaxPaths ends
\* the run, so a full reader is not a deadlock.
CONSTANTS
  FullCore = FullCore
  FullUncore = FullUncore
  ShortCore = ShortCore
  ShortUncore = ShortUncore
  ClientPaths = {FullCore, ShortCore}
  iNew = iNew
  iOld = iOld
  iBroken = iBroken
  Inodes = {iNew, iOld, iBroken}
  Format <- MCFormat
  MaxArgs = 2
  MaxPaths = 3
  MaxReplacements = 1
SPECIFICATION FairSpec
INVARIANTS
  TypeOK
  ReaderMatchesAnswers
PROPERTIES
  AddsWholeAndFresh
  DefaultsTogether
  CallsReturn
CHECK_DEADLOCK FALSE
