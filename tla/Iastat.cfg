\* Two rounds, in which two reads may fail.
CONSTANTS
  CoreEvents = {"A", "B"}
  UncoreEvents = {"U"}
  CommandLines <- MCCommandLines
  Cpus <- MCCpus
  Sockets <- MCSockets
  Units = 2
  Sharing <- MCSharing
  Count = 2
  MaxFailures = 2
SPECIFICATION FairSpec
INVARIANTS
  TypeOK
  ParsedAsWritten
  CleanUpReaches
  PrintedIsMeasured
PROPERTIES
  Finishes
CHECK_DEADLOCK FALSE
