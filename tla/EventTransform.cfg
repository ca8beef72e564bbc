\* Two events in a batch while a driver comes or goes.
CONSTANTS
  cpu = cpu
  cha = cha
  dCpu = dCpu
  dUncoreCpu = dUncoreCpu
  dCha = dCha
  dUncoreCha = dUncoreCha
  dCha0 = dCha0
  dCha0x = dCha0x
  dCha1 = dCha1
  t1 = t1
  t2 = t2
  t3 = t3
  t4 = t4
  t5 = t5
  Units = {cpu, cha}
  Pmus = {dCpu, dUncoreCpu, dCha, dUncoreCha, dCha0, dCha0x, dCha1}
  Exact <- MCExact
  Single <- MCSingle
  Globbed <- MCGlobbed
  OnlyDigits = {dCha0, dCha1}
  Types = {t1, t2, t3, t4, t5}
  Gone = Gone
  BootType <- MCBootType
  Cpumask <- MCCpumask
  Format <- MCFormat
  JSONEvents <- MCJSONEvents
  NameSets <- MCNameSets
  Null = Null
  BadUnit = BadUnit
  MaxBatch = 2
  MaxChanges = 1
SPECIFICATION FairSpec
INVARIANTS
  TypeOK
  Answered
PROPERTIES
  PmusOfUnit
  AttrOfEvent
  StableOutcome
  TransformReturns
