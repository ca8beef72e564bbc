-------------------------- MODULE MCEventTransform --------------------------
(***************************************************************************)
(* EventTransform for TLC: a core PMU and an uncore one that may be        *)
(* registered under one name or as numbered units, next to a directory     *)
(* whose name only begins like theirs.                                     *)
(***************************************************************************)
EXTENDS EventTransform, TLC

CONSTANTS
  cpu, cha,                            \* units
  dCpu, dUncoreCpu, dCha, dUncoreCha,  \* /sys/devices/cpu, uncore_cpu, cha, uncore_cha
  dCha0, dCha0x, dCha1,                \* uncore_cha_0, uncore_cha_0x, uncore_cha_1
  t1, t2, t3, t4, t5                   \* type numbers

MCExact  == cpu :> dCpu @@ cha :> dCha
MCSingle == cpu :> dUncoreCpu @@ cha :> dUncoreCha
MCGlobbed == cpu :> <<>> @@ cha :> <<dCha0, dCha0x, dCha1>>
MCBootType == dCpu :> t1 @@ dUncoreCha :> t2 @@ dCha0 :> t3 @@ dCha0x :> t4 @@ dCha1 :> t5

MCCpumask == [p \in Pmus |->
  CASE p = dCpu -> "missing" [] p = dCha1 -> "other" [] p = dUncoreCha -> "garbage"
    [] p = dCha0x -> "unreadable" [] OTHER -> "zero"]

MCFormat == [p \in Pmus |->
  IF p \in {dCpu, dUncoreCpu}
  THEN "event" :> "config" @@ "umask" :> "config" @@ "any" :> "config" @@ "msr" :> "config1"
  ELSE "event" :> "config" @@ "umask" :> "config2" @@ "inv" :> "bad"]

Def(name, unit, fields) ==
  [name |-> name, deprecated |-> FALSE, code |-> "ok", extSel |-> "none", unit |-> unit,
   fixed |-> "no", fields |-> fields, numbers |-> TRUE]

\* A core and an uncore event that can be resolved, and a definition for each
\* way not to be.
MCJSONEvents ==
  {Def("CORE", cpu, {"umask", "period", "msr"}),
   Def("UNCORE", cha, {"umask"}),
   Def("NO_FORMAT", cha, {"inv"}),
   [Def("FIXED", cpu, {"umask"}) EXCEPT !.fixed = "any", !.numbers = FALSE],
   [Def("NOT_NUMBERS", cpu, {"umask"}) EXCEPT !.numbers = FALSE],
   [Def("NO_CODE", cpu, {}) EXCEPT !.code = "missing"],
   [Def("UNCORE", cha, {"umask"}) EXCEPT !.deprecated = TRUE]}

MCNameSets == {{}, {"UNCORE", "NO_CODE"}}
=============================================================================
