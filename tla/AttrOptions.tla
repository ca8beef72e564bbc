----------------------------- MODULE AttrOptions -----------------------------
(***************************************************************************)
(* options.go and modifiers.go: the attributes a client asks for with      *)
(* SetAttrModifiers and SetEnableOnExec, and configurePerfEvent, which     *)
(* merges them with those of the PerfEvent.  A config word is the set of   *)
(* its bits that are 1, attr.Bits the set of the names of its flags.       *)
(***************************************************************************)
EXTENDS Integers, Sequences, FiniteSets

CONSTANT ConfigBits   \* the bits of a config word that are told apart

Fields == {"config", "config1", "config2"}

Modifiers == {"p", "k", "u", "h", "H", "I", "G", "D"}

\* The flag of each modifier but p, which counts in two of its own.
ModifierBit(m) ==
  CASE m = "k" -> "exclude_user" [] m = "u" -> "exclude_kernel" [] m = "h" -> "exclude_guest"
    [] m = "H" -> "exclude_guest" [] m = "I" -> "exclude_idle" [] m = "G" -> "exclude_hv"
    [] m = "D" -> "pinned"
Flags ==
  {"precise_ip1", "precise_ip2", "disabled", "enable_on_exec", "inherit", "exclude_user",
   "exclude_kernel", "exclude_guest", "exclude_idle", "exclude_hv", "pinned"}

\* What a list of qualifiers comes to: "config1=0x3pk" is a value or-ed to
\* config1 and two modifiers; what cannot be parsed is "bad".
Item ==
  [kind : {"value"}, field : Fields, value : SUBSET ConfigBits]
    \cup [kind : {"modifier"}, modifier : Modifiers] \cup [kind : {"bad"}]

\* PerfEventAttr; size says whether it covers config2 (PERF_ATTR_SIZE_VER1).
Attr == [word : [Fields -> SUBSET ConfigBits], bits : SUBSET Flags, size : {"ver0", "ver1"}]

\* (mutant) The counter goes from 10 back to 01.
IncPreciseIPWraps(bits) ==
  IF "precise_ip2" \in bits
  THEN (bits \ {"precise_ip2"}) \cup {"precise_ip1"}
  ELSE IF "precise_ip1" \in bits
       THEN (bits \ {"precise_ip1"}) \cup {"precise_ip2"} ELSE bits \cup {"precise_ip1"}

\* incPreciseIPBits: 00, 01, 10, 11 and no further.
IncPreciseIP(bits) ==
  IF "precise_ip2" \in bits
  THEN bits \cup {"precise_ip1"}
  ELSE IF "precise_ip1" \in bits
       THEN (bits \ {"precise_ip1"}) \cup {"precise_ip2"} ELSE bits \cup {"precise_ip1"}

\* updateModifiers, one character.
UpdateModifier(attr, m) ==
  [attr EXCEPT !.bits = IF m = "p" THEN IncPreciseIP(attr.bits)
                        ELSE attr.bits \cup {ModifierBit(m)}]

\* updateQualifiers, one item of the list.
UpdateQualifier(attr, item) ==
  IF item.kind = "modifier" THEN UpdateModifier(attr, item.modifier)
  ELSE [attr EXCEPT !.word[item.field] = attr.word[item.field] \cup item.value]

\* optionsBuilder.Build, once the list is done.
SetEnableOnExec(attr, onExec) ==
  IF onExec THEN [attr EXCEPT !.bits = attr.bits \cup {"disabled", "enable_on_exec"}] ELSE attr

\* configurePerfEvent; Size stays that of the PerfEvent.
Merge(attr, options) ==
  [attr EXCEPT !.word = [f \in Fields |-> attr.word[f] \cup options.word[f]],
               !.bits = attr.bits \cup options.bits]

\* A zero PerfEventAttr.
NoAttr == [word |-> [f \in Fields |-> {}], bits |-> {}, size |-> "ver0"]

\* What perf_event_open takes of a word: it reads Size bytes (external).
KernelWord(attr, f) == IF f = "config2" /\ attr.size = "ver0" THEN {} ELSE attr.word[f]
=============================================================================
