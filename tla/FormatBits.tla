----------------------------- MODULE FormatBits -----------------------------
(***************************************************************************)
(* formatValue and parseBitFormat (transformer.go): the value of a term is *)
(* spread over the bit ranges of the kernel's format, "0-7,21", lowest     *)
(* bits first.  A word is the set of its bits that are 1; Width stands for *)
(* the 64 bits of a uint64.                                                *)
(***************************************************************************)
EXTENDS Integers, Sequences, FiniteSets

CONSTANTS
  Width,      \* bits of a word
  MaxRanges   \* bound on the ranges of one format

ASSUME FormatAssumption == Width \in Nat \ {0} /\ MaxRanges \in Nat

Bits == 0 .. (Width - 1)
Word == SUBSET Bits

\* The powers of two, by doubling.
TwoTo[n \in Nat] == IF n = 0 THEN 1 ELSE 2 * TwoTo[n - 1]

\* The numbers a word can hold, and arithmetic on them.
Numbers == 0 .. (TwoTo[Width] - 1)
Wrap(n) == n % TwoTo[Width]

\* A range as the format file has it; "21" is the range 21-21.
BitFormat == [start : Numbers, end : Numbers]
Formats == UNION {[1 .. n -> BitFormat] : n \in 1 .. MaxRanges}

\* w & mask, where mask has n bits set; w << n; w >> n.
LowBits(w, n) == {b \in w : b < n}
ShiftLeft(w, n) == {b + n : b \in w} \cap Bits
ShiftRight(w, n) == {b - n : b \in {b \in w : b >= n}}

VARIABLES
  format,     \* the ranges
  value,      \* the term's value
  at,         \* the range in turn
  remaining,  \* remainingValue
  formatted,  \* formattedValue
  result      \* "none", "ok" or "error"

vars == <<format, value, at, remaining, formatted, result>>

TypeOK ==
  /\ format \in Formats
  /\ value \in Word
  /\ at \in 1 .. (MaxRanges + 1)
  /\ remaining \in Word
  /\ formatted \in Word
  /\ result \in {"none", "ok", "error"}

Init ==
  /\ format \in Formats
  /\ value \in Word
  /\ at = 1
  /\ remaining = value
  /\ formatted = {}
  /\ result = "none"

\* (mutant) The last bit of the range is not counted.
BitsNumShort(r) == Wrap(r.end - r.start)

\* bitsNum of parseBitFormat, and the ranges it refuses.
BitsNum(r) == Wrap(r.end - r.start + 1)

\* (mutant) A range that runs backwards is left to the test of bitsNum.
RefusedLong(r) == BitsNum(r) > Width

Refused(r) == r.start > r.end \/ BitsNum(r) > Width

\* (mutant) The bits already placed stay in remainingValue.
PlaceAgain ==
  /\ result = "none" /\ at <= Len(format)
  /\ ~Refused(format[at])
  /\ formatted' = formatted \cup ShiftLeft(LowBits(remaining, BitsNum(format[at])), format[at].start)
  /\ remaining' = remaining
  /\ at' = at + 1
  /\ UNCHANGED <<format, value, result>>

\* One round of formatValue's loop.
Place ==
  /\ result = "none" /\ at <= Len(format)
  /\ ~Refused(format[at])
  /\ formatted' = formatted \cup ShiftLeft(LowBits(remaining, BitsNum(format[at])), format[at].start)
  /\ remaining' = ShiftRight(remaining, BitsNum(format[at]))
  /\ at' = at + 1
  /\ UNCHANGED <<format, value, result>>

Refuse ==
  /\ result = "none" /\ at <= Len(format)
  /\ Refused(format[at])
  /\ result' = "error"
  /\ UNCHANGED <<format, value, at, remaining, formatted>>

Return ==
  /\ result = "none" /\ at > Len(format)
  /\ result' = "ok"
  /\ UNCHANGED <<format, value, at, remaining, formatted>>

Next == Place \/ Refuse \/ Return

Spec == Init /\ [][Next]_vars
-----------------------------------------------------------------------------
\* The reference: the ranges name positions one after the other, and bit k of
\* the value goes to the k-th position.  Length[r] is the number of positions
\* of a range; the one range of 2^Width bits has none, its bitsNum is 0.
Length(r) == IF r.start = 0 /\ r.end = TwoTo[Width] - 1 THEN 0 ELSE r.end - r.start + 1

Taken[n \in 0 .. Len(format)] == IF n = 0 THEN 0 ELSE Taken[n - 1] + Length(format[n])

\* Where the k-th bit goes, if one of the first n ranges takes it.
PlacedIn(i, k) == Taken[i - 1] <= k /\ k < Taken[i]
PositionIn(i, k) == format[i].start + k - Taken[i - 1]
Deposit(n) ==
  {p \in Bits : \E i \in 1 .. n, k \in value : PlacedIn(i, k) /\ p = PositionIn(i, k)}

\* Safety: after n ranges exactly the bits that belong to them have been placed,
\* each where the reference puts it, and the rest of the value is what remains
\* (transformer.go:332, shifts by Width and more included).
Deposited ==
  /\ formatted = Deposit(at - 1)
  /\ remaining = {k - Taken[at - 1] : k \in {k \in value : k >= Taken[at - 1]}}

\* A range runs upwards and has no more positions than a word has bits.
InWord(r) == r.start <= r.end /\ Length(r) <= Width

\* Safety: formatValue fails exactly for a list in which some range runs
\* backwards or has more positions than a word, whatever place it has in the
\* list.  The number of positions wraps, so that for the range of all 2^Width
\* numbers it is 0, which passes and takes no bit (transformer.go:362); a range
\* n-(n-1) would pass the same way, did not its ends tell (transformer.go:358).
OnlyInWord ==
  /\ result = "ok" => \A i \in DOMAIN format : InWord(format[i])
  /\ result = "error" => \E i \in DOMAIN format : ~InWord(format[i])

\* The ranges lie in the word and no two of them share a bit, as in the
\* kernel's format files.
WellFormed ==
  /\ \A i \in DOMAIN format : format[i].start <= format[i].end /\ format[i].end < Width
  /\ \A i, j \in DOMAIN format :
       i # j => format[i].end < format[j].start \/ format[j].end < format[i].start

\* Safety: with such a format every value is accepted; a value that fits keeps
\* all its bits, and no bit outside of the ranges is set, so that terms of
\* other ranges can be or-ed to it.
Lossless ==
  WellFormed =>
    /\ result # "error"
    /\ \A b \in formatted : \E i \in DOMAIN format : format[i].start <= b /\ b <= format[i].end
    /\ result = "ok" /\ (\A k \in value : k < Taken[Len(format)])
         => Cardinality(formatted) = Cardinality(value)
=============================================================================
