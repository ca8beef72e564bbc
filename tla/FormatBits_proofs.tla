------------------------- MODULE FormatBits_proofs -------------------------
(***************************************************************************)
(* Proofs about FormatBits, for words of any width and formats of any      *)
(* number of ranges.  The invariant adds to the placed bits that no range  *)
(* before the one in turn has been refused: bitsNum is then the number of  *)
(* positions the reference gives to the range, the 2^Width that wrap to 0  *)
(* included.                                                               *)
(***************************************************************************)
EXTENDS FormatBits, Counting

\* What formatValue knows of the ranges behind it.
RangesSoFar ==
  /\ at <= Len(format) + 1
  /\ \A i \in 1 .. at - 1 : ~Refused(format[i])
  /\ result = "ok" => at = Len(format) + 1
  /\ result = "error" => at <= Len(format) /\ Refused(format[at])

FormatInv == TypeOK /\ RangesSoFar /\ Deposited
-----------------------------------------------------------------------------
\* A word has more numbers than bits.
LEMMA PowersOfTwo ==
  /\ TwoTo[0] = 1
  /\ \A n \in Nat : TwoTo[n] \in Nat /\ TwoTo[n + 1] = 2 * TwoTo[n] /\ n < TwoTo[n]
<1> DEFINE Doubles(f) == f = [n \in Nat |-> IF n = 0 THEN 1 ELSE 2 * f[n - 1]]
           double == [p \in Nat \X Nat |-> 2 * p[2]]
<1>1. \E f : Doubles(f) /\ f \in [Nat -> Nat]
  <2>1. double \in [Nat \X Nat -> Nat] /\ \A n, m \in Nat : double[<<n, m>>] = 2 * m
    OBVIOUS
  <2> HIDE DEF double
  <2>2. PICK f : RecursiveOnNat(f, Nat, 1, double)
    BY <2>1, NatRecursion
  <2>3. f \in [Nat -> Nat] /\ f[0] = 1 /\ \A n \in Nat : f[n + 1] = 2 * f[n]
    <3>1. /\ f \in [Nat -> Nat] /\ f[0] = 1
          /\ \A n \in Nat : f[n + 1] = double[<<n + 1, f[n]>>]
      BY <2>2 DEF RecursiveOnNat
    <3>2. ASSUME NEW n \in Nat
          PROVE  f[n + 1] = 2 * f[n]
      <4>1. n + 1 \in Nat /\ f[n] \in Nat
        BY <3>1
      <4>2. double[<<n + 1, f[n]>>] = 2 * f[n]
        BY <2>1, <4>1
      <4> QED
        BY <3>1, <4>2
    <3> QED
      BY <3>1, <3>2
  <2>4. \A n \in Nat : n # 0 => f[n] = 2 * f[n - 1]
    <3> TAKE n \in Nat
    <3> SUFFICES ASSUME n # 0 PROVE f[n] = 2 * f[n - 1]
      OBVIOUS
    <3>1. n - 1 \in Nat /\ (n - 1) + 1 = n
      OBVIOUS
    <3> QED
      BY <2>3, <3>1
  <2>5. Doubles(f)
    BY <2>3, <2>4
  <2> QED
    BY <2>3, <2>5
<1>2. Doubles(TwoTo)
  BY <1>1 DEF TwoTo
<1>3. TwoTo[0] = 1 /\ \A n \in Nat : TwoTo[n + 1] = 2 * TwoTo[n]
  BY <1>2
<1> DEFINE S == {n \in Nat : TwoTo[n] \in Nat /\ n < TwoTo[n]}
<1>4. 0 \in S /\ \A n \in Nat : n \in S => n + 1 \in S
  BY <1>3
<1>5. \A n \in Nat : n \in S
  <2> HIDE DEF S
  <2> QED
    BY <1>4, Induct
<1> QED
  BY <1>3, <1>5

LEMMA WidthFacts == Width \in Nat /\ TwoTo[Width] \in Nat /\ Width < TwoTo[Width]
BY FormatAssumption, PowersOfTwo

\* A format is a sequence of ranges.
LEMMA FormatFacts ==
  ASSUME format \in Formats
  PROVE  /\ Len(format) \in Nat /\ Len(format) <= MaxRanges
         /\ \A i \in 1 .. Len(format) :
              format[i] \in BitFormat /\ format[i].start \in Nat /\ format[i].end \in Nat
<1>1. PICK n \in 1 .. MaxRanges : format \in [1 .. n -> BitFormat]
  BY DEF Formats
<1>2. n \in Nat /\ n <= MaxRanges
  BY <1>1, FormatAssumption
<1>3. Len(format) = n
  BY <1>1, <1>2
<1>4. \A r \in BitFormat : r.start \in Nat /\ r.end \in Nat
  BY WidthFacts DEF BitFormat, Numbers
<1> QED
  BY <1>1, <1>2, <1>3, <1>4

\* A range that is accepted has as many bits as bitsNum says.
LEMMA BitsNumIsLength ==
  ASSUME NEW r \in BitFormat, ~Refused(r)
  PROVE  BitsNum(r) = Length(r) /\ Length(r) \in 0 .. Width
<1>1. /\ r.start \in Nat /\ r.end \in Nat /\ r.start <= r.end
      /\ r.end < TwoTo[Width]
  BY WidthFacts DEF BitFormat, Numbers, Refused
<1> DEFINE n == r.end - r.start + 1
           m == TwoTo[Width]
<1>2. n \in Nat /\ m \in Nat /\ 0 < n /\ n <= m /\ (n = m <=> r.start = 0 /\ r.end = m - 1)
  BY <1>1, WidthFacts
<1>3. BitsNum(r) = n % m
  BY DEF BitsNum, Wrap
<1>4. n < m => n % m = n
  <2> HIDE DEF n, m
  <2> QED
    BY <1>2
<1>5. m % m = 0
  <2> HIDE DEF n, m
  <2> QED
    BY <1>2
<1>6. BitsNum(r) = Length(r)
  BY <1>2, <1>3, <1>4, <1>5 DEF Length
<1>7. Length(r) \in Nat
  BY <1>2 DEF Length
<1> QED
  BY <1>6, <1>7, WidthFacts DEF Refused

\* All ranges together, as the sum says, whatever the format holds.
LEMMA TakenFacts ==
  ASSUME format \in Formats
  PROVE  /\ Taken[0] = 0
         /\ \A n \in 0 .. Len(format) : Taken[n] \in Int
         /\ \A n \in 1 .. Len(format) : Taken[n] = Taken[n - 1] + Length(format[n])
<1> DEFINE L == Len(format)
           Sums(f) == f = [n \in 0 .. L |-> IF n = 0 THEN 0 ELSE f[n - 1] + Length(format[n])]
           add == [p \in Nat \X Int |-> IF p[1] \in 1 .. L THEN p[2] + Length(format[p[1]]) ELSE p[2]]
<1>1. L \in Nat /\ \A i \in 1 .. L : Length(format[i]) \in Int
  BY FormatFacts DEF Length
<1> HIDE DEF L
<1>2. add \in [Nat \X Int -> Int]
  BY <1>1
<1>3. \A n \in 1 .. L, m \in Int : add[<<n, m>>] = m + Length(format[n])
  BY <1>1
<1> HIDE DEF add
<1>4. PICK f : RecursiveOnNat(f, Int, 0, add)
  <2>1. 0 \in Int
    OBVIOUS
  <2> QED
    BY <1>2, <2>1, NatRecursion, Zenon
<1>5. /\ f \in [Nat -> Int] /\ f[0] = 0
      /\ \A n \in Nat : f[n + 1] = add[<<n + 1, f[n]>>]
  BY <1>4 DEF RecursiveOnNat
<1>6. ASSUME NEW n \in 1 .. L
      PROVE  f[n] = f[n - 1] + Length(format[n])
  <2>1. n - 1 \in Nat /\ (n - 1) + 1 = n
    BY <1>1
  <2>2. f[n - 1] \in Int
    BY <1>5, <2>1
  <2>3. f[n] = add[<<n, f[n - 1]>>]
    BY <1>5, <2>1
  <2> QED
    BY <1>3, <2>2, <2>3
<1> DEFINE g == [n \in 0 .. L |-> f[n]]
<1>7. Sums(g)
  <2>1. ASSUME NEW n \in 0 .. L
        PROVE  g[n] = IF n = 0 THEN 0 ELSE g[n - 1] + Length(format[n])
    BY <1>1, <1>5, <1>6
  <2> QED
    BY <2>1
<1> HIDE DEF g
<1>8. Sums(Taken)
  BY <1>7 DEF Taken, L
<1>9. Taken[0] = 0 /\ \A n \in 1 .. L : Taken[n] = Taken[n - 1] + Length(format[n])
  BY <1>1, <1>8
<1>10. \A n \in Nat : n <= L => Taken[n] \in Int
  <2> DEFINE S == {n \in Nat : n <= L => Taken[n] \in Int}
  <2>1. 0 \in S
    BY <1>9
  <2>2. ASSUME NEW n \in Nat, n \in S
        PROVE  n + 1 \in S
    <3> SUFFICES ASSUME n + 1 <= L PROVE Taken[n + 1] \in Int
      OBVIOUS
    <3>1. n + 1 \in 1 .. L /\ (n + 1) - 1 = n
      BY <1>1
    <3>2. Taken[n + 1] = Taken[n] + Length(format[n + 1])
      BY <1>9, <3>1
    <3>3. Taken[n] \in Int
      BY <1>1, <2>2
    <3> QED
      BY <1>1, <3>1, <3>2, <3>3
  <2> HIDE DEF S
  <2>3. \A n \in Nat : n \in S
    BY <2>1, <2>2, Induct
  <2> QED
    BY <2>3 DEF S
<1> QED
  BY <1>1, <1>9, <1>10 DEF L
-----------------------------------------------------------------------------
\* The set of bits b - n again, seen from below.
LEMMA ShiftedInWord ==
  ASSUME NEW w \in Word, NEW n \in 0 .. Width
  PROVE  ShiftRight(w, n) \in Word
<1>1. \A b \in w : b \in 0 .. Width - 1
  BY DEF Word, Bits
<1> QED
  BY <1>1, WidthFacts DEF ShiftRight, Word, Bits

LEMMA FormatInit == Init => FormatInv
<1> SUFFICES ASSUME Init PROVE FormatInv
  OBVIOUS
<1>1. Len(format) \in Nat /\ Taken[0] = 0 /\ MaxRanges \in Nat
  BY FormatFacts, TakenFacts, FormatAssumption DEF Init
<1>2. \A k \in value : k \in Int
  BY DEF Init, Word, Bits
<1>3. TypeOK
  BY <1>1 DEF Init, TypeOK, Word
<1>4. RangesSoFar
  BY <1>1 DEF Init, RangesSoFar
<1>5. Deposit(0) = {}
  BY DEF Deposit
<1>6. value = {k - 0 : k \in {k \in value : k >= 0}}
  <2>1. \A k \in value : k - 0 = k /\ k >= 0
    BY DEF Init, Word, Bits
  <2> QED
    BY <2>1
<1>7. Deposited
  BY <1>1, <1>5, <1>6 DEF Init, Deposited
<1> QED
  BY <1>3, <1>4, <1>7 DEF FormatInv

\* The bits of one more range are those that LowBits takes.
LEMMA PlaceDeposits ==
  ASSUME FormatInv, Place
  PROVE  Deposited'
<1> DEFINE r == format[at]
           n == BitsNum(r)
           T == Taken[at - 1]
<1>1. /\ at \in 1 .. Len(format) /\ Len(format) \in Nat /\ at \in Nat
      /\ r \in BitFormat /\ ~Refused(r) /\ r.start \in Nat
  BY FormatFacts DEF FormatInv, TypeOK, Place
<1>2. n = Length(r) /\ n \in 0 .. Width
  BY <1>1, BitsNumIsLength
<1>3. T \in Int /\ Taken[at] = T + n
  BY <1>1, <1>2, TakenFacts DEF FormatInv, TypeOK
<1>4. \A k \in value : k \in Nat
  BY DEF FormatInv, TypeOK, Word, Bits
<1>5. /\ formatted = Deposit(at - 1)
      /\ remaining = {k - T : k \in {k \in value : k >= T}}
  BY DEF FormatInv, Deposited
<1>6. /\ formatted' = formatted \cup ShiftLeft(LowBits(remaining, n), r.start)
      /\ remaining' = ShiftRight(remaining, n)
      /\ at' = at + 1 /\ format' = format /\ value' = value
  BY DEF Place
<1>7. at' - 1 = at
  BY <1>1, <1>6
<1>8. Taken' = Taken
  BY <1>6 DEF Taken, Length
<1> DEFINE Here == {p \in Bits : \E k \in value : T <= k /\ k < T + n /\ p = r.start + k - T}
<1>9. ShiftLeft(LowBits(remaining, n), r.start) = Here
  <2> HIDE DEF n, T
  <2>1. ASSUME NEW p \in Bits, NEW k \in value, T <= k, k < T + n, p = r.start + k - T
        PROVE  p \in {b + r.start : b \in {b \in remaining : b < n}}
    <3>1. k - T \in remaining /\ k - T < n /\ p = (k - T) + r.start
      BY <1>1, <1>2, <1>3, <1>4, <1>5, <2>1
    <3> QED
      BY <3>1
  <2>2. ASSUME NEW b \in remaining, b < n
        PROVE  \E k \in value : T <= k /\ k < T + n /\ b + r.start = r.start + k - T
    <3>1. PICK k \in value : k >= T /\ b = k - T
      BY <1>5
    <3> QED
      BY <1>1, <1>2, <1>3, <1>4, <2>2, <3>1
  <2> QED
    BY <2>1, <2>2 DEF ShiftLeft, LowBits
<1>10. Deposit(at) = Deposit(at - 1) \cup Here
  <2>1. PlacedIn(at, 0) \in BOOLEAN /\ \A k \in value :
          /\ PlacedIn(at, k) <=> T <= k /\ k < T + n
          /\ PositionIn(at, k) = r.start + k - T
    BY <1>3 DEF PlacedIn, PositionIn
  <2>2. \A i : i \in 1 .. at <=> i \in 1 .. at - 1 \/ i = at
    BY <1>1
  <2> HIDE DEF T, n, r
  <2> QED
    BY <2>1, <2>2 DEF Deposit
<1>11. remaining' = {k - Taken[at] : k \in {k \in value : k >= Taken[at]}}
  <2> HIDE DEF n, T
  <2>1. ASSUME NEW b \in remaining, b >= n
        PROVE  \E k \in value : k >= Taken[at] /\ b - n = k - Taken[at]
    <3>1. PICK k \in value : k >= T /\ b = k - T
      BY <1>5
    <3> QED
      BY <1>2, <1>3, <1>4, <2>1, <3>1
  <2>2. ASSUME NEW k \in value, k >= Taken[at]
        PROVE  \E b \in remaining : b >= n /\ b - n = k - Taken[at]
    <3>1. k >= T /\ k - T >= n /\ (k - T) - n = k - Taken[at]
      BY <1>2, <1>3, <1>4, <2>2
    <3> QED
      BY <1>5, <3>1
  <2> QED
    BY <1>6, <2>1, <2>2 DEF ShiftRight
<1> HIDE DEF n, T, r, Here
<1>12. (Deposit(at - 1))' = Deposit(at)
  BY <1>6, <1>7, <1>8 DEF Deposit, PlacedIn, PositionIn
<1> QED
  BY <1>5, <1>6, <1>7, <1>8, <1>9, <1>10, <1>11, <1>12 DEF Deposited

LEMMA PlaceTypes ==
  ASSUME FormatInv, Place
  PROVE  TypeOK'
<1> DEFINE n == BitsNum(format[at])
<1>1. at \in 1 .. Len(format) /\ Len(format) \in Nat /\ Len(format) <= MaxRanges /\ MaxRanges \in Nat
  BY FormatFacts, FormatAssumption DEF FormatInv, TypeOK, Place
<1>2. n \in 0 .. Width
  BY <1>1, FormatFacts, BitsNumIsLength DEF FormatInv, TypeOK, Place
<1>3. remaining' \in Word
  <2> HIDE DEF n
  <2>1. remaining' = ShiftRight(remaining, n) /\ remaining \in Word
    BY DEF Place, FormatInv, TypeOK, n
  <2> QED
    BY <1>2, <2>1, ShiftedInWord
<1>4. formatted' \in Word
  BY DEF Place, FormatInv, TypeOK, ShiftLeft, Word
<1>5. at' \in 1 .. (MaxRanges + 1)
  BY <1>1 DEF Place
<1> QED
  BY <1>3, <1>4, <1>5 DEF Place, FormatInv, TypeOK

LEMMA FormatStep == FormatInv /\ [Next]_vars => FormatInv'
<1> SUFFICES ASSUME FormatInv, [Next]_vars PROVE FormatInv'
  OBVIOUS
<1>1. Len(format) \in Nat /\ at \in Nat /\ at >= 1
  BY FormatFacts, FormatAssumption DEF FormatInv, TypeOK
<1>2. CASE Place
  <2>1. at' = at + 1 /\ at <= Len(format) /\ ~Refused(format[at])
        /\ format' = format /\ result' = result /\ result = "none"
    BY <1>2 DEF Place
  <2>2. \A i \in 1 .. at' - 1 : i \in 1 .. at - 1 \/ i = at
    BY <1>1, <2>1
  <2>3. RangesSoFar'
    BY <1>1, <2>1, <2>2 DEF FormatInv, RangesSoFar, Refused, BitsNum
  <2> QED
    BY <1>2, <2>3, PlaceTypes, PlaceDeposits DEF FormatInv
<1>3. CASE Refuse \/ Return
  <2>1. UNCHANGED <<format, value, at, remaining, formatted>>
    BY <1>3 DEF Refuse, Return
  <2>2. TypeOK'
    BY <1>3, <2>1 DEF FormatInv, TypeOK, Refuse, Return
  <2>3. RangesSoFar'
    BY <1>1, <1>3, <2>1 DEF FormatInv, RangesSoFar, Refuse, Return, Refused, BitsNum
  <2>4. Deposited'
    BY <2>1 DEF FormatInv, Deposited, Deposit, PlacedIn, PositionIn, Taken, Length
  <2> QED
    BY <2>2, <2>3, <2>4 DEF FormatInv
<1>4. CASE UNCHANGED vars
  <2>1. UNCHANGED <<format, value, at, remaining, formatted, result>>
    BY <1>4 DEF vars
  <2>2. Deposited'
    BY <2>1 DEF FormatInv, Deposited, Deposit, PlacedIn, PositionIn, Taken, Length
  <2>3. TypeOK' /\ RangesSoFar'
    BY <2>1 DEF FormatInv, TypeOK, RangesSoFar, Refused, BitsNum
  <2> QED
    BY <2>2, <2>3 DEF FormatInv
<1> QED
  BY <1>2, <1>3, <1>4 DEF Next

LEMMA FormatInvariance == Spec => []FormatInv
BY FormatInit, FormatStep, PTL DEF Spec

\* After each range the bits that belong to the ranges so far sit where the
\* reference puts them, and the others remain, for every list of ranges,
\* overlapping ones and ones beyond the word included (transformer.go:332).
THEOREM BitsDeposited == Spec => []Deposited
<1>1. FormatInv => Deposited
  BY DEF FormatInv
<1> QED
  BY <1>1, FormatInvariance, PTL

\* A range is refused when it is not in a word.
LEMMA RefusedNotInWord ==
  ASSUME NEW r \in BitFormat
  PROVE  Refused(r) <=> ~InWord(r)
<1>1. r.start \in Nat /\ r.end \in Nat /\ r.end < TwoTo[Width]
  BY WidthFacts DEF BitFormat, Numbers
<1>2. CASE ~Refused(r)
  BY <1>1, <1>2, BitsNumIsLength DEF InWord, Refused
<1>3. CASE Refused(r) /\ r.start <= r.end
  <2> DEFINE n == r.end - r.start + 1
             m == TwoTo[Width]
  <2>1. n \in Nat /\ m \in Nat /\ 0 < n /\ n <= m /\ Width \in Nat
        /\ (n = m <=> r.start = 0 /\ r.end = m - 1)
    BY <1>1, <1>3, WidthFacts
  <2>2. n % m > Width
    BY <1>1, <1>3 DEF Refused, BitsNum, Wrap
  <2>3. n # m
    <3> HIDE DEF n, m
    <3>1. m % m = 0
      BY <2>1
    <3> QED
      BY <2>1, <2>2, <3>1
  <2>4. n % m = n
    <3> HIDE DEF n, m
    <3> QED
      BY <2>1, <2>3
  <2>5. Length(r) = n
    BY <2>1, <2>3 DEF Length
  <2> QED
    BY <1>3, <2>1, <2>2, <2>4, <2>5 DEF InWord
<1>4. CASE ~(r.start <= r.end)
  BY <1>1, <1>4 DEF Refused, InWord
<1> QED
  BY <1>2, <1>3, <1>4

\* formatValue fails exactly for a list with a range that runs backwards or has
\* more positions than a word; bitsNum wraps, but the range of all numbers is
\* the only one that passes because of it (transformer.go:358-364).
THEOREM RefusedWhenNotInWord == Spec => []OnlyInWord
<1>1. FormatInv => OnlyInWord
  <2> SUFFICES ASSUME FormatInv PROVE OnlyInWord
    OBVIOUS
  <2>1. DOMAIN format = 1 .. Len(format) /\ Len(format) \in Nat /\ at \in Nat /\ at >= 1
    <3>1. PICK n \in 1 .. MaxRanges : format \in [1 .. n -> BitFormat]
      BY DEF FormatInv, TypeOK, Formats
    <3>2. n \in Nat /\ Len(format) = n
      BY <3>1, FormatAssumption
    <3> QED
      BY <3>1, <3>2, FormatAssumption DEF FormatInv, TypeOK
  <2>2. \A i \in DOMAIN format : Refused(format[i]) <=> ~InWord(format[i])
    BY <2>1, FormatFacts, RefusedNotInWord DEF FormatInv, TypeOK
  <2>3. result = "ok" => \A i \in DOMAIN format : ~Refused(format[i])
    BY <2>1 DEF FormatInv, RangesSoFar
  <2>4. result = "error" => at \in DOMAIN format /\ Refused(format[at])
    BY <2>1 DEF FormatInv, RangesSoFar
  <2> QED
    BY <2>2, <2>3, <2>4 DEF OnlyInWord
<1> QED
  BY <1>1, FormatInvariance, PTL
-----------------------------------------------------------------------------
\* With a kernel's format no range is refused, and each has all its bits.
LEMMA WellFormedRanges ==
  ASSUME FormatInv, WellFormed, NEW i \in 1 .. Len(format)
  PROVE  /\ ~Refused(format[i])
         /\ format[i].start \in Nat /\ format[i].end \in Nat
         /\ format[i].start <= format[i].end /\ format[i].end < Width
         /\ Length(format[i]) = format[i].end - format[i].start + 1
         /\ Taken[i - 1] \in Int /\ Taken[i] = Taken[i - 1] + Length(format[i])
<1> DEFINE r == format[i]
           n == r.end - r.start + 1
           m == TwoTo[Width]
<1>1. /\ Len(format) \in Nat /\ i \in DOMAIN format
      /\ r.start \in Nat /\ r.end \in Nat /\ r.start <= r.end /\ r.end < Width
  <2>1. PICK k \in 1 .. MaxRanges : format \in [1 .. k -> BitFormat]
    BY DEF FormatInv, TypeOK, Formats
  <2>2. k \in Nat /\ Len(format) = k
    BY <2>1, FormatAssumption
  <2> QED
    BY <2>1, <2>2, FormatFacts DEF FormatInv, TypeOK, WellFormed
<1>2. n \in Nat /\ m \in Nat /\ n <= Width /\ n < m /\ Width \in Nat /\ ~(r.start = 0 /\ r.end = m - 1)
  BY <1>1, WidthFacts
<1>3. n % m = n
  <2> HIDE DEF n, m
  <2> QED
    BY <1>2
<1>4. ~Refused(r) /\ Length(r) = n
  BY <1>1, <1>2, <1>3 DEF Refused, BitsNum, Wrap, Length
<1>5. Taken[i - 1] \in Int /\ Taken[i] = Taken[i - 1] + Length(r)
  BY <1>1, TakenFacts DEF FormatInv, TypeOK
<1> QED
  BY <1>1, <1>4, <1>5

\* The ranges take more and more bits.
LEMMA TakenGrows ==
  ASSUME FormatInv, WellFormed, NEW i \in 0 .. Len(format), NEW j \in i .. Len(format)
  PROVE  Taken[i] <= Taken[j] /\ Taken[i] \in Int /\ Taken[j] \in Int
<1> DEFINE L == Len(format)
           S == {n \in Nat : i + n <= L => Taken[i] <= Taken[i + n]}
<1>1. L \in Nat /\ \A n \in 0 .. L : Taken[n] \in Int
  BY FormatFacts, TakenFacts DEF FormatInv, TypeOK
<1> HIDE DEF L
<1>2. i \in 0 .. L /\ j \in i .. L
  BY DEF L
<1>3. 0 \in S
  BY <1>1, <1>2
<1>4. ASSUME NEW n \in Nat, n \in S
      PROVE  n + 1 \in S
  <2> SUFFICES ASSUME i + (n + 1) <= L PROVE Taken[i] <= Taken[i + (n + 1)]
    OBVIOUS
  <2> DEFINE k == i + (n + 1)
  <2>1. k \in 1 .. L /\ k - 1 = i + n /\ i + n \in 0 .. L
    BY <1>1, <1>2
  <2>2. Taken[k] = Taken[k - 1] + Length(format[k]) /\ Length(format[k]) \in Nat
    <3>1. k \in 1 .. Len(format)
      BY <2>1 DEF L
    <3> HIDE DEF k
    <3>2. /\ Taken[k] = Taken[k - 1] + Length(format[k])
          /\ Length(format[k]) = format[k].end - format[k].start + 1
          /\ format[k].start \in Nat /\ format[k].end \in Nat /\ format[k].start <= format[k].end
      BY <3>1, WellFormedRanges
    <3> QED
      BY <3>2
  <2>3. Taken[i] <= Taken[i + n]
    BY <1>1, <1>4, <2>1
  <2> HIDE DEF k
  <2>4. Taken[i] <= Taken[k]
    BY <1>1, <1>2, <2>1, <2>2, <2>3
  <2> QED
    BY <2>4 DEF k
<1>5. \A n \in Nat : n \in S
  <2> HIDE DEF S
  <2> QED
    BY <1>3, <1>4, Induct
<1>6. j - i \in Nat /\ i + (j - i) = j
  BY <1>1, <1>2
<1>7. j - i \in S
  BY <1>5, <1>6
<1> QED
  BY <1>1, <1>2, <1>6, <1>7

\* A bit lies in the range that takes it.
LEMMA PositionInRange ==
  ASSUME FormatInv, WellFormed, NEW i \in 1 .. Len(format), NEW k \in value, PlacedIn(i, k)
  PROVE  /\ PositionIn(i, k) \in Bits
         /\ format[i].start <= PositionIn(i, k) /\ PositionIn(i, k) <= format[i].end
         /\ k = PositionIn(i, k) - format[i].start + Taken[i - 1]
<1>1. k \in Nat /\ Width \in Nat
  BY WidthFacts DEF FormatInv, TypeOK, Word, Bits
<1>2. Taken[i - 1] <= k /\ k < Taken[i]
  BY DEF PlacedIn
<1>3. /\ format[i].start \in Nat /\ format[i].end \in Nat
      /\ format[i].start <= format[i].end /\ format[i].end < Width
      /\ Taken[i - 1] \in Int /\ Taken[i] = Taken[i - 1] + (format[i].end - format[i].start + 1)
  BY WellFormedRanges
<1> DEFINE s == format[i].start
           e == format[i].end
           T == Taken[i - 1]
<1>4. PositionIn(i, k) = s + k - T
  BY DEF PositionIn
<1>5. /\ s \in Nat /\ e \in Nat /\ e < Width /\ T \in Int
      /\ T <= k /\ k < T + (e - s + 1)
  BY <1>2, <1>3
<1> HIDE DEF s, e, T
<1>6. /\ s + k - T \in Bits /\ s <= s + k - T /\ s + k - T <= e
      /\ k = (s + k - T) - s + T
  BY <1>1, <1>5 DEF Bits
<1> QED
  BY <1>4, <1>6 DEF s, e, T

\* Each bit of a value that fits has a range that takes it.
LEMMA TakenBySome ==
  ASSUME FormatInv, WellFormed, NEW k \in value, k < Taken[Len(format)]
  PROVE  \E i \in 1 .. Len(format) : PlacedIn(i, k)
<1> DEFINE L == Len(format)
           S == {i \in Nat : i <= L /\ k < Taken[i]}
<1>1. L \in Nat /\ k \in Nat /\ Taken[0] = 0 /\ \A n \in 0 .. L : Taken[n] \in Int
  BY FormatFacts, TakenFacts DEF FormatInv, TypeOK, Word, Bits
<1>2. L \in S
  BY <1>1
<1>3. PICK m \in S : \A n \in S : m <= n
  <2> HIDE DEF S
  <2> SUFFICES ASSUME S \in SUBSET Nat, S # {} PROVE \E m \in S : \A n \in S : m <= n
    BY <1>2 DEF S
  <2> QED
    BY LeastNat
<1>4. m # 0 /\ m - 1 \notin S
  BY <1>1, <1>3
<1>5. m \in 1 .. L /\ Taken[m - 1] <= k /\ k < Taken[m]
  BY <1>1, <1>3, <1>4
<1> QED
  BY <1>5 DEF PlacedIn

\* No two bits come to the same position, and no bit to two.
LEMMA ApartWhenPlaced ==
  ASSUME FormatInv, WellFormed, NEW i \in 1 .. Len(format), NEW j \in 1 .. Len(format),
         NEW k \in value, NEW l \in value, PlacedIn(i, k), PlacedIn(j, l),
         k = l \/ PositionIn(i, k) = PositionIn(j, l)
  PROVE  i = j /\ k = l
<1>1. /\ k \in Nat /\ l \in Nat
      /\ Len(format) \in Nat
  BY FormatFacts DEF FormatInv, TypeOK, Word, Bits
<1>2. ASSUME NEW a \in 1 .. Len(format), NEW b \in 1 .. Len(format), a < b,
             NEW x \in value, NEW y \in value, PlacedIn(a, x), PlacedIn(b, y)
      PROVE  x # y
  <2>1. a \in 0 .. Len(format) /\ b - 1 \in a .. Len(format)
    BY <1>1, <1>2
  <2>2. Taken[a] <= Taken[b - 1] /\ Taken[a] \in Int /\ Taken[b - 1] \in Int
    BY <2>1, TakenGrows
  <2>3. x < Taken[a] /\ Taken[b - 1] <= y /\ x \in Nat /\ y \in Nat
    BY <1>2 DEF PlacedIn, FormatInv, TypeOK, Word, Bits
  <2> QED
    BY <2>2, <2>3
<1>3. /\ format[i].start <= PositionIn(i, k) /\ PositionIn(i, k) <= format[i].end
      /\ format[j].start <= PositionIn(j, l) /\ PositionIn(j, l) <= format[j].end
      /\ PositionIn(i, k) \in Int /\ PositionIn(j, l) \in Int
  BY PositionInRange DEF Bits
<1>4. /\ format[i].start \in Nat /\ format[i].end \in Nat
      /\ format[j].start \in Nat /\ format[j].end \in Nat
  BY WellFormedRanges
<1>5. i = j
  <2>1. CASE k = l
    <3>1. ~(i < j) /\ ~(j < i)
      BY <1>2, <2>1
    <3> QED
      BY <1>1, <3>1
  <2>2. CASE PositionIn(i, k) = PositionIn(j, l)
    <3>1. i \in DOMAIN format /\ j \in DOMAIN format
      <4>1. PICK n \in 1 .. MaxRanges : format \in [1 .. n -> BitFormat]
        BY DEF FormatInv, TypeOK, Formats
      <4>2. n \in Nat /\ Len(format) = n
        BY <4>1, FormatAssumption
      <4> QED
        BY <4>1, <4>2
    <3>2. i # j => format[i].end < format[j].start \/ format[j].end < format[i].start
      BY <3>1 DEF WellFormed
    <3> QED
      BY <1>3, <1>4, <2>2, <3>2
  <2> QED
    BY <2>1, <2>2
<1>6. CASE k = l
  BY <1>5, <1>6
<1>7. CASE PositionIn(i, k) = PositionIn(j, l)
  BY <1>5, <1>7, PositionInRange
<1> QED
  BY <1>5, <1>6, <1>7

\* A value that fits has as many bits as have been placed.
LEMMA AllBitsPlaced ==
  ASSUME FormatInv, WellFormed, at - 1 = Len(format), \A k \in value : k < Taken[Len(format)]
  PROVE  Cardinality(formatted) = Cardinality(value)
<1> DEFINE L == Len(format)
           In(k) == CHOOSE i \in 1 .. L : PlacedIn(i, k)
           F == [k \in value |-> PositionIn(In(k), k)]
<1>1. formatted = {p \in Bits : \E i \in 1 .. L, k \in value : PlacedIn(i, k) /\ p = PositionIn(i, k)}
  BY DEF FormatInv, Deposited, Deposit
<1>2. \A k \in value : In(k) \in 1 .. L /\ PlacedIn(In(k), k)
  BY TakenBySome
<1> HIDE DEF In
<1>3. \A k \in value : F[k] \in Bits
  BY <1>2, PositionInRange
<1>4. F \in [value -> formatted]
  BY <1>1, <1>2, <1>3
<1>5. \A k, l \in value : F[k] = F[l] => k = l
  BY <1>2, ApartWhenPlaced
<1>6. \A p \in formatted : \E k \in value : F[k] = p
  <2> TAKE p \in formatted
  <2>1. PICK i \in 1 .. L, k \in value : PlacedIn(i, k) /\ p = PositionIn(i, k)
    BY <1>1
  <2>2. In(k) = i
    BY <1>2, <2>1, ApartWhenPlaced
  <2> QED
    BY <2>1, <2>2
<1>7. IsFiniteSet(value)
  <2>1. IsFiniteSet(0 .. (Width - 1))
    <3>1. 0 \in Int /\ Width - 1 \in Int
      BY WidthFacts
    <3> QED
      BY <3>1, FS_Interval, Zenon
  <2> QED
    BY <2>1, FS_Subset DEF FormatInv, TypeOK, Word, Bits
<1>8. ExistsBijection(value, formatted)
  <2> HIDE DEF F
  <2>1. F \in Bijection(value, formatted)
    BY <1>4, <1>5, <1>6 DEF Bijection, Injection, Surjection, IsInjective
  <2> QED
    BY <2>1 DEF ExistsBijection
<1> QED
  BY <1>7, <1>8, FS_Bijection

\* With the ranges of a kernel's format file every value is accepted, a value
\* that fits keeps its bits, and none is set that is not of a range
\* (transformer.go:327 and 345).
THEOREM FormatIsLossless == Spec => []Lossless
<1>1. FormatInv => Lossless
  <2> SUFFICES ASSUME FormatInv, WellFormed
               PROVE  /\ result # "error"
                      /\ \A b \in formatted : \E i \in DOMAIN format :
                           format[i].start <= b /\ b <= format[i].end
                      /\ result = "ok" /\ (\A k \in value : k < Taken[Len(format)])
                           => Cardinality(formatted) = Cardinality(value)
    BY DEF Lossless
  <2>1. Len(format) \in Nat /\ at \in Nat /\ at >= 1 /\ DOMAIN format = 1 .. Len(format)
    <3>1. PICK n \in 1 .. MaxRanges : format \in [1 .. n -> BitFormat]
      BY DEF FormatInv, TypeOK, Formats
    <3>2. n \in Nat /\ Len(format) = n
      BY <3>1, FormatAssumption
    <3> QED
      BY <3>1, <3>2, FormatAssumption DEF FormatInv, TypeOK
  <2>2. result # "error"
    <3>1. result = "error" => at \in 1 .. Len(format) /\ Refused(format[at])
      BY <2>1 DEF FormatInv, RangesSoFar
    <3> QED
      BY <3>1, WellFormedRanges
  <2>3. ASSUME NEW b \in formatted
        PROVE  \E i \in DOMAIN format : format[i].start <= b /\ b <= format[i].end
    <3>1. PICK i \in 1 .. at - 1, k \in value : PlacedIn(i, k) /\ b = PositionIn(i, k)
      BY DEF FormatInv, Deposited, Deposit
    <3>2. i \in 1 .. Len(format)
      BY <2>1 DEF FormatInv, RangesSoFar
    <3> QED
      BY <2>1, <3>1, <3>2, PositionInRange
  <2>4. ASSUME result = "ok", \A k \in value : k < Taken[Len(format)]
        PROVE  Cardinality(formatted) = Cardinality(value)
    <3>1. at - 1 = Len(format)
      BY <2>1, <2>4 DEF FormatInv, RangesSoFar
    <3> QED
      BY <2>4, <3>1, AllBitsPlaced
  <2> QED
    BY <2>2, <2>3, <2>4
<1> QED
  BY <1>1, FormatInvariance, PTL
=============================================================================
