\* Words of three bits: every value, and every list of up to two ranges of
\* numbers up to 7, reversed ones and ones beyond the word included.
\* formatValue ends, so the end is no deadlock.
CONSTANTS
  Width = 3
  MaxRanges = 2
SPECIFICATION Spec
INVARIANTS
  Deposited
  OnlyInWord
  Lossless
CHECK_DEADLOCK FALSE
