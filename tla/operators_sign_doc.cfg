SPECIFICATION Spec
CONSTANTS
  LimbBits = 4
  Chunk = 1
  LongDigits <- MCLongDigits
  Width <- MCWidth
  WB = 4
  MaxChar = 7
  Radix = 6
  MpDigits <- MCMpDigits
  MaxExpo = 4
  Oflow = 2
  Literals <- MCLiterals
  Formulas = 1
INVARIANTS OnlyFirstSigned
CHECK_DEADLOCK FALSE
