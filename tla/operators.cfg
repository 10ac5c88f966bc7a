SPECIFICATION Spec
CONSTANTS
  LimbBits = 4
  Chunk = 1
  LongDigits <- MCLongDigits
  Width <- MCWidth
  WB = 4
  MaxChar = 7
  Radix = 6
  MpDigits <- MCMpDigits
  MaxExpo = 4
  Oflow = 2
  Literals <- MCLiterals
  Formulas = 2
INVARIANTS PathsAgree NumbersCanonical RealsNormal OverExact DecimalRoundTrip
PROPERTIES ImplementsArithmetic
CHECK_DEADLOCK FALSE
