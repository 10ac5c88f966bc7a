SPECIFICATION Spec
CONSTANTS
  LongLongRealWidth = 70
  RealWidth = 4
  ExpWidth = 1
  IntWidth = 3
  None = None
  BitsWidth = 4
  Scripts <- MCScripts
CHECK_DEADLOCK FALSE
INVARIANT ReadBack
PROPERTY TextFollowed
