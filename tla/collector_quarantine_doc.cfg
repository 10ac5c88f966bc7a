SPECIFICATION FairSpec
CONSTANTS
  Addr = {a1, a2}
  Nil = Nil
  Field = {1}
  StackIx = {1}
  SavedIx = {1}
  FileIx = {}
  AllocKind = {"SLOTS", "FRAME"}
  GcOff = FALSE
  GcStress = FALSE
  GcVerify = TRUE
  MinBetween = 0
  HeapLimit = 1
  MaxHeld = 2
  MaxNative = 2
PROPERTIES CheckedEachTime
CHECK_DEADLOCK FALSE
