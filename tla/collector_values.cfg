SPECIFICATION Spec
CONSTANTS
  Addr = {a1, a2, a3}
  Nil = Nil
  Field = {1}
  StackIx = {1}
  SavedIx = {}
  FileIx = {1}
  AllocKind = {"SLOTS", "LEAF", "ROWD"}
  GcOff = FALSE
  GcStress = TRUE
  GcVerify = FALSE
  MinBetween = 0
  HeapLimit = 0
  MaxHeld = 2
  MaxNative = 0
SYMMETRY AddrSymmetry
CONSTRAINT Bounds
INVARIANTS TypeOK NoDangling MarksClear ListedOnce SweepExact NothingHeldAtMark
PROPERTY KeepsPromise
