SPECIFICATION Spec
PROPERTIES KeptValues
CONSTANTS
  DescAddr = {1,2,3,4,5,6,7,8}
  StoreAddr = {11,12,13,14,15,16}
  Cell = {a, y}
  Var = {a}
  Scalar = {small, large}
  Undef = Undef
  Nil = Nil
  Trims = {1}
  MaxLen = 3
  Spare = 1
  RcMod = 16
  Programs <- FlexibleSwept
  a = a
  y = y
  small = small
  large = large
