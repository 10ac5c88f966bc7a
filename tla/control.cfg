CONSTANTS
  Fn <- MCFn
  Main = "main"
  Prelude = "prelude"
  Label <- MCLabel
  LabelFn <- MCLabelFn
  DeclIn <- MCDeclIn
  Text <- MCText
  PlainFn <- MCPlainFn
  NoArg = NoArg
  MaxActs = 5
  MaxOps = 1
  Extra = "nothing"
  fns = {"p", "q", "r", "s", "t", "u", "v"}
SPECIFICATION Spec
INVARIANT TypeOK NothingWhilePending CatchesNested
PROPERTY ImplementsEval JumpLands
