CONSTANTS
  Fn <- MCFn
  Main = "main"
  Prelude = "prelude"
  Label <- MCLabel
  LabelFn <- MCLabelFn
  DeclIn <- MCDeclIn
  Text <- MCText
  PlainFn <- MCPlainFn
  NoArg = NoArg
  MaxActs = 5
  MaxOps = 1
  Extra = "recursion"
  fns = {"p", "r"}
SPECIFICATION Spec
PROPERTY ImplementsEval
