CONSTANTS
  Fn <- MCFn
  Main = "main"
  Prelude = "prelude"
  Label <- MCLabel
  LabelFn <- MCLabelFn
  DeclIn <- MCDeclIn
  Text <- MCText
  PlainFn <- MCPlainFn
  NoArg = NoArg
  MaxActs = 4
  MaxOps = 1
  Extra = "events"
  fns = {"q", "t"}
SPECIFICATION Spec
INVARIANT NothingWhilePending
