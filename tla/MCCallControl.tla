---------------------------- MODULE MCCallControl ----------------------------
(* Programs for CallControl.  The particular program has a block with label A, where every
   routine but r is declared; p's text has the block with label B, where r is, and that of v, which has a plain entry
   point, one with label C. *)
EXTENDS CallControl

CONSTANTS Extra,   \* what is added to the program: "nothing", "events", "recursion"
          fns      \* the routines there are, besides the particular program

MCFn == {"main"} \cup fns
MCLabel == {"A"} \cup (IF "p" \in fns THEN {"B"} ELSE {}) \cup (IF "v" \in fns THEN {"C"} ELSE {})
MCLabelFn == [l \in MCLabel |-> CASE l = "A" -> "main" [] l = "B" -> "p" [] l = "C" -> "v"]
MCDeclIn == [f \in MCFn |-> IF f = "r" THEN "B" ELSE "A"]

Says(cs, ps, es, ls, parm) ==
  [calls |-> cs \cap fns, passes |-> ps \cap fns, events |-> es \cap fns,
   gotos |-> ls \cap MCLabel, param |-> parm]

(* A routine with a label does not come to run again inside itself, and a routine without
   jumps reads no file whose event routine jumps: what is added shows why. *)
MCText == [f \in MCFn |->
  CASE f = "main" -> Says({"p", "q", "s", "t", "v"}, {"q", "s"}, {"q", "t"}, {"A"}, FALSE)
    [] f = "p" -> Says(IF Extra = "recursion" THEN {"p", "r"} ELSE {"q", "r", "s"}, {"q", "r"},
                       {"q", "r"}, {"B"}, TRUE)
    [] f = "q" -> Says({}, {}, {}, {"A"}, TRUE)
    [] f = "r" -> Says({"r", "t"}, {}, {}, {"A", "B"}, FALSE)
    [] f = "s" -> Says({}, {}, {}, {"A"}, FALSE)
    [] f = "t" -> Says({"t"}, {}, IF Extra = "events" THEN {"q"} ELSE {"t"}, {}, FALSE)
    [] f = "u" -> Says({"s", "t"}, {}, {}, {}, FALSE)
    [] f = "v" -> Says({"u"}, {}, {"q"}, {"C"}, FALSE)]

MCPlainFn == fns \cap {"s", "t", "u", "v"}

ASSUME Supposed == Extra = "nothing" => NoReentry /\ EventsJumpFree
ASSUME NotSupposed ==
  /\ Extra = "recursion" => ~NoReentry
  /\ Extra = "events" => ~EventsJumpFree
=============================================================================
