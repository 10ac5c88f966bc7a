------------------------------ MODULE RowValues ------------------------------
(***************************************************************************)
(* What rows are to a program: the evaluator's semantics (A68/Interp.lean, *)
(* readPath, updatePath, assignTo, sliceValue, appendInPlace).  A row is a *)
(* sequence of elements, an element a scalar or a row.  A cell holds a     *)
(* row; the operand stack holds rows and names of parts of a variable.     *)
(* A step changes the one variable it writes.  The runtime parts from the  *)
(* evaluator in one thing, which is stated here: a row read from a cell is *)
(* lent.  While it waits on the operand stack it may follow what is        *)
(* written in the variables whose elements it shows, until it parts from   *)
(* them.  Module RowStore, the C runtime, implements this one.             *)
(***************************************************************************)
EXTENDS Integers, Sequences

CONSTANTS
  Cell,    \* the cells of the program's frame
  Scalar,  \* elements that are not rows, the undefined one included
  Literal, \* rows of scalars that displays make
  Unset,   \* what a cell holds before it is bound
  MaxLen   \* bound: the longest row

VARIABLES
  val,   \* what each cell holds
  ops    \* the operand stack: [k |-> "row", v |-> row], [k |-> "lent", v |-> row,
         \* of |-> places], [k |-> "name", c |-> cell, off |-> elements skipped, n |-> length]

vars == <<val, ops>>

Row(v)  == [k |-> "row", v |-> v]
Top     == ops[Len(ops)]
TopRow  == Len(ops) > 0 /\ Top.k \in {"row", "lent"}
Rest    == SubSeq(ops, 1, Len(ops) - 1)
SubRow(v, off, n) == SubSeq(v, off + 1, off + n)

(* updatePath with a Sel.sub: the elements after off become those of w *)
Updated(v, off, w) ==
  [i \in 1 .. Len(v) |-> IF i \in off + 1 .. off + Len(w) THEN w[i - off] ELSE v[i]]

(* A place of a lent row: its element j is element j + at of the variable c, or of the row that is
   element i of c. *)
Place(w, q) == IF q.i = 0 THEN w[q.c] ELSE IF q.i \in DOMAIN w[q.c] THEN w[q.c][q.i] ELSE <<>>
Shows(w, q, v, j) == j + q.at \in DOMAIN Place(w, q) /\ Place(w, q)[j + q.at] = v[j]
Agrees(w, o) ==
  \A q \in o.of, j \in DOMAIN o.v : j + q.at \in DOMAIN Place(w, q) => Shows(w, q, o.v, j)

(* a waiting operand before and after a write of c: a lent row keeps an element, or takes the one
   that a place of it in c has now *)
Follows(o, p, c) ==
  \/ p = o
  \/ /\ o.k = "lent" /\ p.k = "lent" /\ DOMAIN p.v = DOMAIN o.v
     /\ \A j \in DOMAIN o.v :
          p.v[j] = o.v[j] \/ \E q \in o.of : q.c = c /\ Shows(val', q, p.v, j)
     /\ \A q \in p.of \ o.of : q.c = c
     /\ Agrees(val', p)
Waiting(n, c) == Len(ops') = n /\ \A k \in 1 .. n : Follows(ops[k], ops'[k], c)

Init == val = [c \in Cell |-> Unset] /\ ops = <<>>

Pushed == ops'[Len(ops')]            \* the operand a step leaves on top
Push(v) == ops' = Append(ops, Row(v))
Lend(v) == /\ Len(ops') > Len(ops) /\ Pushed.k = "lent" /\ ops' = Append(ops, Pushed)
           /\ Pushed.v = v /\ Agrees(val, Pushed)

\* steps that change no variable
Display == Len(ops') > Len(ops) /\ Pushed.k = "row" /\ Pushed.v \in Literal /\ Push(Pushed.v)
Collateral == TopRow /\ ops' = Append(Rest, Row(<<Top.v>>))
PushCell(c) == val[c] # Unset /\ Lend(val[c])
PushElem(c, i) == val[c] # Unset /\ i \in DOMAIN val[c] /\ Lend(val[c][i])
SliceName ==
  /\ Len(ops') > Len(ops) /\ Pushed.k = "name" /\ ops' = Append(ops, Pushed)
  /\ Pushed.c \in Cell /\ val[Pushed.c] # Unset /\ Pushed.off + Pushed.n <= Len(val[Pushed.c])
SliceValue(off, n) == /\ TopRow /\ off + n <= Len(Top.v)
                      /\ ops' = Append(Rest, Row(SubRow(Top.v, off, n)))
Deref == /\ Len(ops) > 0 /\ Top.k = "name"
         /\ ops' = Append(Rest, Row(SubRow(val[Top.c], Top.off, Top.n)))
Pop == ops # <<>> /\ ops' = Rest

\* steps that write one: what c holds then, and how many operands are left
Bind(c) == TopRow /\ val'[c] = Top.v /\ Waiting(Len(ops) - 1, c)
AssignName(c) ==
  LET d == ops[Len(ops) - 1]
  IN /\ TopRow /\ Len(ops) > 1 /\ d.k = "name" /\ d.c = c /\ d.n = Len(Top.v)
     /\ val'[c] = Updated(val[c], d.off, Top.v)
     /\ Waiting(Len(ops) - 2, c)
SetElem(c, i) ==
  /\ val'[c][i] \in Scalar /\ val'[c] = [val[c] EXCEPT ![i] = val'[c][i]]
  /\ Waiting(Len(ops), c)
AssignElem(c, i) ==
  /\ TopRow /\ val'[c] = [val[c] EXCEPT ![i] = Top.v]
  /\ Waiting(Len(ops) - 1, c)
AppendOne(c, x) == val'[c] = Append(val[c], x) /\ Waiting(Len(ops), c)

Reads ==
  \/ Pop \/ Display \/ SliceName \/ Deref \/ Collateral
  \/ \E c \in Cell : PushCell(c) \/ \E i \in 1 .. MaxLen : PushElem(c, i)
  \/ \E off, n \in 0 .. MaxLen : SliceValue(off, n)
Changes(c) ==
  \/ \E x \in Scalar : AppendOne(c, x)
  \/ AssignName(c)
  \/ \E i \in DOMAIN val[c] : i \in DOMAIN val'[c] /\ (SetElem(c, i) \/ AssignElem(c, i))
Writes ==
  \E c \in Cell : /\ \A b \in Cell \ {c} : val'[b] = val[b]
                  /\ Bind(c) \/ (val[c] # Unset /\ Changes(c))

Next == (UNCHANGED val /\ Reads) \/ Writes

Spec == Init /\ [][Next]_vars
=============================================================================
