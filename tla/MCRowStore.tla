----------------------------- MODULE MCRowStore -----------------------------
(* RowStore on small instances: the programs of the runs. *)
EXTENDS RowStore

CONSTANTS a, y,         \* a variable and an identity
          small, large  \* an element a leaf can hold, and one it cannot

Declares == {"display", "bind_cell", "sweep"}
Program == [flex |-> {}, nested |-> {}, wide |-> {large}, literals |-> {<<small, small>>},
            ops |-> {}, len |-> 2, sp |-> 1, descs |-> 4, stores |-> 4]

\* a variable of fixed bounds and names of its parts
Fixed == [Program EXCEPT !.literals = {<<large, small>>}, !.sp = 2, !.stores = 3,
                         !.ops = Declares \cup {"slice_name", "deref"}]
\* a string that grows in place
Grows == [Program EXCEPT !.flex = {a}, !.literals = {<<small>>}, !.len = 3, !.descs = 3, !.stores = 3,
                         !.ops = Declares \cup {"append", "push_cell", "set_elem"}]
\* a row of rows
RowOfRows == [Program EXCEPT !.nested = {a}, !.wide = {}, !.literals = {<<small>>, <<large>>}, !.len = 1, !.descs = 5, !.stores = 3,
                            !.ops = Declares \cup {"row_of", "push_elem", "assign_elem"}]
\* a flexible variable between two collections, assigned while a row waits
Flexible == [Program EXCEPT !.flex = {a}, !.descs = 6, !.stores = 5, !.sp = 2,
                            !.ops = (Declares \ {"sweep"}) \cup {"push_cell", "slice_value", "assign", "append", "set_elem"}]
\* rows lent to the operand stack while their variable, parts of it and its elements are written
Lent == [Program EXCEPT !.literals = {<<small>>, <<large>>}, !.len = 1, !.sp = 3, !.descs = 5,
                        !.ops = (Declares \ {"sweep"}) \cup {"push_cell", "slice_name", "assign", "set_elem"}]
LentElements == [RowOfRows EXCEPT !.sp = 2, !.descs = 8, !.stores = 5, !.ops = @ \ {"sweep"}]
AllPrograms == {Fixed, Grows, RowOfRows, Flexible, Lent, LentElements}

\* the programs of the counterexample
FlexibleSwept == {[Program EXCEPT !.flex = {a}, !.ops = Declares \cup {"push_cell", "assign", "set_elem"}]}
\* put in its place, these show a kept row of rows change with an element of the variable
ElementsKept == {[RowOfRows EXCEPT !.nested = {a, y}, !.descs = 8, !.stores = 6,
                                  !.ops = Declares \cup {"row_of", "push_cell", "assign_elem"}]}
=============================================================================
