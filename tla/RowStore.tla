------------------------------- MODULE RowStore -------------------------------
(***************************************************************************)
(* Rows in the C runtime (csrc/rt.c): descriptors over stores that several *)
(* descriptors may share, copied when a variable writes into a store that  *)
(* another kept value shares.  What is shared is counted (rc), a value on  *)
(* the operand stack may borrow a store uncounted (pad2), and the sweep of *)
(* a collection gives back the shares of dead descriptors.                 *)
(*                                                                         *)
(* Abstractions.  Rows have one dimension and lower bound 1; a leaf holds  *)
(* the scalars outside Wide; rows of rows go no deeper than that.  An      *)
(* entry point is one step (a collection only runs between two, see module *)
(* Collector).  A check that fails ends the program: such steps are left   *)
(* out.  An assignment's result, the name itself, is dropped at once.      *)
(*                                                                         *)
(* A handler changes the heap several times: the operators below take a    *)
(* heap H = [d |-> descriptors, s |-> stores], each a function on the      *)
(* addresses in use, and return the next one.                              *)
(***************************************************************************)
EXTENDS Naturals, Sequences, FiniteSets, Functions, SequencesExt

CONSTANTS
  DescAddr, StoreAddr,  \* addresses of descriptors and of stores
  Cell,                 \* cells of the program's frame, all of row modes
  Var,                  \* those that are variables; the others are identities
  Scalar,               \* elements that are not rows
  Undef,                \* an element without a value
  Nil,                  \* a cell before its declaration
  Trims,                \* the lengths of the slices programs take
  MaxLen,               \* bound: the length of a row
  Spare,                \* room an append leaves beyond what it needs
  RcMod,                \* share counts wrap at RcMod (2^32 in the code)
  Programs              \* the programs: what each declares and does, and its bounds

ASSUME Addresses == /\ DescAddr \subseteq Nat /\ StoreAddr \subseteq Nat
                    /\ IsFiniteSet(DescAddr) /\ IsFiniteSet(StoreAddr)
                    /\ DescAddr \cap StoreAddr = {} /\ Nil \notin DescAddr
ASSUME Cells ==
  Var \subseteq Cell /\ \A p \in Programs : p.flex \subseteq Var /\ p.nested \subseteq Cell
ASSUME Elements ==
  /\ Undef \notin Scalar \cup DescAddr /\ Scalar \cap DescAddr = {}
  /\ \A p \in Programs : p.wide \subseteq Scalar /\ p.literals \subseteq Seq(Scalar)
ASSUME Sizes ==
  /\ MaxLen \in Nat /\ Spare \in Nat /\ RcMod \in Nat /\ RcMod > 1 /\ Trims \subseteq Nat
  /\ \A p \in Programs :
       /\ p.len \in 1 .. MaxLen /\ \A v \in p.literals : Len(v) <= p.len
       /\ p.sp \in Nat
       /\ p.descs \in 0 .. Cardinality(DescAddr) /\ p.stores \in 0 .. Cardinality(StoreAddr)

VARIABLES
  heap,   \* [d |-> [base, off, n, pad2] by address, s |-> [leaf, rc, e] by address]
  cell,   \* the descriptor each cell holds
  stack,  \* the operand stack: rows and names of sub-rows, [k, p]
  prog    \* the program that runs

vars == <<heap, cell, stack, prog>>

Flex     == prog.flex        \* the variables of FLEX modes
Nested   == prog.nested      \* the cells of modes row of rows
Wide     == prog.wide        \* the scalars a leaf cannot hold (a CHAR beyond 255, say)
Literals == prog.literals    \* rows of scalars the program's displays make
Ops      == prog.ops         \* the operations the program uses

Least(S) == CHOOSE x \in S : \A y \in S : x <= y
NextDesc(H)  == Least(DescAddr \ DOMAIN H.d)
NextStore(H) == Least(StoreAddr \ DOMAIN H.s)
IsRow(v) == v \in DescAddr

rowd_owner(H, r) == IF H.d[r].base \in DescAddr THEN H.d[r].base ELSE r
rowd_store(H, r) == H.d[rowd_owner(H, r)].base
rowd_get(H, r, i) == H.s[rowd_store(H, r)].e[H.d[r].off + i]
same_bounds(H, a, b) == H.d[a].n = H.d[b].n
leaf_accepts(v) == ~IsRow(v) /\ v \notin Wide

With(f, x, y) == [z \in DOMAIN f \cup {x} |-> IF z = x THEN y ELSE f[z]]
rowd_alloc(H, d) == [H EXCEPT !.d = With(@, NextDesc(H), d)]
store_alloc(H, st) == [H EXCEPT !.s = With(@, NextStore(H), st)]

(* C's "for i from 1 to n" over a heap *)
ForEach(H, n, body(_, _)) ==
  LET K[i \in 0 .. n] == IF i = 0 THEN H ELSE body(K[i - 1], i) IN K[n]

-----------------------------------------------------------------------------
(* sharing *)

ShareUncounted(H, r) ==                 \* slip: the count is not raised
  rowd_alloc(H, [base |-> rowd_store(H, r), off |-> H.d[r].off, n |-> H.d[r].n, pad2 |-> FALSE])
rowd_share(H, r) ==
  LET st == rowd_store(H, r)
      G  == rowd_alloc(H, [base |-> st, off |-> H.d[r].off, n |-> H.d[r].n, pad2 |-> FALSE])
  IN [G EXCEPT !.s[st].rc = (@ + 1) % RcMod]

rowd_borrow(H, r) ==
  rowd_alloc(H, [base |-> rowd_store(H, r), off |-> H.d[r].off, n |-> H.d[r].n, pad2 |-> TRUE])

(* a borrow that is kept becomes a share *)
Unshared(H, v) == H                     \* slip: kept without being counted
unborrow(H, v) ==
  IF IsRow(v) /\ H.d[v].pad2
  THEN [H EXCEPT !.d[v].pad2 = FALSE, !.s[H.d[v].base].rc = (@ + 1) % RcMod]
  ELSE H

(* a value taken out of a container: the heap after it, and the value *)
copy_value(H, v) ==
  IF IsRow(v) THEN [h |-> rowd_borrow(H, v), v |-> NextDesc(H)] ELSE [h |-> H, v |-> v]

(* a value put into a slot: a row gets a descriptor the slot owns *)
SamePut(H, v) == [h |-> H, v |-> v]     \* slip: the descriptor itself is stored
slot_put(H, v) ==
  IF IsRow(v) THEN [h |-> rowd_share(H, v), v |-> NextDesc(H)] ELSE [h |-> H, v |-> v]

(* store_copy copies the slots as they are: rows in them are then in both stores *)
OwnedAbove2(H, o) ==                    \* slip: an off-by-one in the test
  LET st == H.d[o].base
      G  == store_alloc(H, [H.s[st] EXCEPT !.rc = 1])
  IN IF H.s[st].rc > 2
     THEN [G EXCEPT !.s[st].rc = @ - 1, !.d[o].base = NextStore(H)] ELSE H
OwnTrimmed(H, o) ==                     \* slip: only the variable's own extent is copied
  LET st == H.d[o].base
      G  == store_alloc(H, [H.s[st] EXCEPT !.rc = 1, !.e = SubSeq(@, 1, H.d[o].n)])
  IN IF H.s[st].rc > 1
     THEN [G EXCEPT !.s[st].rc = @ - 1, !.d[o].base = NextStore(H)] ELSE H
own_store(H, o) ==
  LET st == H.d[o].base
      G  == store_alloc(H, [H.s[st] EXCEPT !.rc = 1])
  IN IF H.s[st].rc > 1
     THEN [G EXCEPT !.s[st].rc = @ - 1, !.d[o].base = NextStore(H)] ELSE H

store_set(H, st, i, v) ==
  [(IF H.s[st].leaf THEN H ELSE unborrow(H, v)) EXCEPT !.s[st].e[i] = v]

(* a leaf that cannot hold a value gives way to slots; its own count stays *)
Widen(H, o) ==
  LET G == store_alloc(H, [H.s[H.d[o].base] EXCEPT !.leaf = FALSE, !.rc = 1])
  IN [G EXCEPT !.d[o].base = NextStore(H)]
TooWide(H, o, v) == H.s[H.d[o].base].leaf /\ ~leaf_accepts(v)
Widened(H, o, v) == IF TooWide(H, o, v) THEN Widen(H, o) ELSE H

-----------------------------------------------------------------------------
(* assignment *)

CopyElem(H, src, i, st) ==
  LET x == copy_value(H, rowd_get(H, src, i)) IN store_set(x.h, st, i, x.v)
CopyElems(H, src, n, st) == ForEach(H, n, LAMBDA K, i : CopyElem(K, src, i, st))
row_canonical_copy(H, src) ==
  LET ns == NextStore(H)
      n  == H.d[src].n
      D  == rowd_alloc(H, [base |-> ns, off |-> 0, n |-> n, pad2 |-> FALSE])
      G  == store_alloc(D, [leaf |-> H.s[rowd_store(H, src)].leaf, rc |-> 1,
                            e |-> [i \in 1 .. n |-> Undef]])
  IN CopyElems(G, src, n, ns)

(* the variable's descriptor takes over the copy's store; the copy's own descriptor is
   left to the collector *)
row_replace(H, dst, src) ==
  LET G   == row_canonical_copy(H, src)
      old == G.d[dst].base
  IN [G EXCEPT !.s[old].rc = IF @ > 0 THEN @ - 1 ELSE 0,
               !.d[dst] = [@ EXCEPT !.base = NextStore(H), !.off = 0, !.n = G.d[src].n]]

(* assign_slot on an element: rowd_put, or an assignment when flex is FALSE *)
PutElem(H, st, i, v) ==
  LET old == H.s[st].e[i]
      x   == slot_put(H, v)
  IN IF IsRow(v) /\ IsRow(old) THEN row_replace(H, old, v)
     ELSE [x.h EXCEPT !.s[st].e[i] = x.v]

CopyUnowned(H, dst, src) ==             \* slip: no own_store first
  ForEach(H, H.d[dst].n, LAMBDA K, i :
    [K EXCEPT !.s[rowd_store(K, dst)].e[H.d[dst].off + i] = rowd_get(K, src, i)])
PutCopy(H, st, at, e) ==
  LET x == copy_value(H, e)
  IN IF H.s[st].leaf THEN store_set(H, st, at, e) ELSE PutElem(x.h, st, at, x.v)
CopyElemTo(H, src, i, o, at) ==
  LET e == rowd_get(H, src, i)
      W == Widened(H, o, e)
  IN PutCopy(W, W.d[o].base, at, e)
CopyElemsTo(H, src, n, o, off) ==
  ForEach(H, n, LAMBDA K, i : CopyElemTo(K, src, i, o, off + i))
row_copy_into(H, dst, src) ==
  LET o == rowd_owner(H, dst)
  IN CopyElemsTo(own_store(H, o), src, H.d[dst].n, o, H.d[dst].off)

(* assign_slot on a slot that holds the row dst: the checks are AssignOK *)
AssignOK(H, dst, src, flex) == flex \/ same_bounds(H, dst, src) \/ H.d[dst].n = 0
AssignRow(H, dst, src, flex) ==
  IF ~flex /\ same_bounds(H, dst, src) THEN row_copy_into(H, dst, src)
  ELSE row_replace(H, dst, src)

-----------------------------------------------------------------------------
(* Entry points.  A row popped from the stack is only reachable from the C variables of
   its step, which is over when a collection can run. *)

Row(p)  == [k |-> "row", p |-> p]
Top     == stack[Len(stack)]
TopRow  == Len(stack) > 0 /\ Top.k = "row"
Rest    == SubSeq(stack, 1, Len(stack) - 1)
push(s, x) == Append(s, x)
Room    == Len(stack) < prog.sp

(* the operation is one the program uses, and the addresses for nd descriptors and ns
   stores are free *)
Uses(op, nd, ns) == /\ op \in Ops
                    /\ Cardinality(DOMAIN heap.d) + nd <= prog.descs
                    /\ Cardinality(DOMAIN heap.s) + ns <= prog.stores
OwnNeeds(r) == LET st == heap.s[rowd_store(heap, r)]    \* what a write through r allocates
               IN (IF st.rc > 1 THEN 1 ELSE 0) + (IF st.leaf /\ Wide # {} THEN 1 ELSE 0)
PerElem == IF Nested = {} THEN 0 ELSE prog.len   \* what an assignment allocates for elements

(* what the program's modes guarantee of a row given to a cell, and of two rows: all the
   elements of a store are rows, or none is *)
OfMode(c, r) == \A v \in ToSet(heap.s[rowd_store(heap, r)].e) : IsRow(v) <=> c \in Nested
IsFlat(r) == \A v \in ToSet(heap.s[rowd_store(heap, r)].e) : ~IsRow(v)

NewRow(H, e, leaf) ==
  rowd_alloc(store_alloc(H, [leaf |-> leaf, rc |-> 1, e |-> e]),
             [base |-> NextStore(H), off |-> 0, n |-> Len(e), pad2 |-> FALSE])

(* push_str, collateral of scalars, new_row_of *)
Display(v) ==
  /\ Uses("display", 1, 1) /\ Room
  /\ heap' = NewRow(heap, v, \A i \in DOMAIN v : leaf_accepts(v[i]))
  /\ stack' = push(stack, Row(NextDesc(heap)))
  /\ UNCHANGED <<cell, prog>>

(* row_of: a row of the row on top *)
row_of ==
  /\ Uses("row_of", 1, 1) /\ TopRow
  /\ IsFlat(Top.p)
  /\ heap' = store_set(NewRow(heap, <<Undef>>, FALSE), NextStore(heap), 1, Top.p)
  /\ stack' = push(Rest, Row(NextDesc(heap)))
  /\ UNCHANGED <<cell, prog>>

push_cell(c) ==
  /\ Uses("push_cell", 1, 0) /\ Room /\ cell[c] # Nil
  /\ heap' = rowd_borrow(heap, cell[c])
  /\ stack' = push(stack, Row(NextDesc(heap)))
  /\ UNCHANGED <<cell, prog>>

(* sel_push, and a subscripted slice: an element that is a row *)
push_elem(c, i) ==
  /\ Uses("push_elem", 1, 0) /\ Room /\ cell[c] # Nil
  /\ i <= heap.d[cell[c]].n /\ IsRow(rowd_get(heap, cell[c], i))
  /\ heap' = rowd_borrow(heap, rowd_get(heap, cell[c], i))
  /\ stack' = push(stack, Row(NextDesc(heap)))
  /\ UNCHANGED <<cell, prog>>

slice_name(c, off, n) ==
  /\ Uses("slice_name", 1, 0) /\ Room /\ c \in Var /\ cell[c] # Nil
  /\ off + n <= heap.d[cell[c]].n
  /\ heap' = rowd_alloc(heap, [base |-> cell[c], off |-> heap.d[cell[c]].off + off,
                               n |-> n, pad2 |-> FALSE])
  /\ stack' = push(stack, [k |-> "name", p |-> NextDesc(heap)])
  /\ UNCHANGED <<cell, prog>>

slice_value(off, n) ==
  /\ Uses("slice_value", 1, 0) /\ TopRow
  /\ off + n <= heap.d[Top.p].n
  /\ LET st == rowd_store(heap, Top.p)
         G  == rowd_alloc(heap, [base |-> st, off |-> heap.d[Top.p].off + off,
                                 n |-> n, pad2 |-> FALSE])
     IN heap' = [G EXCEPT !.s[st].rc = (@ + 1) % RcMod]
  /\ stack' = push(Rest, Row(NextDesc(heap)))
  /\ UNCHANGED <<cell, prog>>

deref ==
  /\ Uses("deref", 1, 0) /\ Len(stack) > 0 /\ Top.k = "name"
  /\ heap' = rowd_share(heap, Top.p)
  /\ stack' = push(Rest, Row(NextDesc(heap)))
  /\ UNCHANGED <<cell, prog>>

pop ==
  /\ stack # <<>>
  /\ stack' = Rest
  /\ UNCHANGED <<heap, cell, prog>>

(* store and bind_cell: a variable's declaration, and an identity's, which a loop repeats *)
bind_cell(c) ==
  /\ Uses("bind_cell", 1, 0) /\ TopRow /\ OfMode(c, Top.p)
  /\ c \in Var => cell[c] = Nil
  /\ heap' = slot_put(heap, Top.p).h
  /\ cell' = [cell EXCEPT ![c] = slot_put(heap, Top.p).v]
  /\ stack' = Rest
  /\ UNCHANGED prog

(* assign through the name of a whole variable *)
assign(c) ==
  /\ Uses("assign", 1 + 2 * PerElem, 2 + PerElem) /\ TopRow /\ c \in Var /\ cell[c] # Nil /\ OfMode(c, Top.p)
  /\ AssignOK(heap, cell[c], Top.p, c \in Flex)
  /\ heap' = AssignRow(heap, cell[c], Top.p, c \in Flex)
  /\ stack' = Rest
  /\ UNCHANGED <<cell, prog>>

(* assign through the name of a sub-row *)
assign_name ==
  LET d == stack[Len(stack) - 1]
      s == SubSeq(stack, 1, Len(stack) - 2)
  IN /\ TopRow /\ Len(stack) > 1 /\ d.k = "name"
     /\ Uses("slice_name", 2 * PerElem, OwnNeeds(d.p) + PerElem)
     /\ same_bounds(heap, d.p, Top.p) /\ IsFlat(d.p) = IsFlat(Top.p)
     /\ heap' = row_copy_into(heap, d.p, Top.p)
     /\ stack' = s
     /\ UNCHANGED <<cell, prog>>

(* an element assigned a scalar: assign_ref and store_ref on an element's name *)
set_elem(c, i, x) ==
  LET G == own_store(heap, cell[c])
      W == Widened(G, cell[c], x)
  IN /\ c \in Var /\ cell[c] # Nil /\ Uses("set_elem", 0, OwnNeeds(cell[c]))
     /\ i <= heap.d[cell[c]].n /\ ~IsRow(rowd_get(heap, cell[c], i))
     /\ heap' = store_set(W, W.d[cell[c]].base, W.d[cell[c]].off + i, x)
     /\ UNCHANGED <<cell, stack, prog>>

(* an element that is a row assigned a row *)
assign_elem(c, i) ==
  LET G == own_store(heap, cell[c])
      e == rowd_get(G, cell[c], i)
  IN /\ TopRow /\ c \in Var /\ cell[c] # Nil
     /\ i <= heap.d[cell[c]].n /\ IsRow(rowd_get(heap, cell[c], i)) /\ IsFlat(Top.p)
     /\ LET x == IF c \in Flex \/ ~same_bounds(heap, rowd_get(heap, cell[c], i), Top.p) THEN 1 ELSE 0
        IN Uses("assign_elem", x, x + OwnNeeds(cell[c]) + OwnNeeds(rowd_get(heap, cell[c], i)))
     /\ AssignOK(G, e, Top.p, c \in Flex)
     /\ heap' = AssignRow(G, e, Top.p, c \in Flex)
     /\ stack' = Rest
     /\ UNCHANGED <<cell, prog>>

(* append_in_place of one element; what cannot be extended in place is concatenated and
   assigned (append_fallback) *)
GrowShort(H, r) ==                      \* slip: the last element is not moved
  LET st  == H.d[r].base
      cur == H.d[r].n
      G   == store_alloc(H, [leaf |-> H.s[st].leaf, rc |-> 1,
                             e |-> [i \in 1 .. cur + 1 + Spare |->
                                      IF i < cur THEN H.s[st].e[i] ELSE Undef]])
  IN IF cur + 1 <= Len(H.s[st].e) THEN H
     ELSE [G EXCEPT !.s[st].rc = (@ + RcMod - 1) % RcMod, !.d[r].base = NextStore(H)]
Grow(H, r) ==
  LET st  == H.d[r].base
      cur == H.d[r].n
      G   == store_alloc(H, [leaf |-> H.s[st].leaf, rc |-> 1,
                             e |-> [i \in 1 .. cur + 1 + Spare |->
                                      IF i <= cur THEN H.s[st].e[i] ELSE Undef]])
  IN IF cur + 1 <= Len(H.s[st].e) THEN H
     ELSE [G EXCEPT !.s[st].rc = (@ + RcMod - 1) % RcMod, !.d[r].base = NextStore(H)]

AppendUnwidened(H, r, x) ==             \* slip: no leaf_accepts
  LET G  == Grow(own_store(H, r), r)
      at == H.d[r].n + 1
  IN [store_set(G, G.d[r].base, at, x) EXCEPT !.d[r].n = at]
AppendToCapacity(H, r, x) ==            \* slip: the bound moves to the store's end
  LET G   == Grow(own_store(H, r), r)
      st  == G.d[r].base
  IN [store_set(G, st, H.d[r].n + 1, x) EXCEPT !.d[r].n = Len(G.s[st].e)]
append_in_place(H, r, x) ==
  LET G   == Grow(own_store(H, r), r)
      st  == G.d[r].base
      W   == IF TooWide(G, r, x) THEN [Widen(G, r) EXCEPT !.s[st].rc = (@ + RcMod - 1) % RcMod]
             ELSE G
      at  == H.d[r].n + 1
  IN [store_set(W, W.d[r].base, at, x) EXCEPT !.d[r].n = at]

append_fallback(H, r, x) ==
  LET v == [i \in 1 .. H.d[r].n + 1 |-> IF i <= H.d[r].n THEN rowd_get(H, r, i) ELSE x]
  IN row_replace(NewRow(H, v, \A i \in DOMAIN v : leaf_accepts(v[i])), r, NextDesc(H))

append(c, x) ==
  LET r == cell[c]
  IN /\ c \in Flex \ Nested /\ r # Nil /\ heap.d[r].n < prog.len
     /\ IF heap.d[r].off = 0 THEN Uses("append", 0, OwnNeeds(r) + 1) ELSE Uses("append", 2, 2)
     /\ heap' = IF heap.d[r].off = 0 THEN append_in_place(heap, r, x)
                ELSE append_fallback(heap, r, x)
     /\ UNCHANGED <<cell, stack, prog>>

-----------------------------------------------------------------------------
(* a collection, between two entry points *)

(* the descriptors the roots lead to, through views to their owners *)
RootDescs == {cell[c] : c \in {b \in Cell : cell[b] # Nil}}
             \cup {stack[i].p : i \in DOMAIN stack}
             \cup {rowd_owner(heap, stack[i].p) : i \in DOMAIN stack}
ElemDescs(D) == {r \in DescAddr : \E d \in D : r \in ToSet(heap.s[rowd_store(heap, d)].e)}
Marked  == RootDescs \cup ElemDescs(RootDescs)
MarkedStores == {rowd_store(heap, d) : d \in Marked}

(* the first loop of gc_sweep: the dead descriptors that give back a share of st *)
GivesBack(st) == {d \in DOMAIN heap.d \ Marked : heap.d[d].base = st /\ ~heap.d[d].pad2}

gc_sweep ==
  /\ "sweep" \in Ops
  /\ DOMAIN heap.d # Marked \/ DOMAIN heap.s # MarkedStores
  /\ heap' = [d |-> Restrict(heap.d, Marked),
              s |-> [st \in MarkedStores |->
                       [heap.s[st] EXCEPT !.rc =
                          IF @ > Cardinality(GivesBack(st))
                          THEN @ - Cardinality(GivesBack(st)) ELSE 0]]]
  /\ UNCHANGED <<cell, stack, prog>>

-----------------------------------------------------------------------------
Init ==
  /\ heap = [d |-> <<>>, s |-> <<>>]
  /\ cell = [c \in Cell |-> Nil]
  /\ stack = <<>>
  /\ prog \in Programs

Next ==
  \/ \E v \in Literals : Display(v)
  \/ row_of \/ deref \/ pop \/ assign_name \/ gc_sweep
  \/ \E c \in Cell : push_cell(c)
  \/ \E c \in Cell : bind_cell(c)
  \/ \E c \in Var : assign(c)
  \/ \E c \in Cell, i \in 1 .. MaxLen : push_elem(c, i)
  \/ \E c \in Var, i \in 1 .. MaxLen : assign_elem(c, i)
  \/ \E c \in Var, i \in 1 .. MaxLen, x \in Scalar : set_elem(c, i, x)
  \/ \E c \in Var, x \in Scalar : append(c, x)
  \/ \E off \in 0 .. MaxLen, n \in Trims : slice_value(off, n)
  \/ \E c \in Var, off \in 0 .. MaxLen, n \in Trims : slice_name(c, off, n)

Spec == Init /\ [][Next]_vars

-----------------------------------------------------------------------------
(* what is in a row, as the program sees it *)
Flat(r) == [i \in 1 .. heap.d[r].n |-> rowd_get(heap, r, i)]
Contents(r) == [i \in 1 .. heap.d[r].n |->
                  LET e == rowd_get(heap, r, i) IN IF IsRow(e) THEN Flat(e) ELSE e]

TypeOK ==
  /\ DOMAIN heap.d \subseteq DescAddr /\ DOMAIN heap.s \subseteq StoreAddr
  /\ \A r \in DOMAIN heap.d :
       /\ heap.d[r].base \in DescAddr \cup StoreAddr
       /\ heap.d[r].off \in 0 .. MaxLen + Spare /\ heap.d[r].n \in 0 .. prog.len
       /\ heap.d[r].pad2 \in BOOLEAN
  /\ \A st \in DOMAIN heap.s :
       /\ heap.s[st].leaf \in BOOLEAN /\ heap.s[st].rc \in 0 .. RcMod - 1
       /\ ToSet(heap.s[st].e) \subseteq Scalar \cup {Undef} \cup DescAddr
  /\ cell \in [Cell -> DescAddr \cup {Nil}]
  /\ \A i \in DOMAIN stack : stack[i].k \in {"row", "name"} /\ stack[i].p \in DescAddr

(* Every row the program can reach lies inside its store, whatever became of the store
   since the descriptor was made: a view follows its variable through copies, and a value
   keeps the store it was made over. *)
RowsInBounds ==
  \A r \in Marked : heap.d[r].off + heap.d[r].n <= Len(heap.s[rowd_store(heap, r)].e)

(* A leaf holds only what its layout can hold. *)
LeavesFit ==
  \A st \in DOMAIN heap.s : heap.s[st].leaf =>
    \A i \in DOMAIN heap.s[st].e : leaf_accepts(heap.s[st].e[i])

(* The share count of a store covers the shares kept in cells and in rows that cells and
   operands hold: own_store trusts it to say whether a write needs a copy. *)
Kept == {cell[c] : c \in {b \in Cell : cell[b] # Nil}} \cup ElemDescs(RootDescs)
SharesCovered ==
  \A st \in MarkedStores :
    heap.s[st].rc >= Cardinality({d \in Kept : heap.d[d].base = st})

(* A kept value never changes: while an identity is not declared again, no step changes
   the contents of its row. *)
KeptValues ==
  [][\A c \in Cell \ Var : cell[c] # Nil /\ cell'[c] = cell[c]
                             => Contents(cell[c])' = Contents(cell[c])]_vars

(* the places that a lent row p shows: variables, and rows in them, over its store *)
Over(p, r) == rowd_store(heap, r) = rowd_store(heap, p)
Places(p) ==
  LET At(r) == heap.d[p].off - heap.d[r].off
      bound == {c \in Var : cell[c] # Nil}
      rows  == {x \in bound \X (1 .. MaxLen) :
                  x[2] <= heap.d[cell[x[1]]].n /\ IsRow(rowd_get(heap, cell[x[1]], x[2]))}
      Elem(x) == rowd_get(heap, cell[x[1]], x[2])
  IN {[c |-> c, i |-> 0, at |-> At(cell[c])] : c \in {v \in bound : Over(p, cell[v])}} \cup
     {[c |-> x[1], i |-> x[2], at |-> At(Elem(x))] : x \in {z \in rows : Over(p, Elem(z))}}

(* what the evaluator has for the cells and the operands *)
Displayed == UNION {p.literals : p \in Programs}
StackValue(o) ==
  LET p == o.p
      w == rowd_owner(heap, p)
  IN IF o.k = "name" THEN [k |-> "name", c |-> CHOOSE c \in Cell : cell[c] = w,
                           off |-> heap.d[p].off - heap.d[w].off, n |-> heap.d[p].n]
     ELSE IF heap.d[p].pad2 THEN [k |-> "lent", v |-> Contents(p), of |-> Places(p)]
     ELSE [k |-> "row", v |-> Contents(p)]
CellValues == [c \in Cell |-> IF cell[c] = Nil THEN Nil ELSE Contents(cell[c])]
Abstract == INSTANCE RowValues WITH
  Scalar <- Scalar \cup {Undef},
  Literal <- Displayed,
  Unset  <- Nil,
  val <- CellValues,
  ops <- [i \in DOMAIN stack |-> StackValue(stack[i])]

(* The runtime implements the evaluator, but for rows lent to the operand stack: one that was read
   from a cell may follow the writes of the variables it shows while it waits.  What cells hold, rows
   that were made or sliced, and names are as the evaluator has them. *)
ImplementsValues == Abstract!Spec
=============================================================================
