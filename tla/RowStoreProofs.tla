--------------------------- MODULE RowStoreProofs ---------------------------
(****************************************************************************)
(* Theorems about RowStore: every descriptor of the heap, garbage included, *)
(* lies inside its store, and a leaf holds what it can.                     *)
(****************************************************************************)
EXTENDS RowStoreInvariant

(* Names of parts are taken of variables of fixed bounds only: the runtime lets the name of a part of
   a flexible variable live on when the bounds change, and then it reads past the store.  Algol 68
   does not let a program keep such a name, and the runtime relies on that (a68rt_slice). *)
NamesKeepBounds == \A p \in Programs : "slice_name" \in p.ops => p.flex = {}
(* No slice is empty: a variable without elements may be assigned a row of any length (AssignOK), and
   the offset an empty part took from it may then lie behind its new store.  Nothing is read through
   an empty part, but it is not inside. *)
NoEmptySlices == 0 \notin Trims

-----------------------------------------------------------------------------
(* The actions. *)

(* The invariant is of the program, which stays. *)
LEMMA NextRowInv ==
  ASSUME RowInv, UNCHANGED prog, Safe(heap', cell', stack')
  PROVE  RowInv'
<1>1. prog' = prog
  OBVIOUS
<1>2. Good(heap, Held(cell, stack), Declared(cell, Var), None)'
  BY <1>1 DEF Safe, Good, Shape, Desc, Store, Value, Plain, Inside, View, Sound, Elem, Scalars, Rows,
              IsRow, leaf_accepts, Ops, Wide, Held, Declared, RowsOf, None
<1>3. (\A c \in Cell : cell[c] # Nil => Fits(heap, c, cell[c]))'
  BY <1>1 DEF Safe, Fits, Scalars, Rows, IsRow, Nested
<1>4. QED
  BY <1>1, <1>2, <1>3 DEF RowInv, Safe, Names, Apart, Declared

(* An operation has the addresses it needs. *)
LEMMA UsesFree ==
  ASSUME RowInv, NEW op, NEW nd \in Nat, NEW ns \in Nat, Uses(op, nd, ns)
  PROVE  op \in Ops /\ FreeD(heap) >= nd /\ FreeS(heap) >= ns
<1>1. Shape(heap) /\ prog \in Programs
  BY HeldIn DEF RowInv
<1>2. /\ Cardinality(DOMAIN heap.d) \in Nat /\ Cardinality(DOMAIN heap.s) \in Nat
      /\ Cardinality(DescAddr) \in Nat /\ Cardinality(StoreAddr) \in Nat
  BY <1>1, FreeCounts
<1>3. prog.descs \in 0 .. Cardinality(DescAddr) /\ prog.stores \in 0 .. Cardinality(StoreAddr)
  BY <1>1, Sizes
<1>4. QED
  BY <1>2, <1>3 DEF Uses, FreeD, FreeS

(* A row on the stack. *)
LEMMA RowOperand ==
  ASSUME NEW p \in DescAddr
  PROVE  Row(p) \in Operand /\ Row(p).p = p /\ Row(p).k = "row"
BY DEF Row, Operand

(* A scalar is an element of any store. *)
LEMMA ScalarElem ==
  ASSUME NEW x \in Scalar \cup {Undef}, NEW H, NEW C, NEW O
  PROVE  x \in Value /\ ~IsRow(x) /\ Elem(H, C, O, x)
BY Elements DEF Value, IsRow, Elem

LEMMA Undefined ==
  ASSUME prog \in Programs
  PROVE  leaf_accepts(Undef)
BY Elements DEF leaf_accepts, IsRow, Wide

(* a display *)
LEMMA DisplaySafe ==
  ASSUME RowInv, NEW v \in Literals, Display(v)
  PROVE  RowInv'
<1>1. Safe(heap, cell, stack) /\ prog \in Programs
  BY DEF RowInv
<1>2. PICK C : C = Held(cell, stack)
  OBVIOUS
<1>3. PICK V : V = Declared(cell, Var)
  OBVIOUS
<1>4. Good(heap, C, V, None) /\ Shape(heap)
  BY <1>1, <1>2, <1>3, HeldIn
<1>5. PICK k : k = NextDesc(heap)
  OBVIOUS
<1>6. PICK st : st = NextStore(heap)
  OBVIOUS
<1>7. PICK leaf \in BOOLEAN : leaf = (\A i \in DOMAIN v : leaf_accepts(v[i]))
  OBVIOUS
<1>8. heap' = NewRow(heap, v, leaf) /\ stack' = Append(stack, Row(k)) /\ cell' = cell /\ prog' = prog
  BY <1>5, <1>7 DEF Display, push
<1>9. v \in Seq(Scalar) /\ Len(v) <= prog.len
  BY <1>1, Elements, Sizes DEF Literals
<1>10. \A i \in DOMAIN v : v[i] \in Scalar
  BY <1>9
<1>11. MayMake(heap, C, v, leaf) /\ \A i \in DOMAIN v : ~IsRow(v[i])
  <2>1. \A i \in DOMAIN v : v[i] \in Value /\ ~IsRow(v[i]) /\ Elem(heap, C, None, v[i])
    BY <1>10, ScalarElem
  <2>2. v \in Seq(Value)
    <3>1. Scalar \subseteq Value
      BY DEF Value
    <3>2. QED
      BY <1>9, <3>1
  <2>3. Len(v) \in 0 .. prog.len
    <3>1. Len(v) \in Nat /\ prog.len \in Nat
      BY <1>1, <1>9, Sizes
    <3>2. QED
      BY <1>9, <3>1
  <2>4. QED
    BY <1>7, <2>1, <2>2, <2>3 DEF MayMake
<1>12. FreeD(heap) > 0 /\ FreeS(heap) > 0
  <2>1. FreeD(heap) >= 1 /\ FreeS(heap) >= 1
    BY UsesFree DEF Display
  <2>2. FreeD(heap) \in Nat /\ FreeS(heap) \in Nat
    BY <1>4, FreeCounts
  <2>3. QED
    BY <2>1, <2>2
<1>13. PICK G : G = NewRow(heap, v, leaf)
  OBVIOUS
<1>14. Made(heap, G, k, st, v, leaf) /\ Does(heap, G, C, V, None, None, 1, 1)
  <2>1. MayFill(None, st, v)
    BY <1>11 DEF MayFill
  <2>2. QED
    BY <1>1, <1>4, <1>5, <1>6, <1>11, <1>12, <1>13, <2>1, MakeRow
<1>15. k \in DOMAIN G.d \ DOMAIN heap.d /\ Plain(G, k) /\ Fresh(G, k) /\ k \in DescAddr
  BY <1>14 DEF Made, Does, Good, Shape
<1>16. PICK t : t = Append(stack, Row(k))
  OBVIOUS
<1>17. Safe(G, cell, t)
  BY <1>1, <1>2, <1>3, <1>14, <1>15, <1>16, RowOperand, Pushes
<1>18. QED
  BY <1>8, <1>13, <1>16, <1>17, NextRowInv

(* The row on top of the stack. *)
LEMMA TopParts ==
  ASSUME RowInv, Len(stack) > 0
  PROVE  /\ Safe(heap, cell, Rest) /\ Top.p \in DOMAIN heap.d /\ Top.p \notin Held(cell, Rest)
         /\ Held(cell, Rest) \subseteq Held(cell, stack) /\ Top.p \in DescAddr
         /\ TopRow => Plain(heap, Top.p) /\ Top.p \in Held(cell, stack)
<1>1. Safe(heap, cell, stack) /\ Len(stack) \in Nat
  <2>1. Safe(heap, cell, stack) /\ stack \in Seq(Operand)
    BY DEF RowInv, Safe, Operand
  <2>2. QED
    BY <2>1
<1>2. /\ Safe(heap, cell, Rest) /\ Len(stack) \in DOMAIN stack /\ Top.p \notin Held(cell, Rest)
      /\ Held(cell, Rest) \subseteq Held(cell, stack)
  <2>1. Rest = ButTop(stack) /\ Top = stack[Len(stack)]
    BY DEF Rest, Top, ButTop
  <2>2. Safe(heap, cell, Rest) /\ Below(cell, stack, Rest)
    BY <1>1, <2>1, PopTop
  <2>3. QED
    BY <2>1, <2>2 DEF Below
<1>3. /\ Top \in Operand /\ Top.p \in DOMAIN heap.d
      /\ Top.k = "row" => Top.p \in Held(cell, stack) /\ Plain(heap, Top.p)
  BY <1>1, <1>2, HeldIn DEF Top
<1>4. QED
  BY <1>2, <1>3 DEF TopRow, Operand

(* a row without rows, and one of a mode *)
LEMMA KindOf ==
  ASSUME NEW C, NEW V, NEW O, Good(heap, C, V, O), NEW r, Plain(heap, r)
  PROVE  /\ rowd_store(heap, r) = heap.d[r].base
         /\ IsFlat(r) <=> Scalars(heap.s[heap.d[r].base])
         /\ \A c \in Cell : OfMode(c, r) => Fits(heap, c, r)
<1>1. rowd_store(heap, r) = heap.d[r].base
  BY StoreOf DEF Plain
<1>2. IsFlat(r) <=> Scalars(heap.s[heap.d[r].base])
  BY <1>1 DEF IsFlat, Scalars, ToSet
<1>3. \A c \in Cell : OfMode(c, r) => Fits(heap, c, r)
  BY <1>1 DEF OfMode, Fits, Scalars, Rows, ToSet
<1>4. QED
  BY <1>1, <1>2, <1>3

(* The store st has been filled. *)
LEMMA FilledUp ==
  ASSUME NEW H, NEW C, NEW V, NEW st \in DOMAIN H.s, Good(H, C, V, {st}),
         Scalars(H.s[st]) \/ Rows(H.s[st])
  PROVE  Good(H, C, V, None)
<1>1. ASSUME NEW t \in DOMAIN H.s PROVE Sound(H, C, None, H.s[t])
  BY DEF Good, Sound, Elem, None
<1>2. QED
  BY <1>1 DEF Good, None

(* A new row of one slot may hold a row of scalars. *)
LEMMA NewSlot ==
  ASSUME NEW H, NEW K, NEW k, NEW st, NEW e, NEW leaf, Made(H, K, k, st, e, leaf), leaf = FALSE,
         Len(e) = 1, NEW C, NEW p \in DescAddr, Plain(H, p), p \notin C,
         Scalars(H.s[H.d[p].base]), NEW O, O = {st}
  PROVE  MayHold(K, C, O, st, 1, p)
<1>1. PICK b : b = H.d[p].base
  OBVIOUS
<1>2. st \notin DOMAIN H.s /\ K.s[st] = [leaf |-> leaf, rc |-> 1, e |-> e] /\ Extends(H, K)
  BY DEF Made
<1>3. /\ p \in DOMAIN K.d /\ K.d[p] = H.d[p] /\ b \in DOMAIN H.s /\ b \in DOMAIN K.s
      /\ K.s[b].e = H.s[b].e
  BY <1>1, <1>2 DEF Extends, Plain, Inside
<1>4. Plain(K, p) /\ Scalars(K.s[K.d[p].base]) /\ K.d[p].base \notin O
  BY <1>1, <1>2, <1>3 DEF Plain, Inside, Scalars
<1>5. Elem(K, C, O, p)
  BY <1>4 DEF Elem
<1>6. 1 \in 1 .. Len(K.s[st].e) /\ p \in Value /\ (K.s[st].leaf => leaf_accepts(p))
  <2>1. 1 \in 1 .. Len(e) /\ K.s[st].e = e
    BY <1>2
  <2>2. p \in Value
    BY DEF Value
  <2>3. ~K.s[st].leaf
    BY <1>2
  <2>4. QED
    BY <2>1, <2>2, <2>3
<1>7. QED
  BY <1>5, <1>6 DEF MayHold

(* row_of makes a row K of one element, which is to hold the row p. *)
MakesRowOf(K, C, V, O, st, k, p, e) ==
  /\ Safe(heap, cell, Rest) /\ Plain(heap, p) /\ p \notin C /\ p \in DescAddr
  /\ FreeD(heap) > 0 /\ FreeS(heap) > 0 /\ heap.d[p].base \in DOMAIN heap.s
  /\ Made(heap, K, k, st, e, FALSE) /\ Does(heap, K, C, V, O, None, 1, 1)
  /\ MayHold(K, C, O, st, 1, p)
LEMMA RowOfMakes ==
  ASSUME RowInv, row_of, NEW p, p = Top.p, NEW C, C = Held(cell, Rest), NEW V, V = Declared(cell, Var),
         NEW k, k = NextDesc(heap), NEW st, st = NextStore(heap), NEW e, e = <<Undef>>,
         NEW K, K = NewRow(heap, e, FALSE), NEW O, O = {st}
  PROVE  MakesRowOf(K, C, V, O, st, k, p, e)
<1>1. /\ Safe(heap, cell, Rest) /\ Plain(heap, p) /\ p \notin C /\ p \in DescAddr
      /\ prog \in Programs /\ Good(heap, C, V, None) /\ Shape(heap)
  BY TopParts DEF row_of, TopRow, RowInv, Safe, Good
<1>2. Scalars(heap.s[heap.d[p].base]) /\ heap.d[p].base \in DOMAIN heap.s
  BY <1>1, KindOf DEF row_of, Plain, Inside
<1>3. FreeD(heap) > 0 /\ FreeS(heap) > 0
  <2>1. FreeD(heap) >= 1 /\ FreeS(heap) >= 1
    BY UsesFree DEF row_of
  <2>2. FreeD(heap) \in Nat /\ FreeS(heap) \in Nat
    BY <1>1, FreeCounts
  <2>3. QED
    BY <2>1, <2>2
<1>4. Made(heap, K, k, st, e, FALSE) /\ Does(heap, K, C, V, {st}, None, 1, 1)
  <2>1. e \in Seq(Value) /\ Len(e) = 1 /\ DOMAIN e = {1} /\ e[1] = Undef
    <3>1. Undef \in Value
      BY DEF Value
    <3>2. QED
      BY <3>1
  <2>2. \A i \in DOMAIN e : Elem(heap, C, None, e[i])
    BY <2>1, ScalarElem
  <2>3. Len(e) \in 0 .. prog.len
    BY <1>1, <2>1, Sizes
  <2>4. MayMake(heap, C, e, FALSE)
    BY <2>1, <2>2, <2>3 DEF MayMake
  <2>5. PICK P : P = {st}
    OBVIOUS
  <2>6. MayFill(P, st, e)
    BY <2>5 DEF MayFill
  <2>7. PICK leaf : leaf = FALSE
    OBVIOUS
  <2>8. MayMake(heap, C, e, leaf) /\ K = NewRow(heap, e, leaf)
    BY <2>4, <2>7
  <2>9. Made(heap, K, k, st, e, leaf) /\ Does(heap, K, C, V, P, None, 1, 1)
    BY <1>1, <1>3, <2>6, <2>8, MakeRow
  <2>10. QED
    BY <2>5, <2>7, <2>9
<1>5. MayHold(K, C, O, st, 1, p)
  <2>1. Len(e) = 1
    OBVIOUS
  <2>2. PICK leaf : leaf = FALSE
    OBVIOUS
  <2>3. Made(heap, K, k, st, e, leaf)
    BY <1>4, <2>2
  <2>4. QED
    BY <1>1, <1>2, <2>1, <2>2, <2>3, NewSlot
<1>6. Does(heap, K, C, V, O, None, 1, 1)
  BY <1>4
<1>7. QED
  BY <1>1, <1>2, <1>3, <1>4, <1>5, <1>6 DEF MakesRowOf

LEMMA RowOfSafe ==
  ASSUME RowInv, row_of
  PROVE  RowInv'
<1>1. PICK p : p = Top.p
  OBVIOUS
<1>2. PICK C : C = Held(cell, Rest)
  OBVIOUS
<1>3. PICK V : V = Declared(cell, Var)
  OBVIOUS
<1>4. PICK k : k = NextDesc(heap)
  OBVIOUS
<1>5. PICK st : st = NextStore(heap)
  OBVIOUS
<1>6. PICK e : e = <<Undef>>
  OBVIOUS
<1>7. PICK K : K = NewRow(heap, e, FALSE)
  OBVIOUS
<1>8. PICK O : O = {st}
  OBVIOUS
<1>9. MakesRowOf(K, C, V, O, st, k, p, e)
  BY <1>1, <1>2, <1>3, <1>4, <1>5, <1>6, <1>7, <1>8, RowOfMakes
<1>10. PICK G : G = store_set(K, st, 1, p)
  OBVIOUS
<1>11. heap' = G /\ stack' = Append(Rest, Row(k)) /\ cell' = cell /\ prog' = prog
  BY <1>1, <1>4, <1>5, <1>6, <1>7, <1>10 DEF row_of, push
<1>12. /\ Safe(heap, cell, Rest) /\ Plain(heap, p) /\ p \notin C /\ p \in DescAddr
       /\ heap.d[p].base \in DOMAIN heap.s /\ Good(heap, C, V, None) /\ Shape(heap)
  BY <1>2, <1>3, <1>9 DEF MakesRowOf, Safe, Good
<1>13. Does(heap, K, C, V, O, None, 1, 1)
  BY <1>9 DEF MakesRowOf
<1>14. MayHold(K, C, O, st, 1, p) /\ st \in O
  BY <1>8, <1>9 DEF MakesRowOf
<1>15. /\ k \in DOMAIN K.d \ DOMAIN heap.d /\ st \in DOMAIN K.s \ DOMAIN heap.s
       /\ K.s[st].e = e /\ K.s[st].leaf = FALSE /\ K.d[k].base = st
       /\ Extends(heap, K) /\ Plain(K, k) /\ Fresh(K, k) /\ Good(K, C, V, O)
       /\ K.d[k].off = 0 /\ K.d[k].n = 1 /\ Len(e) = 1
  BY <1>6, <1>9, <1>13 DEF MakesRowOf, Made, Does
<1>16. SlotSet(K, G, st, 1, p) /\ Good(G, C, V, O)
  BY <1>10, <1>14, <1>15, SetSlot
<1>17. /\ DOMAIN G.d = DOMAIN K.d /\ DOMAIN G.s = DOMAIN K.s
       /\ \A q \in DOMAIN K.d : /\ G.d[q].base = K.d[q].base /\ G.d[q].off = K.d[q].off
                                /\ G.d[q].n = K.d[q].n /\ (q # p => G.d[q] = K.d[q])
       /\ \A t \in DOMAIN K.s : t # st => G.s[t].e = K.s[t].e
       /\ G.s[st].e = [e EXCEPT ![1] = p]
  BY <1>15, <1>16 DEF SlotSet, SameBounds
<1>18. DOMAIN G.s[st].e = {1} /\ G.s[st].e[1] = p
  BY <1>6, <1>17
<1>19. Good(G, C, V, None)
  <2>1. Rows(G.s[st])
    BY <1>12, <1>18 DEF Rows, IsRow
  <2>2. QED
    BY <1>8, <1>15, <1>16, <1>17, <2>1, FilledUp
<1>20. Keeps(heap, G, None)
  <2>1. DOMAIN heap.d \subseteq DOMAIN G.d /\ DOMAIN heap.s \subseteq DOMAIN G.s
    BY <1>15, <1>17 DEF Extends
  <2>2. ASSUME NEW t \in DOMAIN heap.s
        PROVE  /\ Scalars(heap.s[t]) => Scalars(G.s[t])
               /\ Rows(heap.s[t]) => Rows(G.s[t])
    BY <1>15, <1>17, <2>2 DEF Extends, Scalars, Rows
  <2>3. ASSUME NEW q \in DOMAIN heap.d
        PROVE  /\ heap.d[q].base \in DescAddr => G.d[q] = heap.d[q]
               /\ G.d[q].base = heap.d[q].base /\ G.d[q].off = heap.d[q].off
               /\ G.d[q].n = heap.d[q].n
    <3>1. heap.d[p].base \notin DescAddr
      BY <1>12, Addresses DEF Shape
    <3>2. K.d[q] = heap.d[q] /\ q \in DOMAIN K.d
      BY <1>15, <2>3 DEF Extends
    <3>3. QED
      BY <1>17, <3>1, <3>2
  <2>4. QED
    BY <2>1, <2>2, <2>3 DEF Keeps
<1>21. FreeD(G) >= FreeD(heap) - 1 /\ FreeS(G) >= FreeS(heap) - 1
  BY <1>13, <1>17 DEF Does, FreeD, FreeS
<1>22. Does(heap, G, C, V, None, None, 1, 1)
  BY <1>19, <1>20, <1>21 DEF Does
<1>23. k \in DOMAIN G.d \ DOMAIN heap.d /\ Plain(G, k) /\ k \in DescAddr
  <2>1. k \in DOMAIN G.d \ DOMAIN heap.d /\ k \in DescAddr
    BY <1>15, <1>17, <1>19 DEF Good, Shape
  <2>2. G.d[k].base = st /\ G.d[k].off = 0 /\ G.d[k].n = 1 /\ st \in DOMAIN G.s
    BY <1>15, <1>17
  <2>3. Len(G.s[st].e) = 1
    BY <1>15, <1>17, <1>6
  <2>4. QED
    BY <2>1, <2>2, <2>3 DEF Plain, Inside
<1>24. Fresh(G, k)
  <2>1. ASSUME NEW t \in DOMAIN G.s, NEW i \in DOMAIN G.s[t].e PROVE G.s[t].e[i] # k
    <3>1. k # p
      BY <1>12, <1>15 DEF Plain
    <3>2. CASE t = st
      BY <1>18, <2>1, <3>1, <3>2
    <3>3. CASE t # st
      BY <1>15, <1>17, <2>1, <3>3 DEF Fresh
    <3>4. QED
      BY <3>2, <3>3
  <2>2. QED
    BY <2>1 DEF Fresh
<1>25. PICK t : t = Append(Rest, Row(k))
  OBVIOUS
<1>26. Safe(G, cell, t)
  BY <1>2, <1>3, <1>12, <1>22, <1>23, <1>24, <1>25, RowOperand, Pushes
<1>27. QED
  BY <1>11, <1>25, <1>26, NextRowInv

(* A new row is pushed. *)
LEMMA NewOperand ==
  ASSUME RowInv, NEW sk, Safe(heap, cell, sk), NEW G, NEW nd, NEW ns,
         Does(heap, G, Held(cell, sk), Declared(cell, Var), None, None, nd, ns), NEW k,
         k \in DescAddr \ DOMAIN heap.d, k \in DOMAIN G.d, Inside(G, G.d[k]), Fresh(G, k),
         heap' = G, stack' = Append(sk, Row(k)), UNCHANGED <<cell, prog>>
  PROVE  RowInv'
<1>1. k \in DOMAIN G.d \ DOMAIN heap.d /\ Plain(G, k)
  BY DEF Plain
<1>2. PICK t : t = Append(sk, Row(k))
  OBVIOUS
<1>3. Safe(G, cell, t)
  BY <1>1, <1>2, RowOperand, Pushes
<1>4. cell' = cell /\ prog' = prog
  OBVIOUS
<1>5. QED
  BY <1>2, <1>3, <1>4, NextRowInv

(* An operation that needs an address of a descriptor has it. *)
LEMMA OneDescFree ==
  ASSUME RowInv, NEW op, Uses(op, 1, 0)
  PROVE  FreeD(heap) > 0 /\ op \in Ops
<1>1. FreeD(heap) >= 1 /\ op \in Ops
  BY UsesFree
<1>2. FreeD(heap) \in Nat
  BY HeldIn, FreeCounts DEF RowInv
<1>3. QED
  BY <1>1, <1>2

(* A row is shared or borrowed, and pushed. *)
LEMMA PushShare ==
  ASSUME RowInv, NEW sk, Safe(heap, cell, sk), NEW r \in DOMAIN heap.d, FreeD(heap) > 0,
         NEW G, G \in {rowd_share(heap, r), rowd_borrow(heap, r)},
         heap' = G, stack' = Append(sk, Row(NextDesc(heap))), UNCHANGED <<cell, prog>>
  PROVE  RowInv'
<1>1. PICK k : k = NextDesc(heap)
  OBVIOUS
<1>2. PICK C : C = Held(cell, sk)
  OBVIOUS
<1>3. PICK V : V = Declared(cell, Var)
  OBVIOUS
<1>4. Good(heap, C, V, None)
  BY <1>2, <1>3 DEF Safe
<1>5. /\ k \in DescAddr \ DOMAIN heap.d /\ DOMAIN G.d = DOMAIN heap.d \cup {k}
      /\ Inside(G, G.d[k]) /\ Fresh(G, k) /\ Does(heap, G, C, V, None, None, 1, 0)
  BY <1>1, <1>4, ShareRow
<1>6. QED
  BY <1>1, <1>2, <1>3, <1>5, NewOperand

LEMMA PushCellSafe ==
  ASSUME RowInv, NEW c \in Cell, push_cell(c)
  PROVE  RowInv'
<1>1. Safe(heap, cell, stack)
  BY DEF RowInv
<1>2. PICK r : r = cell[c]
  OBVIOUS
<1>3. /\ r \in DOMAIN heap.d /\ FreeD(heap) > 0 /\ heap' = rowd_borrow(heap, r)
      /\ stack' = Append(stack, Row(NextDesc(heap))) /\ UNCHANGED <<cell, prog>>
  BY <1>1, <1>2, OneDescFree, HeldIn DEF push_cell, push, Plain
<1>4. QED
  BY <1>1, <1>3, PushShare

LEMMA PushElemSafe ==
  ASSUME RowInv, NEW c \in Cell, NEW i \in 1 .. MaxLen, push_elem(c, i)
  PROVE  RowInv'
<1>1. Safe(heap, cell, stack) /\ Good(heap, Held(cell, stack), Declared(cell, Var), None)
  BY DEF RowInv, Safe
<1>2. PICK r : r = cell[c]
  OBVIOUS
<1>3. PICK e : e = rowd_get(heap, r, i)
  OBVIOUS
<1>4. /\ r \in DOMAIN heap.d /\ FreeD(heap) > 0 /\ heap' = rowd_borrow(heap, e) /\ IsRow(e)
      /\ stack' = Append(stack, Row(NextDesc(heap))) /\ UNCHANGED <<cell, prog>>
      /\ i <= heap.d[r].n
  BY <1>1, <1>2, <1>3, OneDescFree, HeldIn DEF push_elem, push, Plain
<1>5. e \in DOMAIN heap.d
  <2>1. i \in 1 .. heap.d[r].n
    <3>1. heap.d[r].n \in Nat /\ MaxLen \in Nat
      BY <1>1, <1>4, ShapeParts, DescParts, Sizes DEF Good
    <3>2. QED
      BY <1>4, <3>1
  <2>2. PICK j : j = heap.d[r].off + i
    OBVIOUS
  <2>3. PICK st : st = rowd_store(heap, r)
    OBVIOUS
  <2>4. j \in 1 .. Len(heap.s[st].e) /\ e = heap.s[st].e[j] /\ st \in DOMAIN heap.s
    BY <1>1, <1>3, <1>4, <2>1, <2>2, <2>3, RowElement, StoreOf
  <2>5. Elem(heap, Held(cell, stack), None, e)
    BY <1>1, <2>4, ElementOf
  <2>6. QED
    BY <1>4, <2>5 DEF Elem, Plain
<1>6. QED
  BY <1>1, <1>4, <1>5, PushShare

LEMMA DerefSafe ==
  ASSUME RowInv, deref
  PROVE  RowInv'
<1>1. PICK p : p = Top.p
  OBVIOUS
<1>2. Safe(heap, cell, Rest) /\ p \in DOMAIN heap.d
  BY <1>1, TopParts DEF deref
<1>3. /\ FreeD(heap) > 0 /\ heap' = rowd_share(heap, p)
      /\ stack' = Append(Rest, Row(NextDesc(heap))) /\ UNCHANGED <<cell, prog>>
  BY <1>1, OneDescFree DEF deref, push
<1>4. QED
  BY <1>2, <1>3, PushShare

LEMMA PopSafe ==
  ASSUME RowInv, pop
  PROVE  RowInv'
<1>1. stack \in Seq(Operand)
  BY DEF RowInv, Safe, Operand
<1>2. Len(stack) > 0
  BY <1>1 DEF pop
<1>3. Safe(heap, cell, Rest)
  BY <1>2, TopParts
<1>4. heap' = heap /\ cell' = cell /\ stack' = Rest /\ prog' = prog
  BY DEF pop
<1>5. QED
  BY <1>3, <1>4, NextRowInv

(* a part of n elements after the first off of a row *)
LEMMA PartBounds ==
  ASSUME NEW a \in Nat, NEW b \in 0 .. prog.len, NEW off \in Nat, NEW n \in Nat, off + n <= b,
         prog \in Programs
  PROVE  a + off \in Nat /\ n \in 0 .. prog.len /\ a <= a + off /\ (a + off) + n <= a + b
<1>1. prog.len \in Nat
  BY Sizes
<1>2. QED
  BY <1>1

LEMMA SliceNameSafe ==
  ASSUME NoEmptySlices, RowInv, NEW c \in Var, NEW off \in 0 .. MaxLen, NEW n \in Trims,
         slice_name(c, off, n)
  PROVE  RowInv'
<1>1. Safe(heap, cell, stack) /\ prog \in Programs
  BY DEF RowInv
<1>2. PICK C : C = Held(cell, stack)
  OBVIOUS
<1>3. PICK V : V = Declared(cell, Var)
  OBVIOUS
<1>4. PICK r : r = cell[c]
  OBVIOUS
<1>5. /\ Good(heap, C, V, None) /\ r \in V /\ r \in DOMAIN heap.d /\ r \in DescAddr
      /\ heap.d[r] \in Desc
  BY <1>1, <1>2, <1>3, <1>4, Cells, HeldIn, ShapeParts DEF slice_name, Plain
<1>6. off \in Nat /\ n \in Nat /\ n > 0
  BY Sizes DEF NoEmptySlices
<1>7. PICK o : o = heap.d[r].off + off
  OBVIOUS
<1>8. PICK x : x = [base |-> r, off |-> o, n |-> n, pad2 |-> FALSE]
  OBVIOUS
<1>9. PICK k : k = NextDesc(heap)
  OBVIOUS
<1>10. PICK y : y = [k |-> "name", p |-> k]
  OBVIOUS
<1>11. PICK G : G = rowd_alloc(heap, x)
  OBVIOUS
<1>12. /\ heap' = G /\ stack' = Append(stack, y) /\ cell' = cell /\ prog' = prog
       /\ FreeD(heap) > 0 /\ "slice_name" \in Ops /\ off + n <= heap.d[r].n
  BY <1>4, <1>7, <1>8, <1>9, <1>10, <1>11, OneDescFree DEF slice_name, push
<1>13. /\ heap.d[r].off \in Nat /\ heap.d[r].n \in 0 .. prog.len
       /\ o \in Nat /\ n \in 0 .. prog.len /\ heap.d[r].off <= o
       /\ o + n <= heap.d[r].off + heap.d[r].n
  <2>1. heap.d[r].off \in Nat /\ heap.d[r].n \in 0 .. prog.len
    BY <1>5, DescParts
  <2>2. QED
    BY <1>1, <1>6, <1>7, <1>12, <2>1, PartBounds
<1>14. x \in Desc /\ View(heap, V, x)
  BY <1>5, <1>6, <1>8, <1>12, <1>13 DEF Desc, View
<1>15. /\ k \in DescAddr \ DOMAIN heap.d /\ DOMAIN G.d = DOMAIN heap.d \cup {k} /\ G.d[k] = x
       /\ Does(heap, G, C, V, None, None, 1, 0)
  BY <1>5, <1>9, <1>11, <1>12, <1>14, AddDesc
<1>16. y \in Operand /\ y.p = k /\ y.k = "name" /\ G.d[y.p].base \in DescAddr
  BY <1>5, <1>8, <1>10, <1>15 DEF Operand
<1>17. PICK t : t = Append(stack, y)
  OBVIOUS
<1>18. Safe(G, cell, t)
  <2>1. y.k = "row" => Plain(G, y.p) /\ Fresh(G, y.p)
    BY <1>16
  <2>2. y.p \in DOMAIN G.d \ DOMAIN heap.d
    BY <1>15, <1>16
  <2>3. QED
    BY <1>1, <1>2, <1>3, <1>15, <1>16, <1>17, <2>1, <2>2, Pushes
<1>19. QED
  BY <1>12, <1>17, <1>18, NextRowInv

LEMMA SliceValueSafe ==
  ASSUME RowInv, NEW off \in 0 .. MaxLen, NEW n \in Trims, slice_value(off, n)
  PROVE  RowInv'
<1>1. prog \in Programs
  BY DEF RowInv
<1>2. PICK C : C = Held(cell, Rest)
  OBVIOUS
<1>3. PICK V : V = Declared(cell, Var)
  OBVIOUS
<1>4. PICK r : r = Top.p
  OBVIOUS
<1>5. /\ Safe(heap, cell, Rest) /\ Good(heap, C, V, None) /\ r \in DOMAIN heap.d
      /\ heap.d[r] \in Desc
  BY <1>2, <1>3, <1>4, TopParts, HeldIn, ShapeParts DEF slice_value, TopRow
<1>6. off \in Nat /\ n \in Nat
  BY Sizes
<1>7. PICK o : o = heap.d[r].off + off
  OBVIOUS
<1>8. PICK x : x = [base |-> rowd_store(heap, r), off |-> o, n |-> n, pad2 |-> FALSE]
  OBVIOUS
<1>9. PICK k : k = NextDesc(heap)
  OBVIOUS
<1>10. PICK K : K = rowd_alloc(heap, x)
  OBVIOUS
<1>11. PICK G : G = OneMore(K, x.base)
  OBVIOUS
<1>12. /\ heap' = G /\ stack' = Append(Rest, Row(k)) /\ cell' = cell /\ prog' = prog
       /\ FreeD(heap) > 0 /\ off + n <= heap.d[r].n
  BY <1>4, <1>7, <1>8, <1>9, <1>10, <1>11, OneDescFree DEF slice_value, push, OneMore
<1>13. /\ heap.d[r].off \in Nat /\ heap.d[r].n \in 0 .. prog.len
       /\ o \in Nat /\ n \in 0 .. prog.len /\ heap.d[r].off <= o
       /\ o + n <= heap.d[r].off + heap.d[r].n
  <2>1. heap.d[r].off \in Nat /\ heap.d[r].n \in 0 .. prog.len
    BY <1>5, DescParts
  <2>2. QED
    BY <1>1, <1>6, <1>7, <1>12, <2>1, PartBounds
<1>14. x \in Desc /\ PartOf(heap, r, x)
  <2>1. rowd_store(heap, r) \in StoreAddr
    BY <1>5, StoreOf DEF Good, Shape
  <2>2. QED
    BY <1>8, <1>13, <2>1 DEF Desc, PartOf
<1>15. /\ k \in DescAddr \ DOMAIN heap.d /\ DOMAIN G.d = DOMAIN heap.d \cup {k}
       /\ Inside(G, G.d[k]) /\ Fresh(G, k) /\ Does(heap, G, C, V, None, None, 1, 0)
  BY <1>5, <1>9, <1>10, <1>11, <1>12, <1>14, SharePart
<1>16. QED
  BY <1>2, <1>3, <1>5, <1>12, <1>15, NewOperand

LEMMA BindCellSafe ==
  ASSUME RowInv, NEW c \in Cell, bind_cell(c)
  PROVE  RowInv'
<1>1. PICK C : C = Held(cell, Rest)
  OBVIOUS
<1>2. PICK V : V = Declared(cell, Var)
  OBVIOUS
<1>3. PICK p : p = Top.p
  OBVIOUS
<1>4. /\ Safe(heap, cell, Rest) /\ Good(heap, C, V, None) /\ Plain(heap, p) /\ p \in DOMAIN heap.d
      /\ p \in DescAddr
  BY <1>1, <1>2, <1>3, TopParts, HeldIn DEF bind_cell, TopRow
<1>5. PICK k : k = NextDesc(heap)
  OBVIOUS
<1>6. PICK G : G = rowd_share(heap, p)
  OBVIOUS
<1>7. PICK cn : cn = [cell EXCEPT ![c] = k]
  OBVIOUS
<1>8. /\ heap' = G /\ cell' = cn /\ stack' = Rest /\ prog' = prog
      /\ FreeD(heap) > 0 /\ Fits(heap, c, p) /\ (c \in Var => cell[c] = Nil)
  <2>1. slot_put(heap, p) = [h |-> G, v |-> k]
    BY <1>4, <1>5, <1>6 DEF slot_put, IsRow
  <2>2. Fits(heap, c, p)
    BY <1>3, <1>4, KindOf DEF bind_cell
  <2>3. QED
    BY <1>3, <1>7, <2>1, <2>2, OneDescFree DEF bind_cell
<1>9. /\ k \in DescAddr \ DOMAIN heap.d /\ DOMAIN G.d = DOMAIN heap.d \cup {k}
      /\ G.d[k].base = rowd_store(heap, p) /\ Extends(heap, G)
      /\ Inside(G, G.d[k]) /\ Fresh(G, k) /\ Does(heap, G, C, V, None, None, 1, 0)
  BY <1>4, <1>5, <1>6, <1>8, ShareRow
<1>10. k \in DOMAIN G.d \ DOMAIN heap.d /\ Plain(G, k)
  BY <1>9 DEF Plain
<1>11. Fits(G, c, k)
  <2>1. rowd_store(heap, p) = heap.d[p].base /\ heap.d[p].base \in DOMAIN heap.s
    BY <1>4, StoreOf DEF Plain, Inside
  <2>2. G.s[G.d[k].base].e = heap.s[heap.d[p].base].e
    BY <1>9, <2>1 DEF Extends
  <2>3. QED
    BY <1>8, <2>2 DEF Fits, Scalars, Rows
<1>12. Safe(G, cn, Rest)
  BY <1>1, <1>2, <1>4, <1>7, <1>8, <1>9, <1>10, <1>11, Binds
<1>13. QED
  BY <1>8, <1>12, NextRowInv

(* The operand on top is dropped at the end of a step. *)
LEMMA DropsTop ==
  ASSUME RowInv, Len(stack) > 0, NEW G, Safe(G, cell, stack), heap' = G, stack' = Rest,
         UNCHANGED <<cell, prog>>
  PROVE  RowInv'
<1>1. Rest = ButTop(stack)
  BY DEF Rest, ButTop
<1>2. Safe(G, cell, Rest)
  BY <1>1, PopTop
<1>3. QED
  BY <1>2, NextRowInv

(* What an assignment allocates for elements is enough. *)
LEMMA ElemCost ==
  ASSUME prog \in Programs
  PROVE  /\ PerElem \in Nat /\ prog.len \in Nat
         /\ \A c \in Nested : PerElem = prog.len
BY Sizes DEF PerElem

(* the costs of an assignment that copies n elements *)
LEMMA AssignCosts ==
  ASSUME NEW m \in Nat, NEW n \in Nat, NEW fd \in Nat, NEW fs \in Nat, fd >= 1 + 2 * m,
         fs >= 2 + m, NEW a \in {0, 1}, NEW b \in {0, 1}
  PROVE  /\ fs >= a + b /\ fs > 0 /\ fd >= 1
         /\ n <= m => fd >= 2 * n /\ fs >= a + n /\ fd >= 1 + n
OBVIOUS

(* What the row r of the variable c and the operand src are, and that what an assignment of src
   to c allocates is there. *)
LEMMA AssignReady ==
  ASSUME RowInv, NEW c \in Var, assign(c), NEW C, C = Held(cell, stack),
         NEW V, V = Declared(cell, Var), NEW r, r = cell[c], NEW src, src = Top.p,
         NEW n, n = heap.d[src].n
  PROVE  /\ Good(heap, C, V, None) /\ Plain(heap, r) /\ r \in C /\ Plain(heap, src) /\ src \in C
         /\ Fits(heap, c, r) /\ Fits(heap, c, src) /\ n \in Nat /\ n <= prog.len
         /\ FreeS(heap) >= OwnCost(heap, r) + WideCost(heap, r) /\ FreeS(heap) > 0
         /\ FreeD(heap) >= 1
         /\ c \in Nested => /\ FreeD(heap) >= 2 * n /\ FreeS(heap) >= OwnCost(heap, r) + n
                            /\ FreeD(heap) >= 1 + n
<1>1. /\ Safe(heap, cell, stack) /\ prog \in Programs /\ c \in Cell /\ TopRow /\ Len(stack) > 0
      /\ cell[c] # Nil
  BY Cells DEF RowInv, assign, TopRow
<1>2. /\ Good(heap, C, V, None) /\ Plain(heap, r) /\ r \in C /\ Plain(heap, src) /\ src \in C
      /\ Fits(heap, c, r) /\ r \in DOMAIN heap.d /\ src \in DOMAIN heap.d /\ Shape(heap)
  BY <1>1, HeldIn, TopParts DEF Plain
<1>3. Fits(heap, c, src)
  BY <1>1, <1>2, KindOf DEF assign
<1>4. n \in Nat /\ n <= prog.len
  <2>1. n \in 0 .. prog.len /\ n \in Nat
    BY <1>2, ShapeParts, DescParts
  <2>2. QED
    BY <1>1, <2>1, ElemCost
<1>5. /\ FreeS(heap) >= OwnCost(heap, r) + WideCost(heap, r) /\ FreeS(heap) > 0 /\ FreeD(heap) >= 1
      /\ n <= PerElem => /\ FreeD(heap) >= 2 * n /\ FreeS(heap) >= OwnCost(heap, r) + n
                         /\ FreeD(heap) >= 1 + n
  <2>1. PICK m : m = PerElem
    OBVIOUS
  <2>2. m \in Nat
    BY <1>1, <2>1, ElemCost
  <2>3. FreeD(heap) >= 1 + 2 * m /\ FreeS(heap) >= 2 + m
    <3>1. Uses("assign", 1 + 2 * m, 2 + m) /\ 1 + 2 * m \in Nat /\ 2 + m \in Nat
      BY <2>1, <2>2 DEF assign
    <3>2. QED
      BY <3>1, UsesFree
  <2>4. FreeD(heap) \in Nat /\ FreeS(heap) \in Nat
    BY <1>2, FreeCounts
  <2>5. OwnCost(heap, r) \in {0, 1} /\ WideCost(heap, r) \in {0, 1}
    BY DEF OwnCost, WideCost
  <2>6. QED
    BY <1>4, <2>1, <2>2, <2>3, <2>4, <2>5, AssignCosts
<1>6. c \in Nested => n <= PerElem
  BY <1>1, <1>4, ElemCost
<1>7. QED
  BY <1>2, <1>3, <1>4, <1>5, <1>6

(* A row that may not be written as it is: the assignment replaces it. *)
LEMMA AssignTakes ==
  ASSUME NamesKeepBounds, RowInv, NEW c \in Var, assign(c), NEW C, C = Held(cell, stack),
         NEW V, V = Declared(cell, Var), NEW r, r = cell[c], NEW src, src = Top.p,
         c \in Flex \/ ~same_bounds(heap, r, src)
  PROVE  MayTake(heap, C, V, r, src)
<1>1. PICK n : n = heap.d[src].n
  OBVIOUS
<1>2. /\ Good(heap, C, V, None) /\ Plain(heap, r) /\ r \in C /\ Plain(heap, src)
      /\ Fits(heap, c, src) /\ FreeS(heap) > 0 /\ FreeD(heap) >= 1
      /\ c \in Nested => FreeD(heap) >= 1 + n
  BY <1>1, AssignReady
<1>3. "slice_name" \notin Ops \/ heap.d[r].n = 0
  <2>1. CASE c \in Flex
    BY <2>1 DEF NamesKeepBounds, Ops, Flex, RowInv
  <2>2. CASE c \notin Flex
    BY <2>2 DEF assign, AssignOK
  <2>3. QED
    BY <2>1, <2>2
<1>4. FreeD(heap) >= 1 + CopyCost(heap, src, n)
  <2>1. rowd_store(heap, src) = heap.d[src].base
    BY <1>2, StoreOf DEF Plain
  <2>2. CASE Scalars(heap.s[heap.d[src].base])
    BY <1>2, <2>1, <2>2 DEF CopyCost
  <2>3. CASE ~Scalars(heap.s[heap.d[src].base])
    BY <1>2, <2>1, <2>3 DEF CopyCost, Fits
  <2>4. QED
    BY <2>2, <2>3
<1>5. QED
  BY <1>1, <1>2, <1>3, <1>4 DEF MayTake, Plain

LEMMA AssignSafe ==
  ASSUME NamesKeepBounds, RowInv, NEW c \in Var, assign(c)
  PROVE  RowInv'
<1>1. /\ Safe(heap, cell, stack) /\ prog \in Programs /\ c \in Cell /\ TopRow /\ Len(stack) > 0
      /\ cell[c] # Nil
  BY Cells DEF RowInv, assign, TopRow
<1>2. PICK C : C = Held(cell, stack)
  OBVIOUS
<1>3. PICK V : V = Declared(cell, Var)
  OBVIOUS
<1>4. PICK r : r = cell[c]
  OBVIOUS
<1>5. PICK src : src = Top.p
  OBVIOUS
<1>6. PICK n : n = heap.d[src].n
  OBVIOUS
<1>7. /\ Good(heap, C, V, None) /\ Plain(heap, r) /\ r \in C /\ Plain(heap, src) /\ src \in C
      /\ Fits(heap, c, r) /\ Fits(heap, c, src) /\ n \in Nat /\ n <= prog.len
      /\ FreeS(heap) >= OwnCost(heap, r) + WideCost(heap, r) /\ FreeS(heap) > 0
      /\ FreeD(heap) >= 1
      /\ c \in Nested => /\ FreeD(heap) >= 2 * n /\ FreeS(heap) >= OwnCost(heap, r) + n
                         /\ FreeD(heap) >= 1 + n
  BY <1>2, <1>3, <1>4, <1>5, <1>6, AssignReady
<1>8. /\ r \in DOMAIN heap.d /\ src \in DOMAIN heap.d /\ Inside(heap, heap.d[r])
      /\ Inside(heap, heap.d[src])
  BY <1>7 DEF Plain
<1>9. PICK G : G = AssignRow(heap, r, src, c \in Flex)
  OBVIOUS
<1>10. heap' = G /\ stack' = Rest /\ cell' = cell /\ prog' = prog
  BY <1>4, <1>5, <1>9 DEF assign
<1>11. Safe(G, cell, stack)
  <2>1. CASE c \notin Flex /\ same_bounds(heap, r, src)
    <3>1. G = row_copy_into(heap, r, src)
      BY <1>9, <2>1 DEF AssignRow
    <3>2. r = rowd_owner(heap, r) /\ n = heap.d[r].n
      BY <1>6, <1>7, <1>8, <2>1, StoreOf DEF same_bounds
    <3>3. CASE c \notin Nested
      <4>1. FlatRow(heap, r) /\ FlatRow(heap, src)
        BY <1>7, <1>8, <3>3 DEF FlatRow, Fits
      <4>2. Does(heap, G, C, V, None, None, 0, OwnCost(heap, r) + WideCost(heap, r))
        BY <1>7, <1>8, <2>1, <3>1, <3>2, <4>1, FlatInto
      <4>3. QED
        BY <1>1, <1>2, <1>3, <4>2, Stays DEF None
    <3>4. CASE c \in Nested
      <4>1. DeepRow(heap, r) /\ DeepRow(heap, src)
        BY <1>7, <1>8, <3>4 DEF DeepRow, Fits
      <4>2. Does(heap, G, C, V, None, DescAddr \ C, 2 * n, OwnCost(heap, r) + n)
        BY <1>1, <1>7, <1>8, <2>1, <3>1, <3>2, <3>4, <4>1, DeepInto
      <4>3. \A b \in Cell : cell[b] # Nil => cell[b] \notin DescAddr \ C
        BY <1>1, <1>2, HeldIn
      <4>4. QED
        BY <1>1, <1>2, <1>3, <4>2, <4>3, Stays
    <3>5. QED
      BY <3>3, <3>4
  <2>2. CASE c \in Flex \/ ~same_bounds(heap, r, src)
    <3>1. G = row_replace(heap, r, src)
      BY <1>9, <2>2 DEF AssignRow
    <3>2. MayTake(heap, C, V, r, src)
      BY <1>2, <1>3, <1>4, <1>5, <2>2, AssignTakes
    <3>3. PICK D : D = {r}
      OBVIOUS
    <3>4. /\ Taken(heap, G, r, src)
          /\ Does(heap, G, C, V, None, D, 1 + CopyCost(heap, src, heap.d[src].n), 1)
      BY <1>1, <1>7, <1>8, <3>1, <3>2, <3>3, Replace
    <3>5. rowd_store(heap, src) = heap.d[src].base
      BY <1>7, <1>8, StoreOf
    <3>6. Fits(G, c, r)
      BY <1>7, <3>4, <3>5 DEF Taken, Fits
    <3>7. \A b \in Cell : cell[b] # Nil /\ cell[b] \in D => Fits(G, b, cell[b])
      <4>1. \A b \in Cell : cell[b] # Nil /\ cell[b] \in D => b = c
        BY <1>1, <1>4, <3>3 DEF Safe, Apart
      <4>2. QED
        BY <1>4, <3>6, <4>1
    <3>8. QED
      BY <1>1, <1>2, <1>3, <3>4, <3>7, Stays
  <2>3. QED
    BY <2>1, <2>2
<1>12. QED
  BY <1>1, <1>10, <1>11, DropsTop

(* What a write through r may allocate for its store. *)
LEMMA OwnNeedsIs ==
  ASSUME NEW r, NEW o, o = rowd_owner(heap, r)
  PROVE  OwnNeeds(r) = OwnCost(heap, o) + WideCost(heap, o)
BY DEF OwnNeeds, OwnCost, WideCost, rowd_store

(* the costs of copying n elements into a part of a row *)
LEMMA PartCosts ==
  ASSUME NEW m \in Nat, NEW n \in Nat, NEW fd \in Nat, NEW fs \in Nat, NEW a \in Nat, NEW b \in Nat,
         fd >= 2 * m, fs >= (a + b) + m
  PROVE  fs >= a + b /\ (n <= m => fd >= 2 * n /\ fs >= a + n)
OBVIOUS

(* the operands below the two on top *)
LEMMA TwoBelow ==
  ASSUME NEW sk, sk \in Seq(Operand), Len(sk) > 1
  PROVE  /\ ButTop(ButTop(sk)) = SubSeq(sk, 1, Len(sk) - 2) /\ Len(sk) - 1 \in DOMAIN sk
         /\ Len(sk) > 0 /\ Len(ButTop(sk)) > 0
BY DEF ButTop

(* The name's variable o and the operand src are rows of one kind, and what the copy allocates is
   there. *)
NameReady(C, V, dst, src, o, n) ==
  /\ Good(heap, C, V, None) /\ dst \in DOMAIN heap.d /\ src \in C /\ o \in V /\ o \in C
  /\ same_bounds(heap, dst, src) /\ FreeS(heap) >= OwnCost(heap, o) + WideCost(heap, o)
  /\ \/ FlatRow(heap, o) /\ FlatRow(heap, src)
     \/ /\ DeepRow(heap, o) /\ DeepRow(heap, src) /\ Nested # {}
        /\ FreeD(heap) >= 2 * n /\ FreeS(heap) >= OwnCost(heap, o) + n

LEMMA AssignNameReady ==
  ASSUME RowInv, assign_name, NEW C, C = Held(cell, stack), NEW V, V = Declared(cell, Var),
         NEW dst, dst = stack[Len(stack) - 1].p, NEW src, src = Top.p,
         NEW o, o = rowd_owner(heap, dst), NEW n, n = heap.d[dst].n
  PROVE  NameReady(C, V, dst, src, o, n)
<1>1. Safe(heap, cell, stack) /\ prog \in Programs /\ stack \in Seq(Operand)
  BY DEF RowInv, Safe, Operand
<1>2. PICK d : d = stack[Len(stack) - 1]
  OBVIOUS
<1>3. dst = d.p
  BY <1>2
<1>4. /\ TopRow /\ Len(stack) > 1
      /\ d.k = "name" /\ same_bounds(heap, dst, src) /\ IsFlat(dst) = IsFlat(src)
      /\ Uses("slice_name", 2 * PerElem, OwnNeeds(dst) + PerElem)
  BY <1>2, <1>3 DEF assign_name
<1>5. Len(stack) - 1 \in DOMAIN stack /\ Len(stack) > 0
  BY <1>1, <1>4, TwoBelow
<1>6. /\ Good(heap, C, V, None) /\ Shape(heap) /\ Plain(heap, src) /\ src \in C
      /\ src \in DOMAIN heap.d /\ Inside(heap, heap.d[src])
  BY <1>1, <1>4, <1>5, HeldIn, TopParts DEF Plain
<1>7. dst \in DOMAIN heap.d /\ heap.d[dst].base \in DescAddr
  BY <1>1, <1>2, <1>3, <1>4, <1>5 DEF Safe, Names
<1>8. o \in V /\ o \in C /\ Plain(heap, o) /\ rowd_store(heap, dst) = heap.d[o].base
  <2>1. ~Inside(heap, heap.d[dst])
    BY <1>6, <1>7, Addresses DEF Inside, Shape
  <2>2. o \in V
    BY <1>6, <1>7, <2>1, StoreOf DEF View
  <2>3. QED
    BY <1>6, <1>7, <2>2 DEF Good, rowd_store
<1>9. PICK c \in Var : cell[c] # Nil /\ o = cell[c]
  BY <1>8 DEF Declared
<1>10. c \in Cell /\ Fits(heap, c, o)
  BY <1>1, <1>9, Cells, HeldIn
<1>11. n \in Nat /\ n <= prog.len
  <2>1. n \in 0 .. prog.len /\ n \in Nat
    BY <1>6, <1>7, ShapeParts, DescParts
  <2>2. QED
    BY <1>1, <2>1, ElemCost
<1>12. /\ FreeS(heap) >= OwnCost(heap, o) + WideCost(heap, o)
       /\ n <= PerElem => FreeD(heap) >= 2 * n /\ FreeS(heap) >= OwnCost(heap, o) + n
  <2>1. PICK m : m = PerElem
    OBVIOUS
  <2>2. PICK a : a = OwnCost(heap, o)
    OBVIOUS
  <2>3. PICK b : b = WideCost(heap, o)
    OBVIOUS
  <2>4. m \in Nat /\ a \in Nat /\ b \in Nat
    BY <1>1, <2>1, <2>2, <2>3, ElemCost DEF OwnCost, WideCost
  <2>5. FreeD(heap) >= 2 * m /\ FreeS(heap) >= (a + b) + m
    <3>1. OwnNeeds(dst) = a + b
      BY <2>2, <2>3, OwnNeedsIs
    <3>2. Uses("slice_name", 2 * m, (a + b) + m) /\ 2 * m \in Nat /\ (a + b) + m \in Nat
      BY <1>4, <2>1, <2>4, <3>1
    <3>3. QED
      BY <3>2, UsesFree
  <2>6. FreeD(heap) \in Nat /\ FreeS(heap) \in Nat
    BY <1>6, FreeCounts
  <2>7. FreeS(heap) >= a + b /\ (n <= m => FreeD(heap) >= 2 * n /\ FreeS(heap) >= a + n)
    <3>1. n \in Nat
      BY <1>11
    <3>2. QED
      BY <2>4, <2>5, <2>6, <3>1, PartCosts
  <2>8. QED
    BY <2>1, <2>2, <2>3, <2>7
<1>13. /\ IsFlat(src) <=> Scalars(heap.s[heap.d[src].base])
       /\ IsFlat(dst) <=> Scalars(heap.s[heap.d[o].base])
  <2>1. IsFlat(src) <=> Scalars(heap.s[heap.d[src].base])
    BY <1>6, KindOf
  <2>2. IsFlat(dst) <=> Scalars(heap.s[heap.d[o].base])
    BY <1>8 DEF IsFlat, Scalars, ToSet
  <2>3. QED
    BY <2>1, <2>2
<1>14. CASE IsFlat(dst)
  <2>1. FlatRow(heap, o) /\ FlatRow(heap, src)
    BY <1>4, <1>6, <1>8, <1>13, <1>14 DEF FlatRow, Plain
  <2>2. QED
    BY <1>4, <1>6, <1>7, <1>8, <1>12, <2>1 DEF NameReady
<1>15. CASE ~IsFlat(dst)
  <2>1. DeepRow(heap, o) /\ DeepRow(heap, src)
    <3>1. ~Scalars(heap.s[heap.d[o].base]) /\ ~Scalars(heap.s[heap.d[src].base])
      BY <1>4, <1>13, <1>15
    <3>2. QED
      BY <1>6, <1>8, <3>1 DEF DeepRow, Good, Plain, Inside, None
  <2>2. c \in Nested
    BY <1>9, <1>10, <1>13, <1>15 DEF Fits
  <2>3. n <= PerElem
    BY <1>1, <1>11, <2>2, ElemCost
  <2>4. Nested # {}
    BY <2>2
  <2>5. QED
    BY <1>4, <1>6, <1>7, <1>8, <1>12, <2>1, <2>3, <2>4 DEF NameReady
<1>16. QED
  BY <1>14, <1>15

LEMMA AssignNameSafe ==
  ASSUME RowInv, assign_name
  PROVE  RowInv'
<1>1. Safe(heap, cell, stack) /\ prog \in Programs /\ stack \in Seq(Operand)
  BY DEF RowInv, Safe, Operand
<1>2. PICK C : C = Held(cell, stack)
  OBVIOUS
<1>3. PICK V : V = Declared(cell, Var)
  OBVIOUS
<1>4. PICK dst : dst = stack[Len(stack) - 1].p
  OBVIOUS
<1>5. PICK src : src = Top.p
  OBVIOUS
<1>6. PICK o : o = rowd_owner(heap, dst)
  OBVIOUS
<1>7. PICK n : n = heap.d[dst].n
  OBVIOUS
<1>8. PICK s : s = SubSeq(stack, 1, Len(stack) - 2)
  OBVIOUS
<1>9. PICK G : G = row_copy_into(heap, dst, src)
  OBVIOUS
<1>10. heap' = G /\ stack' = s /\ cell' = cell /\ prog' = prog /\ Len(stack) > 1
  BY <1>4, <1>5, <1>8, <1>9 DEF assign_name
<1>11. s = ButTop(ButTop(stack)) /\ Len(stack) > 0 /\ Len(ButTop(stack)) > 0
  BY <1>1, <1>8, <1>10, TwoBelow
<1>12. NameReady(C, V, dst, src, o, n)
  BY <1>2, <1>3, <1>4, <1>5, <1>6, <1>7, AssignNameReady
<1>13. Safe(G, cell, stack)
  <2>1. CASE FlatRow(heap, o) /\ FlatRow(heap, src)
    <3>1. Does(heap, G, C, V, None, None, 0, OwnCost(heap, o) + WideCost(heap, o))
      BY <1>6, <1>9, <1>12, <2>1, FlatInto DEF NameReady
    <3>2. QED
      BY <1>1, <1>2, <1>3, <3>1, Stays DEF None
  <2>2. CASE ~(FlatRow(heap, o) /\ FlatRow(heap, src))
    <3>1. Does(heap, G, C, V, None, DescAddr \ C, 2 * n, OwnCost(heap, o) + n)
      BY <1>1, <1>6, <1>7, <1>9, <1>12, <2>2, DeepInto DEF NameReady
    <3>2. \A b \in Cell : cell[b] # Nil => cell[b] \notin DescAddr \ C
      BY <1>1, <1>2, HeldIn
    <3>3. QED
      BY <1>1, <1>2, <1>3, <3>1, <3>2, Stays
  <2>3. QED
    BY <2>1, <2>2
<1>14. Safe(G, cell, s)
  <2>1. PICK t : t = ButTop(stack)
    OBVIOUS
  <2>2. Safe(G, cell, t)
    BY <1>11, <1>13, <2>1, PopTop
  <2>3. QED
    BY <1>11, <2>1, <2>2, PopTop
<1>15. QED
  BY <1>10, <1>14, NextRowInv

(* A store of scalars, or of rows, by one of its elements. *)
LEMMA KindByElem ==
  ASSUME NEW H, NEW C, NEW V, Good(H, C, V, None), NEW r \in DOMAIN H.d, Inside(H, H.d[r]),
         NEW i \in 1 .. H.d[r].n, NEW e, e = rowd_get(H, r, i)
  PROVE  IF IsRow(e) THEN DeepRow(H, r) ELSE FlatRow(H, r)
<1>1. PICK st : st = H.d[r].base
  OBVIOUS
<1>2. PICK j : j = H.d[r].off + i
  OBVIOUS
<1>3. st = rowd_store(H, r) /\ st \in DOMAIN H.s
  BY <1>1, StoreOf DEF Inside
<1>4. j \in 1 .. Len(H.s[st].e) /\ e = H.s[st].e[j]
  BY <1>2, <1>3, RowElement
<1>5. (Scalars(H.s[st]) => ~IsRow(e)) /\ (Rows(H.s[st]) => IsRow(e))
  BY <1>3, <1>4, ElementOf
<1>6. QED
  BY <1>1, <1>3, <1>5 DEF Good, None, FlatRow, DeepRow

(* a place of an element, by its index in the program *)
LEMMA ElemPlace ==
  ASSUME NEW a \in Nat, NEW b \in Nat, NEW i \in Nat, i > 0, i <= b
  PROVE  a + i \in Nat /\ a < a + i /\ a + i <= a + b /\ i \in 1 .. b
OBVIOUS

(* A leaf made slots for a scalar has the bounds it had, and costs no more than reckoned. *)
LEMMA WidenedBounds ==
  ASSUME NEW H, NEW C, NEW V, Good(H, C, V, None), NEW o, FlatRow(H, o), NEW x \in Scalar,
         FreeS(H) >= WideCost(H, o)
  PROVE  /\ Widened(H, o, x).d[o].off = H.d[o].off
         /\ FreeS(H) >= WriteCost(H, o, x) /\ WriteCost(H, o, x) <= WideCost(H, o)
         /\ WriteCost(H, o, x) \in Nat /\ WideCost(H, o) \in Nat
<1>1. ~IsRow(x)
  BY ScalarElem
<1>2. TooWide(H, o, x) => H.s[H.d[o].base].leaf /\ Wide # {}
  BY <1>1 DEF TooWide, leaf_accepts
<1>3. FreeS(H) \in Nat
  BY FreeCounts DEF Good
<1>4. CASE TooWide(H, o, x)
  <2>1. WideCost(H, o) = 1 /\ WriteCost(H, o, x) = 1
    BY <1>2, <1>4 DEF WideCost, WriteCost
  <2>2. FreeS(H) > 0
    BY <1>3, <2>1
  <2>3. PICK W : W = Widen(H, o)
    OBVIOUS
  <2>4. Moved(H, W, o)
    BY <2>2, <2>3, WidenStore DEF FlatRow
  <2>5. Widened(H, o, x) = W
    BY <1>4, <2>3 DEF Widened
  <2>6. QED
    BY <2>1, <2>4, <2>5 DEF Moved
<1>5. CASE ~TooWide(H, o, x)
  <2>1. Widened(H, o, x) = H /\ WriteCost(H, o, x) = 0
    BY <1>5 DEF Widened, WriteCost
  <2>2. WideCost(H, o) \in Nat
    BY DEF WideCost
  <2>3. QED
    BY <1>3, <2>1, <2>2
<1>6. QED
  BY <1>4, <1>5

(* The variable's row has scalars, and K is the heap once it has a store of its own. *)
SetReady(C, V, r, K, at, x, G) ==
  /\ Good(heap, C, V, None) /\ FlatRow(heap, r) /\ FreeS(heap) >= OwnCost(heap, r)
  /\ Does(heap, K, C, V, None, None, 0, OwnCost(heap, r)) /\ FlatRow(K, r)
  /\ FreeS(K) >= WriteCost(K, r, x) /\ WriteCost(K, r, x) \in Nat
  /\ G \in Writes(K, r, at, x) /\ at \in 1 .. Len(K.s[K.d[r].base].e)

LEMMA SetElemReady ==
  ASSUME RowInv, NEW c \in Var, NEW i \in 1 .. MaxLen, NEW x \in Scalar, set_elem(c, i, x),
         NEW C, C = Held(cell, stack), NEW V, V = Declared(cell, Var), NEW r, r = cell[c],
         NEW K, K = own_store(heap, r), NEW at, at = heap.d[r].off + i
  PROVE  SetReady(C, V, r, K, at, x, heap')
<1>1. Safe(heap, cell, stack) /\ c \in Cell /\ cell[c] # Nil
  BY Cells DEF RowInv, set_elem
<1>2. PICK W : W = Widened(K, r, x)
  OBVIOUS
<1>3. /\ heap' = store_set(W, W.d[r].base, W.d[r].off + i, x)
      /\ i <= heap.d[r].n /\ ~IsRow(rowd_get(heap, r, i)) /\ Uses("set_elem", 0, OwnNeeds(r))
  BY <1>2 DEF set_elem
<1>4. /\ Good(heap, C, V, None) /\ Shape(heap) /\ r \in DOMAIN heap.d /\ Inside(heap, heap.d[r])
      /\ heap.d[r].off \in Nat /\ heap.d[r].n \in Nat
  BY <1>1, HeldIn, ShapeParts, DescParts DEF Plain
<1>5. /\ at \in Nat /\ heap.d[r].off < at /\ at <= heap.d[r].off + heap.d[r].n
      /\ i \in 1 .. heap.d[r].n
  <2>1. i \in Nat /\ i > 0
    BY Sizes
  <2>2. QED
    BY <1>3, <1>4, <2>1, ElemPlace
<1>6. FlatRow(heap, r)
  <2>1. PICK e : e = rowd_get(heap, r, i)
    OBVIOUS
  <2>2. QED
    BY <1>3, <1>4, <1>5, <2>1, KindByElem
<1>7. /\ OwnCost(heap, r) \in Nat /\ WideCost(heap, r) \in Nat /\ FreeS(heap) \in Nat
      /\ FreeS(heap) >= OwnCost(heap, r) + WideCost(heap, r)
  <2>1. OwnCost(heap, r) \in Nat /\ WideCost(heap, r) \in Nat /\ FreeS(heap) \in Nat
    BY <1>4, FreeCounts DEF OwnCost, WideCost
  <2>2. r = rowd_owner(heap, r)
    BY <1>4, StoreOf
  <2>3. OwnNeeds(r) = OwnCost(heap, r) + WideCost(heap, r)
    BY <2>2, OwnNeedsIs
  <2>4. OwnNeeds(r) \in Nat
    BY <2>1, <2>3
  <2>5. FreeS(heap) >= OwnNeeds(r)
    BY <1>3, <2>4, UsesFree
  <2>6. QED
    BY <2>1, <2>3, <2>5
<1>8. FreeS(heap) >= OwnCost(heap, r)
  BY <1>7
<1>9. /\ Does(heap, K, C, V, None, None, 0, OwnCost(heap, r))
      /\ K.s[K.d[r].base].leaf = heap.s[heap.d[r].base].leaf
  BY <1>4, <1>6, <1>8, OwnStore DEF FlatRow
<1>10. /\ Good(K, C, V, None) /\ FlatRow(K, r) /\ r \in DOMAIN K.d /\ Inside(K, K.d[r])
       /\ K.d[r].off = heap.d[r].off /\ K.d[r].n = heap.d[r].n
  <2>1. Good(K, C, V, None) /\ Does(heap, K, C, V, None, None, 0, OwnCost(heap, r))
    BY <1>9 DEF Does
  <2>2. FlatRow(K, r) /\ K.d[r].off = heap.d[r].off /\ K.d[r].n = heap.d[r].n
    BY <1>6, <2>1, FlatKept DEF None
  <2>3. QED
    BY <2>1, <2>2 DEF FlatRow
<1>11. FreeS(K) >= WideCost(K, r)
  <2>1. WideCost(K, r) = WideCost(heap, r)
    BY <1>9 DEF WideCost
  <2>2. FreeS(K) >= FreeS(heap) - OwnCost(heap, r) /\ FreeS(K) \in Nat
    BY <1>9, <1>10, FreeCounts DEF Does, Good
  <2>3. PICK a : a = OwnCost(heap, r)
    OBVIOUS
  <2>4. PICK b : b = WideCost(heap, r)
    OBVIOUS
  <2>5. a \in Nat /\ b \in Nat /\ FreeS(heap) \in Nat /\ FreeS(heap) >= a + b
        /\ FreeS(K) >= FreeS(heap) - a
    BY <1>7, <2>2, <2>3, <2>4
  <2>6. FreeS(K) >= b
    BY <2>2, <2>5
  <2>7. QED
    BY <2>1, <2>4, <2>6
<1>12. /\ W.d[r].off = heap.d[r].off /\ FreeS(K) >= WriteCost(K, r, x)
       /\ WriteCost(K, r, x) \in Nat
  BY <1>2, <1>10, <1>11, WidenedBounds
<1>13. heap' = store_set(W, W.d[r].base, at, x)
  BY <1>3, <1>12
<1>14. heap' \in Writes(K, r, at, x)
  BY <1>2, <1>13 DEF Writes
<1>15. at \in 1 .. Len(K.s[K.d[r].base].e)
  BY <1>5, <1>10, PlaceIn
<1>16. QED
  BY <1>4, <1>6, <1>8, <1>9, <1>10, <1>12, <1>14, <1>15 DEF SetReady

LEMMA SetElemSafe ==
  ASSUME RowInv, NEW c \in Var, NEW i \in 1 .. MaxLen, NEW x \in Scalar, set_elem(c, i, x)
  PROVE  RowInv'
<1>1. Safe(heap, cell, stack) /\ UNCHANGED <<cell, stack, prog>>
  BY DEF RowInv, set_elem
<1>2. PICK C : C = Held(cell, stack)
  OBVIOUS
<1>3. PICK V : V = Declared(cell, Var)
  OBVIOUS
<1>4. PICK r : r = cell[c]
  OBVIOUS
<1>5. PICK K : K = own_store(heap, r)
  OBVIOUS
<1>6. PICK at : at = heap.d[r].off + i
  OBVIOUS
<1>7. PICK G : G = heap'
  OBVIOUS
<1>8. SetReady(C, V, r, K, at, x, G)
  BY <1>2, <1>3, <1>4, <1>5, <1>6, <1>7, SetElemReady
<1>9. Does(K, G, C, V, None, None, 0, WriteCost(K, r, x))
  <2>1. Good(K, C, V, None) /\ Scalars(K.s[K.d[r].base]) /\ r \in DOMAIN K.d /\ Inside(K, K.d[r])
    BY <1>8 DEF SetReady, Does, FlatRow
  <2>2. x \in Value /\ ~IsRow(x)
    BY ScalarElem
  <2>3. QED
    BY <1>8, <2>1, <2>2, ScalarTo DEF SetReady
<1>10. Does(heap, G, C, V, None, None, 0 + 0, OwnCost(heap, r) + WriteCost(K, r, x))
  <2>1. OwnCost(heap, r) \in Nat /\ WriteCost(K, r, x) \in Nat /\ Shape(heap)
    BY <1>8, CostsAreNumbers DEF SetReady, Good
  <2>2. Does(heap, K, C, V, None, None, 0, OwnCost(heap, r))
    BY <1>8 DEF SetReady
  <2>3. QED
    BY <1>9, <2>1, <2>2, DoesBoth
<1>11. Safe(G, cell, stack)
  BY <1>1, <1>2, <1>3, <1>10, Stays DEF None
<1>12. QED
  BY <1>1, <1>7, <1>11, NextRowInv

(* own_store: the elements are those there were, and no other store is changed. *)
LEMMA OwnElse ==
  ASSUME NEW H, NEW C, NEW V, NEW O, Good(H, C, V, O), NEW o \in DOMAIN H.d, Inside(H, H.d[o]),
         FreeS(H) >= OwnCost(H, o), NEW G, G = own_store(H, o)
  PROVE  /\ G.s[G.d[o].base].e = H.s[H.d[o].base].e
         /\ \A t \in DOMAIN H.s : t # H.d[o].base => G.s[t] = H.s[t]
<1>1. PICK st : st = H.d[o].base
  OBVIOUS
<1>2. st \in DOMAIN H.s /\ H.s[st] \in Store /\ H.d[o] \in Desc
  BY <1>1, ShapeParts DEF Good, Inside
<1>3. CASE ~(H.s[st].rc > 1)
  BY <1>1, <1>3 DEF own_store
<1>4. CASE H.s[st].rc > 1
  <2>1. PICK k : k = NextStore(H)
    OBVIOUS
  <2>2. k \in StoreAddr \ DOMAIN H.s
    <3>1. FreeS(H) \in Nat /\ FreeS(H) >= 1
      BY <1>1, <1>4, FreeCounts DEF Good, OwnCost
    <3>2. FreeS(H) > 0
      BY <3>1
    <3>3. QED
      BY <2>1, <3>2, NextFree DEF Good
  <2>3. PICK x : x = [H.s[st] EXCEPT !.rc = 1]
    OBVIOUS
  <2>4. x.e = H.s[st].e
    BY <1>2, <2>3 DEF Store
  <2>5. PICK K : K = store_alloc(H, x)
    OBVIOUS
  <2>6. K.s = With(H.s, k, x) /\ K.d = H.d /\ K = [d |-> K.d, s |-> K.s]
    <3>1. H = [d |-> H.d, s |-> H.s]
      BY DEF Good, Shape
    <3>2. QED
      BY <2>1, <2>5, <3>1 DEF store_alloc
  <2>7. K.s[k] = x /\ \A t \in DOMAIN H.s : K.s[t] = H.s[t]
    BY <2>2, <2>6 DEF With
  <2>8. G = [K EXCEPT !.s[st].rc = @ - 1, !.d[o].base = k]
    BY <1>1, <1>4, <2>1, <2>3, <2>5 DEF own_store
  <2>9. G.d[o].base = k
    BY <1>2, <2>6, <2>8 DEF Desc
  <2>10. \A t : t # st => G.s[t] = K.s[t]
    BY <2>6, <2>8
  <2>11. QED
    BY <1>1, <1>2, <2>2, <2>4, <2>7, <2>9, <2>10
<1>5. QED
  BY <1>3, <1>4

(* A row in a row of rows is not of its store. *)
LEMMA RowApart ==
  ASSUME NEW H, NEW C, NEW V, NEW O, Good(H, C, V, O), NEW r \in C, DeepRow(H, r),
         NEW i \in 1 .. H.d[r].n, NEW e, e = rowd_get(H, r, i), O = None
  PROVE  /\ IsRow(e) /\ e \in DescAddr \ C /\ FlatRow(H, e) /\ e # r
         /\ H.d[e].base # H.d[r].base
<1>1. PICK st : st = H.d[r].base
  OBVIOUS
<1>2. PICK j : j = H.d[r].off + i
  OBVIOUS
<1>3. r \in DOMAIN H.d /\ Inside(H, H.d[r]) /\ st = rowd_store(H, r) /\ st \in DOMAIN H.s
  BY <1>1, StoreOf DEF DeepRow, Inside
<1>4. j \in 1 .. Len(H.s[st].e) /\ e = H.s[st].e[j]
  BY <1>2, <1>3, RowElement
<1>5. IsRow(e) /\ e \in DescAddr \ C /\ FlatRow(H, e)
  BY <1>1, <1>3, <1>4, RowIn DEF DeepRow
<1>6. ~Scalars(H.s[st])
  BY <1>3, <1>4, <1>5, ElementOf
<1>7. QED
  BY <1>1, <1>5, <1>6 DEF FlatRow

(* The row at i of the row r of rows, once r has a store of its own. *)
LEMMA OwnedRow ==
  ASSUME NEW H, NEW C, NEW V, Good(H, C, V, None), NEW r \in C, DeepRow(H, r),
         NEW i \in 1 .. H.d[r].n, NEW e, e = rowd_get(H, r, i), FreeS(H) >= OwnCost(H, r),
         NEW G, G = own_store(H, r)
  PROVE  /\ Does(H, G, C, V, None, None, 0, OwnCost(H, r))
         /\ e = rowd_get(G, r, i) /\ e \in DescAddr \ C /\ FlatRow(H, e) /\ FlatRow(G, e)
         /\ G.d[e] = H.d[e] /\ OwnCost(G, e) = OwnCost(H, e) /\ WideCost(G, e) = WideCost(H, e)
<1>1. r \in DOMAIN H.d /\ Inside(H, H.d[r])
  BY DEF DeepRow
<1>2. /\ e \in DescAddr \ C /\ FlatRow(H, e) /\ e # r /\ H.d[e].base # H.d[r].base
  BY RowApart
<1>3. Moved(H, G, r) /\ Does(H, G, C, V, None, None, 0, OwnCost(H, r))
  BY <1>1, OwnStore
<1>4. /\ G.s[G.d[r].base].e = H.s[H.d[r].base].e
      /\ \A t \in DOMAIN H.s : t # H.d[r].base => G.s[t] = H.s[t]
  BY <1>1, OwnElse
<1>5. DeepRow(G, r) /\ FlatRow(G, e) /\ G.d[r].off = H.d[r].off
  BY <1>2, <1>3, DeepKept, FlatKept DEF None
<1>6. rowd_store(G, r) = G.d[r].base /\ rowd_store(H, r) = H.d[r].base
  BY <1>1, <1>3, <1>5, StoreOf DEF Does, DeepRow
<1>7. e = rowd_get(G, r, i)
  BY <1>4, <1>5, <1>6 DEF rowd_get
<1>8. G.d[e] = H.d[e] /\ H.d[e].base \in DOMAIN H.s
  BY <1>2, <1>3 DEF Moved, FlatRow, Inside
<1>9. G.s[G.d[e].base] = H.s[H.d[e].base]
  BY <1>2, <1>4, <1>8
<1>10. OwnCost(G, e) = OwnCost(H, e) /\ WideCost(G, e) = WideCost(H, e)
  BY <1>9 DEF OwnCost, WideCost
<1>11. QED
  BY <1>2, <1>3, <1>5, <1>7, <1>8, <1>10

(* the costs of an assignment to an element *)
LEMMA ElemCosts ==
  ASSUME NEW x \in {0, 1}, NEW a \in Nat, NEW b \in Nat, NEW fs \in Nat, NEW gs \in Nat,
         fs >= x + a + b, gs >= fs - a
  PROVE  fs >= a /\ gs >= b /\ (x = 1 => gs > 0)
OBVIOUS

(* AssignRow on a row of scalars in a row: it is written, or replaced. *)
LEMMA AssignFlat ==
  ASSUME NEW H, NEW C, NEW V, Good(H, C, V, None), prog \in Programs, NEW e, e \notin C,
         FlatRow(H, e), NEW src, FlatRow(H, src), NEW flex \in BOOLEAN,
         NEW x, x = (IF flex \/ ~same_bounds(H, e, src) THEN 1 ELSE 0),
         FreeS(H) >= OwnCost(H, e) + WideCost(H, e), x = 1 => FreeS(H) > 0 /\ FreeD(H) >= 1,
         NEW G, G = AssignRow(H, e, src, flex)
  PROVE  \E nd \in Nat, ns \in Nat : Does(H, G, C, V, None, {e}, nd, ns)
<1>1. e \in DOMAIN H.d /\ src \in DOMAIN H.d /\ Inside(H, H.d[e]) /\ Inside(H, H.d[src])
  BY DEF FlatRow
<1>2. rowd_store(H, src) = H.d[src].base /\ rowd_owner(H, e) = e
  BY <1>1, StoreOf
<1>3. CASE ~flex /\ same_bounds(H, e, src)
  <2>1. G = row_copy_into(H, e, src)
    BY <1>3 DEF AssignRow
  <2>2. PICK ns : ns = OwnCost(H, e) + WideCost(H, e)
    OBVIOUS
  <2>3. Does(H, G, C, V, None, None, 0, ns) /\ ns \in Nat
    <3>1. Does(H, G, C, V, None, None, 0, ns)
      BY <1>1, <1>2, <1>3, <2>1, <2>2, FlatInto
    <3>2. ns \in Nat
      BY <2>2, CostsAreNumbers
    <3>3. QED
      BY <3>1, <3>2
  <2>4. Does(H, G, C, V, None, {e}, 0, ns)
    BY <2>3, DoesLess DEF Good, None
  <2>5. QED
    BY <2>3, <2>4
<1>4. CASE flex \/ ~same_bounds(H, e, src)
  <2>1. G = row_replace(H, e, src) /\ x = 1
    BY <1>4 DEF AssignRow
  <2>2. PICK n : n = H.d[src].n
    OBVIOUS
  <2>3. CopyCost(H, src, n) = 0
    BY <1>2 DEF CopyCost, FlatRow
  <2>4. e \notin V
    BY DEF Good
  <2>5. FreeD(H) >= 1 + CopyCost(H, src, H.d[src].n) /\ FreeS(H) > 0
    BY <2>1, <2>2, <2>3
  <2>6. MayTake(H, C, V, e, src)
    BY <1>1, <1>2, <2>4, <2>5 DEF MayTake, FlatRow
  <2>7. PICK D : D = {e}
    OBVIOUS
  <2>8. Does(H, G, C, V, None, D, 1 + CopyCost(H, src, H.d[src].n), 1)
    BY <1>1, <2>1, <2>6, <2>7, Replace
  <2>9. Does(H, G, C, V, None, D, 1, 1)
    BY <2>2, <2>3, <2>8
  <2>10. QED
    BY <2>7, <2>9
<1>5. QED
  BY <1>3, <1>4

(* The row e in the variable's row r may be assigned src in K, the heap once r has a store of its
   own. *)
IsElem(H, e) == IsRow(e) /\ \E st \in DOMAIN H.s : \E j \in DOMAIN H.s[st].e : H.s[st].e[j] = e
ElemReady(C, V, r, K, e, src, flex, x, G) ==
  /\ Good(heap, C, V, None) /\ r \in C /\ Inside(heap, heap.d[r])
  /\ FreeS(heap) >= OwnCost(heap, r) /\ Does(heap, K, C, V, None, None, 0, OwnCost(heap, r))
  /\ e \in DescAddr \ C /\ IsElem(K, e) /\ FlatRow(K, e) /\ FlatRow(K, src)
  /\ x = (IF flex \/ ~same_bounds(K, e, src) THEN 1 ELSE 0) /\ AssignOK(K, e, src, flex)
  /\ FreeS(K) >= OwnCost(K, e) + WideCost(K, e) /\ (x = 1 => FreeS(K) > 0 /\ FreeD(K) >= 1)
  /\ G = AssignRow(K, e, src, flex)

LEMMA AssignElemReady ==
  ASSUME RowInv, NEW c \in Var, NEW i \in 1 .. MaxLen, assign_elem(c, i),
         NEW C, C = Held(cell, stack), NEW V, V = Declared(cell, Var), NEW r, r = cell[c],
         NEW K, K = own_store(heap, r), NEW e, e = rowd_get(heap, r, i), NEW src, src = Top.p,
         NEW flex, flex = (c \in Flex),
         NEW x, x = (IF flex \/ ~same_bounds(heap, e, src) THEN 1 ELSE 0)
  PROVE  ElemReady(C, V, r, K, e, src, flex, x, heap')
<1>1. Safe(heap, cell, stack) /\ prog \in Programs /\ c \in Cell /\ cell[c] # Nil
  BY Cells DEF RowInv, assign_elem
<1>2. /\ heap' = AssignRow(K, rowd_get(K, r, i), src, flex) /\ AssignOK(K, rowd_get(K, r, i), src, flex)
      /\ TopRow /\ i <= heap.d[r].n /\ IsRow(e) /\ IsFlat(src)
      /\ Uses("assign_elem", x, x + OwnNeeds(r) + OwnNeeds(e))
  BY DEF assign_elem
<1>3. /\ Good(heap, C, V, None) /\ Shape(heap) /\ r \in C /\ r \in DOMAIN heap.d
      /\ Inside(heap, heap.d[r]) /\ heap.d[r].n \in Nat
  BY <1>1, HeldIn, ShapeParts, DescParts DEF Plain
<1>4. /\ Plain(heap, src) /\ src \in C /\ src \in DOMAIN heap.d
  BY <1>2, TopParts DEF TopRow, Plain
<1>5. FlatRow(heap, src)
  BY <1>2, <1>3, <1>4, KindOf DEF FlatRow, Plain
<1>6. i \in 1 .. heap.d[r].n
  <2>1. i \in Nat /\ i > 0
    BY Sizes
  <2>2. QED
    BY <1>2, <1>3, <2>1
<1>7. DeepRow(heap, r)
  BY <1>2, <1>3, <1>6, KindByElem
<1>8. e \in DescAddr \ C /\ FlatRow(heap, e)
  BY <1>3, <1>6, <1>7, RowApart
<1>9. PICK a : a = OwnCost(heap, r)
  OBVIOUS
<1>10. PICK b : b = OwnCost(heap, e) + WideCost(heap, e)
  OBVIOUS
<1>11. a \in Nat /\ b \in Nat /\ x \in {0, 1} /\ FreeS(heap) \in Nat /\ FreeD(heap) \in Nat
  <2>1. a \in Nat /\ b \in Nat
    BY <1>9, <1>10, CostsAreNumbers
  <2>2. QED
    BY <1>3, <2>1, FreeCounts
<1>12. FreeS(heap) >= x + a + b /\ FreeD(heap) >= x
  <2>1. rowd_owner(heap, r) = r /\ rowd_owner(heap, e) = e
    BY <1>3, <1>8, StoreOf DEF FlatRow
  <2>2. OwnNeeds(r) = a + WideCost(heap, r) /\ OwnNeeds(e) = b
    BY <1>9, <1>10, <2>1, OwnNeedsIs
  <2>3. PICK w : w = WideCost(heap, r)
    OBVIOUS
  <2>4. w \in Nat
    BY <2>3 DEF WideCost
  <2>5. PICK m : m = x + OwnNeeds(r) + OwnNeeds(e)
    OBVIOUS
  <2>6. m = x + (a + w) + b
    BY <2>2, <2>3, <2>5
  <2>7. m \in Nat /\ x \in Nat
    BY <1>11, <2>4, <2>6
  <2>8. FreeS(heap) >= m /\ FreeD(heap) >= x
    BY <1>2, <2>5, <2>7, UsesFree
  <2>9. QED
    BY <1>11, <2>4, <2>6, <2>8
<1>13. FreeS(heap) >= a
  BY <1>11, <1>12
<1>14. /\ Does(heap, K, C, V, None, None, 0, a) /\ e = rowd_get(K, r, i) /\ FlatRow(K, e)
       /\ K.d[e] = heap.d[e] /\ OwnCost(K, e) + WideCost(K, e) = b
  BY <1>3, <1>6, <1>7, <1>9, <1>10, <1>13, OwnedRow
<1>15. Good(K, C, V, None) /\ FreeS(K) \in Nat /\ FreeD(K) \in Nat
  BY <1>14, FreeCounts DEF Does, Good
<1>16. FreeS(K) >= FreeS(heap) - a /\ FreeD(K) >= FreeD(heap)
  <2>1. FreeD(K) >= FreeD(heap) - 0 /\ FreeS(K) >= FreeS(heap) - a
    BY <1>14 DEF Does
  <2>2. QED
    BY <1>11, <1>15, <2>1
<1>17. FreeS(K) >= OwnCost(K, e) + WideCost(K, e) /\ (x = 1 => FreeS(K) > 0 /\ FreeD(K) >= 1)
  <2>1. FreeS(K) >= b /\ (x = 1 => FreeS(K) > 0)
    BY <1>11, <1>12, <1>15, <1>16, ElemCosts
  <2>2. x = 1 => FreeD(K) >= 1
    BY <1>11, <1>12, <1>15, <1>16
  <2>3. QED
    BY <1>14, <2>1, <2>2
<1>18. FlatRow(K, src) /\ K.d[src].n = heap.d[src].n
  <2>1. Does(heap, K, C, V, None, None, 0, a)
    BY <1>14
  <2>2. QED
    BY <1>5, <2>1, FlatKept DEF None
<1>19. x = (IF flex \/ ~same_bounds(K, e, src) THEN 1 ELSE 0)
  BY <1>14, <1>18 DEF same_bounds
<1>20. IsElem(K, e)
  <2>1. DeepRow(K, r) /\ K.d[r].n = heap.d[r].n
    BY <1>7, <1>14, DeepKept DEF None
  <2>2. PICK st : st = rowd_store(K, r)
    OBVIOUS
  <2>3. PICK j : j = K.d[r].off + i
    OBVIOUS
  <2>4. r \in DOMAIN K.d /\ i \in 1 .. K.d[r].n
    BY <1>6, <2>1 DEF DeepRow
  <2>5. st \in DOMAIN K.s /\ j \in 1 .. Len(K.s[st].e) /\ e = K.s[st].e[j]
    <3>1. PICK H : H = K
      OBVIOUS
    <3>2. Good(H, C, V, None) /\ r \in DOMAIN H.d /\ i \in 1 .. H.d[r].n /\ e = rowd_get(H, r, i)
          /\ st = rowd_store(H, r) /\ j = H.d[r].off + i
      BY <1>14, <1>15, <2>2, <2>3, <2>4, <3>1
    <3>3. st \in DOMAIN H.s
      BY <3>2, StoreOf
    <3>4. j \in 1 .. Len(H.s[st].e) /\ e = H.s[st].e[j]
      BY <3>2, RowElement
    <3>5. QED
      BY <3>1, <3>3, <3>4
  <2>6. j \in DOMAIN K.s[st].e
    BY <1>15, <2>5, ShapeParts, StoreParts DEF Good
  <2>7. QED
    BY <1>2, <2>5, <2>6 DEF IsElem
<1>21. heap' = AssignRow(K, e, src, flex) /\ AssignOK(K, e, src, flex)
  BY <1>2, <1>14
<1>22. QED
  BY <1>3, <1>8, <1>9, <1>13, <1>14, <1>17, <1>18, <1>19, <1>20, <1>21 DEF ElemReady

LEMMA AssignElemSafe ==
  ASSUME RowInv, NEW c \in Var, NEW i \in 1 .. MaxLen, assign_elem(c, i)
  PROVE  RowInv'
<1>1. Safe(heap, cell, stack) /\ prog \in Programs /\ c \in Cell /\ cell[c] # Nil
  BY Cells DEF RowInv, assign_elem
<1>2. PICK C : C = Held(cell, stack)
  OBVIOUS
<1>3. PICK V : V = Declared(cell, Var)
  OBVIOUS
<1>4. PICK r : r = cell[c]
  OBVIOUS
<1>5. PICK K : K = own_store(heap, r)
  OBVIOUS
<1>6. PICK e : e = rowd_get(heap, r, i)
  OBVIOUS
<1>7. PICK src : src = Top.p
  OBVIOUS
<1>8. PICK flex : flex = (c \in Flex)
  OBVIOUS
<1>9. PICK x : x = (IF flex \/ ~same_bounds(heap, e, src) THEN 1 ELSE 0)
  OBVIOUS
<1>10. PICK G : G = heap'
  OBVIOUS
<1>11. ElemReady(C, V, r, K, e, src, flex, x, G)
  BY <1>2, <1>3, <1>4, <1>5, <1>6, <1>7, <1>8, <1>9, <1>10, AssignElemReady
<1>12. flex \in BOOLEAN /\ e \notin C /\ Good(K, C, V, None)
  BY <1>8, <1>11 DEF ElemReady, Does
<1>13. PICK nd \in Nat, ns \in Nat : Does(K, G, C, V, None, {e}, nd, ns)
  BY <1>1, <1>11, <1>12, AssignFlat DEF ElemReady
<1>14. PICK D : D = {e}
  OBVIOUS
<1>15. PICK a : a = OwnCost(heap, r)
  OBVIOUS
<1>16. a \in Nat /\ Shape(heap)
  BY <1>11, <1>15, CostsAreNumbers DEF ElemReady, Good
<1>17. Does(heap, K, C, V, None, D, 0, a)
  <2>1. Does(heap, K, C, V, None, None, 0, a)
    BY <1>11, <1>15 DEF ElemReady
  <2>2. QED
    BY <1>16, <2>1, DoesLess DEF None
<1>18. Does(heap, G, C, V, None, D, 0 + nd, a + ns)
  BY <1>13, <1>14, <1>16, <1>17, DoesBoth
<1>19. Safe(G, cell, stack)
  <2>1. \A d \in Cell : cell[d] # Nil => cell[d] \notin D
    BY <1>1, <1>2, <1>12, <1>14, HeldIn
  <2>2. QED
    BY <1>1, <1>2, <1>3, <1>18, <2>1, Stays
<1>20. stack' = Rest /\ UNCHANGED <<cell, prog>> /\ Len(stack) > 0
  BY DEF assign_elem, TopRow
<1>21. QED
  BY <1>10, <1>19, <1>20, DropsTop

(* A longer store for a row of n elements: those it has, and room for more. *)
Longer(y, n) ==
  [leaf |-> y.leaf, rc |-> 1,
   e |-> [i \in 1 .. n + 1 + Spare |-> IF i <= n THEN y.e[i] ELSE Undef]]

(* It is one of scalars that may take the place of a store that is full. *)
LEMMA LongerStore ==
  ASSUME prog \in Programs, NEW H, NEW C, NEW y \in Store, Scalars(y), Sound(H, C, None, y),
         NEW n \in Nat, n < prog.len, n <= Len(y.e), ~(n + 1 <= Len(y.e)), NEW x, x = Longer(y, n)
  PROVE  /\ x \in Store /\ Sound(H, C, None, x) /\ Scalars(x) /\ x.leaf = y.leaf
         /\ Len(y.e) <= Len(x.e) /\ n + 1 <= Len(x.e)
<1>1. PICK m : m = n + 1 + Spare
  OBVIOUS
<1>2. PICK f : f = [i \in 1 .. m |-> IF i <= n THEN y.e[i] ELSE Undef]
  OBVIOUS
<1>3. x = [leaf |-> y.leaf, rc |-> 1, e |-> f]
  BY <1>1, <1>2 DEF Longer
<1>4. m \in Nat /\ n + 1 <= m /\ m <= MaxLen + Spare
  BY <1>1, Sizes
<1>5. /\ y.leaf \in BOOLEAN /\ y.e \in Seq(Value) /\ Len(y.e) \in Nat /\ DOMAIN y.e = 1 .. Len(y.e)
      /\ \A i \in 1 .. Len(y.e) : y.e[i] \in Value
  BY StoreParts
<1>6. Undef \in Value /\ ~IsRow(Undef) /\ leaf_accepts(Undef)
  BY ScalarElem, Undefined
<1>7. \A i \in 1 .. m : f[i] = Undef \/ (i \in DOMAIN y.e /\ f[i] = y.e[i])
  BY <1>2, <1>5
<1>8. \A i \in 1 .. m : f[i] \in Value
  BY <1>5, <1>6, <1>7
<1>9. f \in Seq(Value) /\ Len(f) = m /\ DOMAIN f = 1 .. m
  <2>1. f \in [1 .. m -> Value]
    BY <1>2, <1>8
  <2>2. QED
    BY <1>4, <2>1
<1>10. x \in Store /\ x.e = f /\ x.leaf = y.leaf
  <2>1. 1 \in 0 .. RcMod - 1
    BY Sizes
  <2>2. QED
    BY <1>3, <1>5, <1>9, <2>1 DEF Store
<1>11. \A i \in 1 .. m : ~IsRow(f[i])
  BY <1>6, <1>7 DEF Scalars
<1>12. Scalars(x)
  BY <1>9, <1>10, <1>11 DEF Scalars
<1>13. Sound(H, C, None, x)
  <2>1. x.leaf => \A i \in DOMAIN x.e : leaf_accepts(x.e[i])
    BY <1>6, <1>7, <1>9, <1>10 DEF Sound
  <2>2. \A i \in DOMAIN x.e : Elem(H, C, None, x.e[i])
    BY <1>9, <1>10, <1>11 DEF Elem
  <2>3. QED
    BY <1>4, <1>9, <1>10, <2>1, <2>2 DEF Sound
<1>14. QED
  <2>1. Len(x.e) = m
    BY <1>9, <1>10
  <2>2. Len(y.e) <= m
    BY <1>4, <1>5
  <2>3. QED
    BY <1>4, <1>10, <1>12, <1>13, <2>1, <2>2

(* a share given back, the count a count even when it wraps *)
OneGone(H, st) == [H EXCEPT !.s[st].rc = (@ + RcMod - 1) % RcMod]
LEMMA GiveShare ==
  ASSUME NEW H, NEW C, NEW V, NEW O, Good(H, C, V, O), NEW st \in DOMAIN H.s,
         NEW G, G = OneGone(H, st)
  PROVE  Counts(H, G) /\ Does(H, G, C, V, O, None, 0, 0)
<1>1. H.s[st].rc \in Nat
  BY ShapeParts, StoreParts DEF Good
<1>2. PICK c : c = (H.s[st].rc + RcMod - 1) % RcMod
  OBVIOUS
<1>3. c \in 0 .. RcMod - 1
  <2>1. H.s[st].rc + RcMod - 1 \in Nat
    BY <1>1, Sizes
  <2>2. QED
    BY <1>2, <2>1, Wraps
<1>4. G = [H EXCEPT !.s[st].rc = c]
  BY <1>2 DEF OneGone
<1>5. QED
  BY <1>3, <1>4, SetCount

(* Grow moves the row to a longer store, and gives the share of the old one back. *)
LEMMA GrowMoves ==
  ASSUME NEW H, H = [d |-> H.d, s |-> H.s], NEW o, NEW st, st = H.d[o].base, NEW n, n = H.d[o].n,
         ~(n + 1 <= Len(H.s[st].e)), NEW x, x = Longer(H.s[st], n), NEW M, M = MoveTo(H, o, x),
         NEW G, G = Grow(H, o)
  PROVE  G = OneGone(M, st)
<1>1. PICK K : K = store_alloc(H, x)
  OBVIOUS
<1>2. PICK k : k = NextStore(H)
  OBVIOUS
<1>3. M = [K EXCEPT !.d[o].base = k]
  BY <1>1, <1>2 DEF MoveTo
<1>4. K = [d |-> K.d, s |-> K.s]
  BY <1>1 DEF store_alloc
<1>5. K.s = M.s
  BY <1>3, <1>4
<1>6. G = [K EXCEPT !.s[st].rc = (@ + RcMod - 1) % RcMod, !.d[o].base = k]
  BY <1>1, <1>2 DEF Grow, Longer
<1>7. PICK c : c = (K.s[st].rc + RcMod - 1) % RcMod
  OBVIOUS
<1>8. G = [K EXCEPT !.s[st].rc = c, !.d[o].base = k]
  BY <1>6, <1>7
<1>9. G = [M EXCEPT !.s[st].rc = c]
  BY <1>3, <1>4, <1>8, BothParts
<1>10. QED
  BY <1>5, <1>7, <1>9 DEF OneGone

(* Grow: the row of a variable has room for one element more. *)
LEMMA GrowRow ==
  ASSUME NEW H, NEW C, NEW V, Good(H, C, V, None), prog \in Programs, NEW o, FlatRow(H, o),
         H.d[o].n < prog.len, FreeS(H) > 0, NEW G, G = Grow(H, o), NEW D, o \in D
  PROVE  /\ Does(H, G, C, V, None, D, 0, 1) /\ H.d[o].n + 1 <= Len(G.s[G.d[o].base].e)
         /\ G.s[G.d[o].base].leaf = H.s[H.d[o].base].leaf /\ FlatRow(G, o)
         /\ G.d[o].off = H.d[o].off /\ G.d[o].n = H.d[o].n /\ H.d[o].base \in DOMAIN G.s
<1>1. PICK st : st = H.d[o].base
  OBVIOUS
<1>2. PICK n : n = H.d[o].n
  OBVIOUS
<1>3. PICK y : y = H.s[st]
  OBVIOUS
<1>4. /\ o \in DOMAIN H.d /\ Inside(H, H.d[o]) /\ st \in DOMAIN H.s /\ y \in Store /\ Scalars(y)
      /\ Sound(H, C, None, y) /\ n \in Nat /\ H.d[o].off \in Nat /\ Shape(H)
  BY <1>1, <1>2, <1>3, ShapeParts, DescParts DEF Good, Inside, FlatRow
<1>5. Len(y.e) \in Nat /\ n <= Len(y.e)
  <2>1. Len(y.e) \in Nat
    BY <1>4, StoreParts
  <2>2. H.d[o].off + H.d[o].n <= Len(y.e)
    BY <1>1, <1>3, <1>4 DEF Inside
  <2>3. QED
    BY <1>2, <1>4, <2>1, <2>2
<1>6. CASE n + 1 <= Len(y.e)
  <2>1. G = H
    BY <1>1, <1>2, <1>3, <1>6 DEF Grow
  <2>2. Does(H, G, C, V, None, None, 0, 0)
    BY <2>1, DoesNothing
  <2>3. Does(H, G, C, V, None, D, 0, 1)
    BY <1>4, <2>2, DoesLess DEF None
  <2>4. QED
    BY <1>1, <1>2, <1>3, <1>4, <1>6, <2>1, <2>3
<1>7. CASE ~(n + 1 <= Len(y.e))
  <2>1. PICK x : x = Longer(y, n)
    OBVIOUS
  <2>2. /\ x \in Store /\ Sound(H, C, None, x) /\ Scalars(x) /\ x.leaf = y.leaf
        /\ Len(y.e) <= Len(x.e) /\ n + 1 <= Len(x.e)
    BY <1>2, <1>4, <1>5, <1>7, <2>1, LongerStore
  <2>3. MayMove(H, C, D, o, x)
    BY <1>1, <1>3, <1>4, <2>2 DEF MayMove, Replaces
  <2>4. PICK M : M = MoveTo(H, o, x)
    OBVIOUS
  <2>5. GotStore(H, M, o, x) /\ Moved(H, M, o) /\ Does(H, M, C, V, None, D, 0, 1)
    BY <1>4, <2>2, <2>3, <2>4, MoveStore
  <2>6. G = OneGone(M, st)
    <3>1. H = [d |-> H.d, s |-> H.s] /\ ~(n + 1 <= Len(H.s[st].e)) /\ x = Longer(H.s[st], n)
      BY <1>3, <1>7, <2>1 DEF Good, Shape
    <3>2. QED
      BY <1>1, <1>2, <2>4, <3>1, GrowMoves
  <2>7. Good(M, C, V, None) /\ st \in DOMAIN M.s
    BY <1>4, <2>5 DEF Does, GotStore
  <2>8. Counts(M, G) /\ Does(M, G, C, V, None, None, 0, 0)
    BY <2>6, <2>7, GiveShare
  <2>9. Does(H, G, C, V, None, D, 0, 1)
    <3>1. Does(M, G, C, V, None, D, 0, 0)
      BY <2>7, <2>8, DoesLess DEF None, Good
    <3>2. Does(H, G, C, V, None, D, 0 + 0, 1 + 0)
      BY <1>4, <2>5, <3>1, DoesBoth
    <3>3. 0 + 0 = 0 /\ 1 + 0 = 1
      OBVIOUS
    <3>4. QED
      BY <3>2, <3>3
  <2>10. /\ G.d = M.d /\ G.d[o].base \in DOMAIN G.s /\ G.s[G.d[o].base].e = x.e
         /\ G.s[G.d[o].base].leaf = x.leaf
    BY <2>5, <2>8 DEF Counts, GotStore
  <2>11. G.d[o].off = H.d[o].off /\ G.d[o].n = n /\ o \in DOMAIN G.d
    BY <1>2, <1>4, <2>5, <2>10 DEF Moved
  <2>12. Scalars(G.s[G.d[o].base])
    BY <2>2, <2>10 DEF Scalars
  <2>13. Inside(G, G.d[o])
    BY <2>9, <2>10, <2>11, InsideOwn DEF Does
  <2>14. QED
    BY <1>1, <1>2, <1>3, <2>2, <2>7, <2>8, <2>9, <2>10, <2>11, <2>12, <2>13 DEF FlatRow, Counts
<1>8. QED
  BY <1>6, <1>7

(* append_in_place: a leaf that cannot hold the element x is made slots. *)
Slots(H, o, x) == IF TooWide(H, o, x) THEN OneGone(Widen(H, o), H.d[o].base) ELSE H
LEMMA SlotsFor ==
  ASSUME NEW H, NEW C, NEW V, Good(H, C, V, None), NEW o, FlatRow(H, o), NEW x \in Scalar,
         FreeS(H) >= WideCost(H, o), NEW G, G = Slots(H, o, x)
  PROVE  /\ Does(H, G, C, V, None, None, 0, WideCost(H, o)) /\ FlatRow(G, o)
         /\ G.d[o].off = H.d[o].off /\ G.d[o].n = H.d[o].n
         /\ Len(G.s[G.d[o].base].e) = Len(H.s[H.d[o].base].e)
         /\ G.s[G.d[o].base].leaf => leaf_accepts(x)
<1>1. o \in DOMAIN H.d /\ Inside(H, H.d[o]) /\ Scalars(H.s[H.d[o].base]) /\ Shape(H)
  BY DEF FlatRow, Good
<1>2. ~IsRow(x) /\ FreeS(H) \in Nat /\ WideCost(H, o) \in Nat
  BY <1>1, ScalarElem, FreeCounts DEF WideCost
<1>3. CASE ~TooWide(H, o, x)
  <2>1. G = H /\ (H.s[H.d[o].base].leaf => leaf_accepts(x))
    BY <1>3 DEF Slots, TooWide
  <2>2. Does(H, G, C, V, None, None, 0, 0)
    BY <2>1, DoesNothing
  <2>3. Does(H, G, C, V, None, None, 0, WideCost(H, o))
    BY <1>1, <1>2, <2>2, DoesLess
  <2>4. QED
    BY <2>1, <2>3
<1>4. CASE TooWide(H, o, x)
  <2>1. WideCost(H, o) = 1
    BY <1>2, <1>4 DEF TooWide, leaf_accepts, WideCost
  <2>2. FreeS(H) > 0
    BY <1>2, <2>1
  <2>3. PICK W : W = Widen(H, o)
    OBVIOUS
  <2>4. /\ Moved(H, W, o) /\ W.s[W.d[o].base].leaf = FALSE
        /\ W.s[W.d[o].base].e = H.s[H.d[o].base].e /\ Does(H, W, C, V, None, None, 0, 1)
    BY <1>1, <2>2, <2>3, WidenStore
  <2>5. Good(W, C, V, None) /\ H.d[o].base \in DOMAIN W.s
    BY <1>1, <2>4 DEF Does, Moved, Inside
  <2>6. G = OneGone(W, H.d[o].base)
    BY <1>4, <2>3 DEF Slots
  <2>7. Counts(W, G) /\ Does(W, G, C, V, None, None, 0, 0)
    BY <2>5, <2>6, GiveShare
  <2>8. Does(H, G, C, V, None, None, 0, 1)
    <3>1. Does(H, G, C, V, None, None, 0 + 0, 1 + 0)
      BY <1>1, <2>4, <2>7, DoesBoth
    <3>2. 0 + 0 = 0 /\ 1 + 0 = 1
      OBVIOUS
    <3>3. QED
      BY <3>1, <3>2
  <2>9. FlatRow(G, o) /\ G.d[o].off = H.d[o].off /\ G.d[o].n = H.d[o].n
    BY <2>8, FlatKept DEF None
  <2>10. G.s[G.d[o].base].e = H.s[H.d[o].base].e /\ G.s[G.d[o].base].leaf = FALSE
    BY <2>4, <2>7 DEF Moved, Counts
  <2>11. QED
    BY <2>1, <2>8, <2>9, <2>10
<1>5. QED
  BY <1>3, <1>4

(* The row of a variable gets the element after its last, which its store has room for. *)
LEMMA BoundMoved ==
  ASSUME NEW H, NEW C, NEW V, Good(H, C, V, None), prog \in Programs, NEW o, FlatRow(H, o), o \in C,
         o \in V => "slice_name" \notin Ops, H.d[o].off = 0, NEW n \in Nat, n < prog.len,
         n + 1 <= Len(H.s[H.d[o].base].e), NEW D, o \in D, NEW G, G = [H EXCEPT !.d[o].n = n + 1]
  PROVE  Does(H, G, C, V, None, D, 0, 0) /\ FlatRow(G, o)
<1>1. o \in DOMAIN H.d /\ Inside(H, H.d[o]) /\ H.d[o] \in Desc /\ Scalars(H.s[H.d[o].base])
  BY ShapeParts DEF FlatRow, Good
<1>2. PICK y : y = [H.d[o] EXCEPT !.n = n + 1]
  OBVIOUS
<1>3. n + 1 \in 0 .. prog.len
  BY Sizes
<1>4. y \in Desc /\ y.base = H.d[o].base /\ y.off = 0 /\ y.n = n + 1
  BY <1>1, <1>2, <1>3 DEF Desc
<1>5. Inside(H, y)
  <2>1. 0 + (n + 1) = n + 1
    OBVIOUS
  <2>2. QED
    BY <1>1, <1>4, <2>1 DEF Inside
<1>6. Unseen(H, o)
  BY <1>1, ElementUnseen
<1>7. MaySet(H, C, None, D, o, y)
  BY <1>1, <1>4, <1>5, <1>6 DEF MaySet
<1>8. G = WithDesc(H, o, y)
  BY <1>2 DEF WithDesc
<1>9. OneDesc(H, G, o, y) /\ Does(H, G, C, V, None, D, 0, 0)
  BY <1>1, <1>4, <1>7, <1>8, SetDesc
<1>10. FlatRow(G, o)
  BY <1>1, <1>4, <1>5, <1>9 DEF OneDesc, FlatRow, Inside
<1>11. QED
  BY <1>9, <1>10

(* x is written in slot at of the store of row o, which has the slot and can hold it there *)
PutIn(H, G, o, at, x) ==
  /\ at \in 1 .. Len(H.s[H.d[o].base].e) /\ (H.s[H.d[o].base].leaf => leaf_accepts(x))
  /\ G = store_set(H, H.d[o].base, at, x)
(* the row has its extent and its store's length still *)
SameExtent(H, G, o) ==
  /\ G.d[o].off = H.d[o].off /\ G.d[o].n = H.d[o].n
  /\ Len(G.s[G.d[o].base].e) = Len(H.s[H.d[o].base].e)

(* A scalar is written in a row of scalars, in a slot that can hold it. *)
LEMMA ScalarPut ==
  ASSUME NEW H, NEW C, NEW V, Good(H, C, V, None), NEW o, FlatRow(H, o), NEW x \in Scalar,
         NEW at, NEW G, PutIn(H, G, o, at, x)
  PROVE  Does(H, G, C, V, None, None, 0, 0) /\ FlatRow(G, o) /\ SameExtent(H, G, o)
<1>0. /\ at \in 1 .. Len(H.s[H.d[o].base].e) /\ (H.s[H.d[o].base].leaf => leaf_accepts(x))
      /\ G = store_set(H, H.d[o].base, at, x)
  BY DEF PutIn
<1>1. PICK st : st = H.d[o].base
  OBVIOUS
<1>2. o \in DOMAIN H.d /\ st \in DOMAIN H.s /\ Scalars(H.s[st]) /\ H.s[st] \in Store
  BY <1>1, ShapeParts DEF FlatRow, Inside, Good
<1>3. H.s[st].e \in Seq(Value) /\ DOMAIN H.s[st].e = 1 .. Len(H.s[st].e)
  BY <1>2, StoreParts
<1>4. x \in Value /\ ~IsRow(x) /\ Elem(H, C, None, x)
  BY ScalarElem
<1>5. OfKind(H.s[st], x)
  BY <1>0, <1>1, <1>2, <1>3, <1>4 DEF OfKind, Scalars, Rows
<1>6. MayHold(H, C, None, st, at, x)
  BY <1>0, <1>1, <1>4 DEF MayHold
<1>7. SlotSet(H, G, st, at, x) /\ Does(H, G, C, V, None, None, 0, 0)
  BY <1>0, <1>1, <1>2, <1>5, <1>6, SetSlot
<1>8. FlatRow(G, o) /\ G.d[o].off = H.d[o].off /\ G.d[o].n = H.d[o].n
  BY <1>7, FlatKept DEF None
<1>9. G.d[o].base = st /\ G.s[st].e = [H.s[st].e EXCEPT ![at] = x]
  BY <1>1, <1>2, <1>7 DEF SlotSet, SameBounds
<1>10. Len(G.s[st].e) = Len(H.s[st].e)
  <2>1. H.s[st].e \in Seq(Value) /\ at \in 1 .. Len(H.s[st].e) /\ x \in Value
    BY <1>0, <1>1, <1>3, <1>4
  <2>2. QED
    BY <1>9, <2>1, SeqSet
<1>11. QED
  BY <1>1, <1>7, <1>8, <1>9, <1>10 DEF SameExtent

(* the costs of an append in place *)
LEMMA AppendCosts ==
  ASSUME NEW a \in Nat, NEW b \in Nat, NEW f0 \in Nat, NEW f1 \in Nat, NEW f2 \in Nat,
         f0 >= a + b + 1, f1 >= f0 - a, f2 >= f1 - 1
  PROVE  f0 >= a /\ f1 > 0 /\ f2 >= b
OBVIOUS

(* append_in_place: the row of a flexible variable gets one element more. *)
(* append_in_place, step by step: the row o gets a store of its own in K, with room for an element
   more in M, that can hold x in W; x is put in it in S, and the row's bound moved in G. *)
Grows(H, K, M, C, V, D, o, n) ==
  /\ K = own_store(H, o) /\ FreeS(H) >= OwnCost(H, o)
  /\ Does(H, K, C, V, None, None, 0, OwnCost(H, o))
  /\ FlatRow(K, o) /\ FreeS(K) > 0 /\ K.d[o].n = n
  /\ M = Grow(K, o) /\ Does(K, M, C, V, None, D, 0, 1)
Puts(M, W, S, G, C, V, D, o, n, x) ==
  /\ FlatRow(M, o) /\ FreeS(M) >= WideCost(M, o) /\ WideCost(M, o) \in Nat
  /\ W = Slots(M, o, x) /\ Does(M, W, C, V, None, None, 0, WideCost(M, o)) /\ FlatRow(W, o)
  /\ PutIn(W, S, o, n + 1, x) /\ Does(W, S, C, V, None, None, 0, 0)
  /\ FlatRow(S, o) /\ S.d[o].off = 0 /\ S.d[o].n = n
  /\ G = [S EXCEPT !.d[o].n = n + 1] /\ Does(S, G, C, V, None, D, 0, 0)

LEMMA AppendSteps ==
  ASSUME NEW H, NEW C, NEW V, Good(H, C, V, None), prog \in Programs, NEW o, FlatRow(H, o), o \in C,
         o \in V => "slice_name" \notin Ops, H.d[o].off = 0, H.d[o].n < prog.len, NEW x \in Scalar,
         FreeS(H) >= OwnCost(H, o) + WideCost(H, o) + 1, NEW D, o \in D,
         NEW G, G = append_in_place(H, o, x), NEW n, n = H.d[o].n
  PROVE  /\ FlatRow(G, o) /\ n \in Nat
         /\ \E K, M, W, S : Grows(H, K, M, C, V, D, o, n) /\ Puts(M, W, S, G, C, V, D, o, n, x)
<1>1. n = H.d[o].n
  OBVIOUS
<1>2. /\ o \in DOMAIN H.d /\ Inside(H, H.d[o]) /\ Scalars(H.s[H.d[o].base]) /\ Shape(H)
      /\ n \in Nat
  BY <1>1, ShapeParts, DescParts DEF FlatRow, Good
<1>3. PICK a : a = OwnCost(H, o)
  OBVIOUS
<1>4. PICK b : b = WideCost(H, o)
  OBVIOUS
<1>5. a \in Nat /\ b \in Nat /\ FreeS(H) \in Nat /\ FreeS(H) >= a + b + 1 /\ FreeS(H) >= a
  <2>1. a \in Nat /\ b \in Nat /\ FreeS(H) \in Nat
    BY <1>2, <1>3, <1>4, FreeCounts DEF OwnCost, WideCost
  <2>2. FreeS(H) >= a + b + 1
    BY <1>3, <1>4
  <2>3. QED
    BY <2>1, <2>2
<1>6. PICK K : K = own_store(H, o)
  OBVIOUS
<1>7. /\ Does(H, K, C, V, None, None, 0, a) /\ K.s[K.d[o].base].leaf = H.s[H.d[o].base].leaf
  BY <1>2, <1>3, <1>5, <1>6, OwnStore
<1>8. /\ Good(K, C, V, None) /\ FlatRow(K, o) /\ K.d[o].off = 0 /\ K.d[o].n = n
      /\ WideCost(K, o) = b
  BY <1>1, <1>4, <1>7, FlatKept DEF Does, None, WideCost
<1>9. FreeS(K) \in Nat /\ FreeS(K) >= FreeS(H) - a
  BY <1>7, <1>8, FreeCounts DEF Does, Good
<1>10. FreeS(K) > 0
  <2>1. PICK f : f = FreeS(K)
    OBVIOUS
  <2>2. QED
    BY <1>5, <1>9
<1>11. PICK M : M = Grow(K, o)
  OBVIOUS
<1>12. /\ Does(K, M, C, V, None, D, 0, 1) /\ n + 1 <= Len(M.s[M.d[o].base].e)
       /\ M.s[M.d[o].base].leaf = K.s[K.d[o].base].leaf /\ FlatRow(M, o)
       /\ M.d[o].off = 0 /\ M.d[o].n = n
  BY <1>1, <1>8, <1>10, <1>11, GrowRow
<1>13. Good(M, C, V, None) /\ WideCost(M, o) = b
  BY <1>8, <1>12 DEF Does, WideCost
<1>14. FreeS(M) >= b
  <2>1. FreeS(M) \in Nat /\ FreeS(M) >= FreeS(K) - 1
    BY <1>12, <1>13, FreeCounts DEF Does, Good
  <2>2. QED
    BY <1>5, <1>9, <2>1, AppendCosts
<1>15. PICK W : W = Slots(M, o, x)
  OBVIOUS
<1>16. /\ Does(M, W, C, V, None, None, 0, b) /\ FlatRow(W, o) /\ W.d[o].off = 0
       /\ n + 1 <= Len(W.s[W.d[o].base].e) /\ (W.s[W.d[o].base].leaf => leaf_accepts(x))
       /\ W.d[o].n = n
  <2>1. FreeS(M) >= WideCost(M, o) /\ FlatRow(M, o) /\ Good(M, C, V, None)
    BY <1>12, <1>13, <1>14
  <2>2. /\ Does(M, W, C, V, None, None, 0, WideCost(M, o)) /\ FlatRow(W, o)
        /\ W.d[o].off = M.d[o].off /\ W.d[o].n = M.d[o].n /\ Len(W.s[W.d[o].base].e) = Len(M.s[M.d[o].base].e)
        /\ W.s[W.d[o].base].leaf => leaf_accepts(x)
    <3>1. /\ Good(M, C, V, None) /\ FlatRow(M, o) /\ x \in Scalar
          /\ FreeS(M) >= WideCost(M, o) /\ W = Slots(M, o, x)
      BY <1>15, <2>1
    <3>2. QED
      BY <3>1, SlotsFor
  <2>3. QED
    BY <1>12, <1>13, <2>2
<1>17. Good(W, C, V, None)
  BY <1>16 DEF Does
<1>18. PICK S : S = store_set(W, W.d[o].base, n + 1, x)
  OBVIOUS
<1>19. n + 1 \in 1 .. Len(W.s[W.d[o].base].e)
  <2>1. Len(W.s[W.d[o].base].e) \in Nat
    BY <1>16, <1>17, ShapeParts, StoreParts DEF Good, FlatRow, Inside
  <2>2. QED
    BY <1>2, <1>16, <2>1
<1>20. /\ PutIn(W, S, o, n + 1, x) /\ Does(W, S, C, V, None, None, 0, 0) /\ FlatRow(S, o)
       /\ S.d[o].off = 0 /\ S.d[o].n = n /\ n + 1 <= Len(S.s[S.d[o].base].e)
  <2>1. PutIn(W, S, o, n + 1, x) /\ FlatRow(W, o)
    BY <1>16, <1>18, <1>19 DEF PutIn
  <2>2. Does(W, S, C, V, None, None, 0, 0) /\ FlatRow(S, o) /\ SameExtent(W, S, o)
    BY <1>17, <2>1, ScalarPut
  <2>3. QED
    BY <1>16, <2>1, <2>2 DEF SameExtent
<1>21. G = [S EXCEPT !.d[o].n = n + 1]
  BY <1>1, <1>6, <1>11, <1>15, <1>18 DEF append_in_place, Slots, OneGone
<1>22. Does(S, G, C, V, None, D, 0, 0) /\ FlatRow(G, o)
  BY <1>1, <1>2, <1>20, <1>21, BoundMoved DEF Does
<1>23. Grows(H, K, M, C, V, D, o, n)
  <2>1. Does(H, K, C, V, None, None, 0, OwnCost(H, o)) /\ FreeS(H) >= OwnCost(H, o)
    BY <1>3, <1>5, <1>7
  <2>2. QED
    BY <1>6, <1>8, <1>10, <1>11, <1>12, <2>1 DEF Grows
<1>24. Puts(M, W, S, G, C, V, D, o, n, x)
  <2>1. Does(M, W, C, V, None, None, 0, WideCost(M, o))
    BY <1>13, <1>16
  <2>2. FreeS(M) >= WideCost(M, o) /\ WideCost(M, o) \in Nat
    BY <1>5, <1>13, <1>14
  <2>3. QED
    BY <1>12, <1>15, <1>16, <1>20, <1>21, <1>22, <2>1, <2>2 DEF Puts
<1>25. QED
  BY <1>2, <1>22, <1>23, <1>24

LEMMA AppendInPlace ==
  ASSUME NEW H, NEW C, NEW V, Good(H, C, V, None), prog \in Programs, NEW o, FlatRow(H, o), o \in C,
         o \in V => "slice_name" \notin Ops, H.d[o].off = 0, H.d[o].n < prog.len, NEW x \in Scalar,
         FreeS(H) >= OwnCost(H, o) + WideCost(H, o) + 1, NEW D, o \in D,
         NEW G, G = append_in_place(H, o, x)
  PROVE  FlatRow(G, o) /\ \E ns \in Nat : Does(H, G, C, V, None, D, 0, ns)
<1>1. PICK n : n = H.d[o].n
  OBVIOUS
<1>2. PICK K, M, W, S : Grows(H, K, M, C, V, D, o, n) /\ Puts(M, W, S, G, C, V, D, o, n, x)
  BY <1>1, AppendSteps
<1>3. FlatRow(G, o)
  BY AppendSteps
<1>4. PICK a : a = OwnCost(H, o)
  OBVIOUS
<1>5. PICK b : b = WideCost(M, o)
  OBVIOUS
<1>6. a \in Nat /\ b \in Nat
  BY <1>4, <1>5, CostsAreNumbers
<1>7. /\ Does(H, K, C, V, None, None, 0, a) /\ Does(K, M, C, V, None, D, 0, 1)
      /\ Does(M, W, C, V, None, None, 0, b) /\ Does(W, S, C, V, None, None, 0, 0)
      /\ Does(S, G, C, V, None, D, 0, 0)
  BY <1>2, <1>4, <1>5 DEF Grows, Puts
<1>8. Shape(H) /\ Shape(M) /\ Shape(W) /\ None \subseteq D
  BY <1>7 DEF Does, Good, None
<1>9. /\ Does(H, K, C, V, None, D, 0, a) /\ Does(M, W, C, V, None, D, 0, b)
      /\ Does(W, S, C, V, None, D, 0, 0)
  <2>1. Does(H, K, C, V, None, D, 0, a)
    BY <1>6, <1>7, <1>8, DoesLess
  <2>2. Does(M, W, C, V, None, D, 0, b)
    BY <1>6, <1>7, <1>8, DoesLess
  <2>3. Does(W, S, C, V, None, D, 0, 0)
    BY <1>7, <1>8, DoesLess
  <2>4. QED
    BY <2>1, <2>2, <2>3
<1>10. \E ns \in Nat : Does(H, G, C, V, None, D, 0, ns)
  <2>1. Does(H, M, C, V, None, D, 0 + 0, a + 1)
    BY <1>6, <1>7, <1>8, <1>9, DoesBoth
  <2>2. PICK c \in Nat, d \in Nat : Does(H, M, C, V, None, D, c, d) /\ c = 0 + 0
    BY <1>6, <2>1
  <2>3. Does(H, W, C, V, None, D, c + 0, d + b)
    BY <1>6, <1>8, <1>9, <2>2, DoesBoth
  <2>4. PICK e \in Nat, f \in Nat : Does(H, W, C, V, None, D, e, f) /\ e = c + 0
    BY <1>6, <2>2, <2>3
  <2>5. Does(H, S, C, V, None, D, e + 0, f + 0)
    BY <1>8, <1>9, <2>4, DoesBoth
  <2>6. PICK g \in Nat, h \in Nat : Does(H, S, C, V, None, D, g, h) /\ g = e + 0
    BY <2>4, <2>5
  <2>7. Does(H, G, C, V, None, D, g + 0, h + 0)
    BY <1>7, <1>8, <2>6, DoesBoth
  <2>8. g + 0 = 0 /\ h + 0 \in Nat
    BY <2>2, <2>4, <2>6
  <2>9. QED
    BY <2>7, <2>8
<1>11. QED
  BY <1>3, <1>10

(* append_fallback: the row of a flexible variable takes over its concatenation with x, a row k of
   the elements v made in K. *)
Concats(H, K, G, C, V, o, k, v, leaf) ==
  /\ K = NewRow(H, v, leaf) /\ k = NextDesc(H) /\ \A i \in DOMAIN v : ~IsRow(v[i])
  /\ Does(H, K, C, V, None, None, 1, 1) /\ k \in DOMAIN K.d /\ o \in DOMAIN K.d
  /\ Scalars(K.s[rowd_store(K, k)]) /\ K.d[k].n \in Nat
  /\ MayTake(K, C, V, o, k) /\ G = row_replace(K, o, k)

LEMMA FallbackSteps ==
  ASSUME NEW H, NEW C, NEW V, Good(H, C, V, None), prog \in Programs, NEW o, FlatRow(H, o), o \in C,
         o \in V => "slice_name" \notin Ops, H.d[o].n < prog.len, NEW x \in Scalar,
         FreeD(H) >= 2, FreeS(H) >= 2, NEW G, G = append_fallback(H, o, x)
  PROVE  \E K, k, v, leaf : Concats(H, K, G, C, V, o, k, v, leaf)
<1>1. PICK n : n = H.d[o].n
  OBVIOUS
<1>2. /\ o \in DOMAIN H.d /\ Inside(H, H.d[o]) /\ Scalars(H.s[H.d[o].base]) /\ Shape(H)
      /\ n \in Nat /\ H.d[o].base \in DOMAIN H.s
  BY <1>1, ShapeParts, DescParts DEF FlatRow, Good, Inside
<1>3. PICK v : v = [i \in 1 .. n + 1 |-> IF i <= n THEN rowd_get(H, o, i) ELSE x]
  OBVIOUS
<1>4. PICK leaf : leaf = \A i \in DOMAIN v : leaf_accepts(v[i])
  OBVIOUS
<1>5. x \in Value /\ ~IsRow(x)
  BY ScalarElem
<1>6. \A i \in 1 .. n : rowd_get(H, o, i) \in Value /\ ~IsRow(rowd_get(H, o, i))
  <2>1. SUFFICES ASSUME NEW i \in 1 .. n
                 PROVE  rowd_get(H, o, i) \in Value /\ ~IsRow(rowd_get(H, o, i))
    OBVIOUS
  <2>2. PICK st : st = H.d[o].base
    OBVIOUS
  <2>3. rowd_store(H, o) = st
    BY <1>2, <2>2, StoreOf
  <2>4. PICK j : j = H.d[o].off + i
    OBVIOUS
  <2>5. j \in 1 .. Len(H.s[st].e) /\ rowd_get(H, o, i) = H.s[st].e[j]
    BY <1>1, <1>2, <2>3, <2>4, RowElement
  <2>6. QED
    BY <1>2, <2>2, <2>5, ElementOf
<1>7. \A i \in 1 .. n + 1 : v[i] \in Value /\ ~IsRow(v[i])
  BY <1>2, <1>3, <1>5, <1>6
<1>8. v \in Seq(Value) /\ Len(v) = n + 1 /\ DOMAIN v = 1 .. n + 1
  <2>1. v \in [1 .. n + 1 -> Value]
    BY <1>3, <1>7
  <2>2. n + 1 \in Nat
    BY <1>2
  <2>3. QED
    BY <2>1, <2>2
<1>9. n + 1 \in 0 .. prog.len
  BY <1>1, <1>2, Sizes
<1>10. MayMake(H, C, v, leaf)
  <2>1. \A i \in DOMAIN v : Elem(H, C, None, v[i])
    BY <1>7, <1>8 DEF Elem
  <2>2. leaf \in BOOLEAN
    BY <1>4
  <2>3. leaf => \A i \in DOMAIN v : leaf_accepts(v[i])
    BY <1>4
  <2>4. QED
    BY <1>8, <1>9, <2>1, <2>2, <2>3 DEF MayMake
<1>11. PICK st : st = NextStore(H)
  OBVIOUS
<1>12. PICK k : k = NextDesc(H)
  OBVIOUS
<1>13. PICK K : K = NewRow(H, v, leaf)
  OBVIOUS
<1>14. FreeD(H) \in Nat /\ FreeS(H) \in Nat /\ FreeD(H) > 0 /\ FreeS(H) > 0
  BY <1>2, FreeCounts
<1>15. MayFill(None, st, v)
  BY <1>7, <1>8 DEF MayFill
<1>16. Made(H, K, k, st, v, leaf) /\ Does(H, K, C, V, None, None, 1, 1)
  BY <1>10, <1>11, <1>12, <1>13, <1>14, <1>15, MakeRow
<1>17. /\ Good(K, C, V, None) /\ k \in DOMAIN K.d /\ K.d[k].base = st /\ st \in DOMAIN K.s
       /\ K.d[k].n = n + 1 /\ Scalars(K.s[st]) /\ Inside(K, K.d[k])
  BY <1>7, <1>8, <1>16 DEF Does, Made, Scalars, Plain
<1>18. FreeD(K) > 0 /\ FreeS(K) > 0 /\ FreeD(K) >= 1
  BY <1>14, <1>16, <1>17, FreeCounts DEF Does, Good
<1>19. FlatRow(K, o)
  BY <1>16, FlatKept DEF None
<1>20. rowd_store(K, k) = st
  BY <1>17, StoreOf
<1>21. FreeD(K) >= 1 + CopyCost(K, k, K.d[k].n)
  <2>1. CopyCost(K, k, K.d[k].n) = 0
    BY <1>17, <1>20 DEF CopyCost
  <2>2. QED
    BY <1>18, <2>1
<1>22. MayTake(K, C, V, o, k)
  BY <1>18, <1>19, <1>21 DEF MayTake, FlatRow
<1>23. G = row_replace(K, o, k)
  BY <1>1, <1>3, <1>4, <1>12, <1>13 DEF append_fallback
<1>24. Scalars(K.s[rowd_store(K, k)]) /\ K.d[k].n \in Nat /\ o \in DOMAIN K.d
  BY <1>2, <1>17, <1>19, <1>20 DEF FlatRow
<1>25. Concats(H, K, G, C, V, o, k, v, leaf)
  BY <1>7, <1>8, <1>12, <1>13, <1>16, <1>17, <1>22, <1>23, <1>24 DEF Concats
<1>26. QED
  BY <1>25

LEMMA AppendFallback ==
  ASSUME NEW H, NEW C, NEW V, Good(H, C, V, None), prog \in Programs, NEW o, FlatRow(H, o), o \in C,
         o \in V => "slice_name" \notin Ops, H.d[o].n < prog.len, NEW x \in Scalar,
         FreeD(H) >= 2, FreeS(H) >= 2, NEW D, o \in D, NEW G, G = append_fallback(H, o, x)
  PROVE  /\ Scalars(G.s[G.d[o].base])
         /\ \E nd \in Nat, ns \in Nat : Does(H, G, C, V, None, D, nd, ns)
<1>1. PICK K, k, v, leaf : Concats(H, K, G, C, V, o, k, v, leaf)
  BY FallbackSteps
<1>2. /\ Does(H, K, C, V, None, None, 1, 1) /\ Good(K, C, V, None) /\ k \in DOMAIN K.d
      /\ o \in DOMAIN K.d /\ Scalars(K.s[rowd_store(K, k)]) /\ MayTake(K, C, V, o, k)
      /\ G = row_replace(K, o, k) /\ K.d[k].n \in Nat /\ Shape(H)
  BY <1>1 DEF Concats, Does, Good
<1>3. PICK m : m = 1 + CopyCost(K, k, K.d[k].n)
  OBVIOUS
<1>4. Taken(K, G, o, k) /\ Does(K, G, C, V, None, D, m, 1)
  BY <1>2, <1>3, Replace
<1>5. Scalars(G.s[G.d[o].base])
  BY <1>2, <1>4 DEF Taken
<1>6. m \in Nat
  BY <1>2, <1>3 DEF CopyCost
<1>7. Does(H, K, C, V, None, D, 1, 1)
  BY <1>2, DoesLess DEF None
<1>8. Does(H, G, C, V, None, D, 1 + m, 1 + 1)
  BY <1>2, <1>4, <1>6, <1>7, DoesBoth
<1>9. QED
  BY <1>5, <1>6, <1>8

LEMMA AppendSafe ==
  ASSUME NamesKeepBounds, RowInv, NEW c \in Var, NEW x \in Scalar, append(c, x)
  PROVE  RowInv'
<1>1. Safe(heap, cell, stack) /\ prog \in Programs /\ c \in Cell /\ cell[c] # Nil /\ c \in Flex
      /\ c \notin Nested
  BY Cells DEF RowInv, append
<1>2. PICK C : C = Held(cell, stack)
  OBVIOUS
<1>3. PICK V : V = Declared(cell, Var)
  OBVIOUS
<1>4. PICK r : r = cell[c]
  OBVIOUS
<1>5. PICK D : D = {r}
  OBVIOUS
<1>6. PICK off : off = heap.d[r].off
  OBVIOUS
<1>7. /\ heap' = (IF off = 0 THEN append_in_place(heap, r, x) ELSE append_fallback(heap, r, x))
      /\ UNCHANGED <<cell, stack, prog>> /\ heap.d[r].n < prog.len
      /\ IF off = 0 THEN Uses("append", 0, OwnNeeds(r) + 1) ELSE Uses("append", 2, 2)
  BY <1>4, <1>6 DEF append
<1>8. /\ Good(heap, C, V, None) /\ Shape(heap) /\ r \in C /\ FlatRow(heap, r)
      /\ Fits(heap, c, r)
  BY <1>1, <1>2, <1>3, <1>4, HeldIn DEF Plain, FlatRow, Fits
<1>9. "slice_name" \notin Ops
  BY <1>1 DEF NamesKeepBounds, Ops, Flex
<1>10. \E G : /\ heap' = G /\ Scalars(G.s[G.d[r].base])
              /\ \E nd \in Nat, ns \in Nat : Does(heap, G, C, V, None, D, nd, ns)
  <2>1. CASE off = 0
    <3>1. PICK G : G = append_in_place(heap, r, x)
      OBVIOUS
    <3>2. rowd_owner(heap, r) = r
      BY <1>8, StoreOf DEF FlatRow
    <3>3. OwnNeeds(r) = OwnCost(heap, r) + WideCost(heap, r)
      BY <3>2, OwnNeedsIs
    <3>4. OwnNeeds(r) + 1 \in Nat
      BY <3>3, CostsAreNumbers
    <3>5. FreeS(heap) >= OwnNeeds(r) + 1
      BY <1>7, <2>1, <3>4, UsesFree
    <3>6. FreeS(heap) >= OwnCost(heap, r) + WideCost(heap, r) + 1
      BY <3>3, <3>5
    <3>7. FlatRow(G, r) /\ \E ns \in Nat : Does(heap, G, C, V, None, D, 0, ns)
      BY <1>1, <1>5, <1>6, <1>7, <1>8, <1>9, <2>1, <3>1, <3>6, AppendInPlace
    <3>8. QED
      BY <1>7, <2>1, <3>1, <3>7 DEF FlatRow
  <2>2. CASE off # 0
    <3>1. PICK G : G = append_fallback(heap, r, x)
      OBVIOUS
    <3>2. FreeD(heap) >= 2 /\ FreeS(heap) >= 2
      BY <1>7, <2>2, UsesFree
    <3>3. /\ Scalars(G.s[G.d[r].base])
          /\ \E nd \in Nat, ns \in Nat : Does(heap, G, C, V, None, D, nd, ns)
      BY <1>1, <1>5, <1>7, <1>8, <1>9, <3>1, <3>2, AppendFallback
    <3>4. QED
      BY <1>7, <2>2, <3>1, <3>3
  <2>3. QED
    BY <2>1, <2>2
<1>11. PICK G : /\ heap' = G /\ Scalars(G.s[G.d[r].base])
                /\ \E nd \in Nat, ns \in Nat : Does(heap, G, C, V, None, D, nd, ns)
  BY <1>10
<1>12. \A b \in Cell : cell[b] # Nil /\ cell[b] \in D => Fits(G, b, cell[b])
  <2>1. \A b \in Cell : cell[b] # Nil /\ cell[b] \in D => b = c
    BY <1>1, <1>4, <1>5 DEF Safe, Apart
  <2>2. QED
    BY <1>1, <1>4, <1>11, <2>1 DEF Fits
<1>13. Safe(G, cell, stack)
  BY <1>1, <1>2, <1>3, <1>11, <1>12, Stays
<1>14. QED
  BY <1>7, <1>11, <1>13, NextRowInv

(* the descriptors M and the stores S are kept, and nothing in them but counts changed *)
Swept(H, G, M, S) ==
  /\ G = [d |-> [r \in M |-> G.d[r]], s |-> [st \in S |-> G.s[st]]]
  /\ \A r \in M : G.d[r] = H.d[r]
  /\ \A st \in S : G.s[st] \in Store /\ G.s[st].e = H.s[st].e /\ G.s[st].leaf = H.s[st].leaf

(* what M and S lead to is in them *)
Closed(H, C, M, S) ==
  /\ C \subseteq M /\ M \subseteq DOMAIN H.d /\ S \subseteq DOMAIN H.s
  /\ \A r \in M : H.d[r].base \in DOMAIN H.s => H.d[r].base \in S
  /\ \A st \in S : \A i \in DOMAIN H.s[st].e : IsRow(H.s[st].e[i]) => H.s[st].e[i] \in M

(* What the program holds is as it should be once the rest is gone. *)
LEMMA SweptGood ==
  ASSUME NEW H, NEW C, NEW V, Good(H, C, V, None), NEW M, NEW S, Closed(H, C, M, S),
         NEW G, Swept(H, G, M, S)
  PROVE  Good(G, C, V, None)
<1>1. /\ C \subseteq M /\ M \subseteq DOMAIN H.d /\ S \subseteq DOMAIN H.s /\ DOMAIN G.d = M
      /\ DOMAIN G.s = S
  BY DEF Closed, Swept
<1>2. Shape(G)
  <2>1. \A r \in DOMAIN G.d : G.d[r] \in Desc
    BY <1>1, ShapeParts DEF Good, Swept
  <2>2. \A st \in DOMAIN G.s : G.s[st] \in Store
    BY DEF Swept
  <2>3. DOMAIN G.d \subseteq DescAddr /\ DOMAIN G.s \subseteq StoreAddr
    BY <1>1, ShapeParts DEF Good
  <2>4. /\ G = [d |-> G.d, s |-> G.s] /\ G.d = [r \in DOMAIN G.d |-> G.d[r]]
        /\ G.s = [st \in DOMAIN G.s |-> G.s[st]]
    BY DEF Swept
  <2>5. G.d \in [DOMAIN G.d -> Desc] /\ G.s \in [DOMAIN G.s -> Store]
    BY <2>1, <2>2, <2>4
  <2>6. QED
    BY <2>3, <2>4, <2>5 DEF Shape
<1>3. \A r \in M : Inside(H, H.d[r]) => Inside(G, G.d[r])
  BY <1>1 DEF Inside, Closed, Swept
<1>4. \A r \in C : Plain(G, r)
  BY <1>1, <1>3 DEF Good, Plain
<1>5. \A r \in M : View(H, V, H.d[r]) => View(G, V, G.d[r])
  BY <1>1 DEF View, Good, Swept
<1>6. \A r \in DOMAIN G.d : Inside(G, G.d[r]) \/ View(G, V, G.d[r])
  BY <1>1, <1>3, <1>5 DEF Good
<1>7. \A st \in S : /\ Scalars(H.s[st]) => Scalars(G.s[st])
                    /\ Rows(H.s[st]) => Rows(G.s[st])
  BY DEF Swept, Scalars, Rows
<1>8. \A v : Elem(H, C, None, v) /\ (IsRow(v) => v \in M) => Elem(G, C, None, v)
  <2>1. SUFFICES ASSUME NEW v, Elem(H, C, None, v), IsRow(v), v \in M
                 PROVE  Elem(G, C, None, v)
    BY DEF Elem
  <2>2. /\ v \notin C /\ v \in DOMAIN H.d /\ Inside(H, H.d[v]) /\ H.d[v].base \notin None
        /\ Scalars(H.s[H.d[v].base])
    BY <2>1 DEF Elem, Plain
  <2>3. G.d[v] = H.d[v] /\ H.d[v].base \in S
    BY <2>1, <2>2 DEF Swept, Closed, Inside
  <2>4. Inside(G, G.d[v]) /\ Scalars(G.s[G.d[v].base])
    BY <1>3, <1>7, <2>1, <2>2, <2>3
  <2>5. QED
    BY <1>1, <2>1, <2>2, <2>3, <2>4 DEF Elem, Plain
<1>9. \A st \in S : Sound(G, C, None, G.s[st])
  <2>1. SUFFICES ASSUME NEW st \in S
                 PROVE  Sound(G, C, None, G.s[st])
    OBVIOUS
  <2>2. Sound(H, C, None, H.s[st]) /\ G.s[st].e = H.s[st].e /\ G.s[st].leaf = H.s[st].leaf
    BY <1>1 DEF Good, Swept
  <2>3. \A i \in DOMAIN H.s[st].e : Elem(G, C, None, H.s[st].e[i])
    BY <1>8, <2>2 DEF Sound, Closed
  <2>4. QED
    BY <2>2, <2>3 DEF Sound
<1>10. \A st \in S : Scalars(G.s[st]) \/ Rows(G.s[st])
  BY <1>1, <1>7 DEF Good, None
<1>11. QED
  BY <1>1, <1>2, <1>4, <1>6, <1>9, <1>10 DEF Good, None

(* A count once the shares of c dead descriptors are given back. *)
LEMMA GivenBack ==
  ASSUME NEW a \in 0 .. RcMod - 1, NEW c \in Nat
  PROVE  (IF a > c THEN a - c ELSE 0) \in 0 .. RcMod - 1
BY Sizes

(* The marked descriptors and stores: all that the program holds leads to. *)
LEMMA MarkedClosed ==
  ASSUME RowInv, NEW C, C = Held(cell, stack), NEW M, M = Marked, NEW S, S = MarkedStores
  PROVE  Closed(heap, C, M, S) /\ \A i \in DOMAIN stack : stack[i].p \in M
<1>1. Safe(heap, cell, stack)
  BY DEF RowInv
<1>2. PICK V : V = Declared(cell, Var)
  OBVIOUS
<1>3. Good(heap, C, V, None) /\ Shape(heap)
  BY <1>1, <1>2, HeldIn
<1>4. PICK R : R = RootDescs
  OBVIOUS
<1>5. PICK E : E = ElemDescs(R)
  OBVIOUS
<1>6. M = R \cup E /\ S = {rowd_store(heap, d) : d \in M}
  BY <1>4, <1>5 DEF Marked, MarkedStores
<1>7. /\ \A c \in Cell : cell[c] # Nil => cell[c] \in R
      /\ \A i \in DOMAIN stack : stack[i].p \in R
  BY <1>4 DEF RootDescs
<1>8. C \subseteq R
  BY <1>7 DEF Held, Declared, RowsOf
<1>9. R \subseteq DOMAIN heap.d
  <2>1. \A c \in Cell : cell[c] # Nil => cell[c] \in DOMAIN heap.d
    BY <1>1, HeldIn DEF Plain
  <2>2. \A i \in DOMAIN stack : stack[i].p \in DOMAIN heap.d
    BY <1>1, HeldIn
  <2>3. \A i \in DOMAIN stack : rowd_owner(heap, stack[i].p) \in DOMAIN heap.d
    BY <1>3, <2>2, StoreOf
  <2>4. QED
    BY <1>4, <2>1, <2>2, <2>3 DEF RootDescs
<1>10. \A r \in DOMAIN heap.d : rowd_store(heap, r) \in DOMAIN heap.s
  BY <1>3, StoreOf
<1>11. \A st \in DOMAIN heap.s : \A i \in DOMAIN heap.s[st].e : Elem(heap, C, None, heap.s[st].e[i])
  BY <1>3 DEF Good, Sound
<1>12. \A v \in E : /\ v \in DescAddr /\ v \in DOMAIN heap.d /\ Inside(heap, heap.d[v])
                    /\ Scalars(heap.s[heap.d[v].base])
  <2>1. SUFFICES ASSUME NEW v \in E
                 PROVE  /\ v \in DescAddr /\ v \in DOMAIN heap.d /\ Inside(heap, heap.d[v])
                        /\ Scalars(heap.s[heap.d[v].base])
    OBVIOUS
  <2>2. PICK d \in R : v \in DescAddr /\ v \in ToSet(heap.s[rowd_store(heap, d)].e)
    BY <1>5 DEF ElemDescs
  <2>3. PICK st : st = rowd_store(heap, d)
    OBVIOUS
  <2>4. st \in DOMAIN heap.s
    BY <1>9, <1>10, <2>3
  <2>5. PICK i \in DOMAIN heap.s[st].e : v = heap.s[st].e[i]
    BY <2>2, <2>3 DEF ToSet
  <2>6. Elem(heap, C, None, v) /\ IsRow(v)
    BY <1>11, <2>2, <2>4, <2>5 DEF IsRow
  <2>7. QED
    BY <2>2, <2>6 DEF Elem, Plain
<1>13. M \subseteq DOMAIN heap.d
  BY <1>6, <1>9, <1>12
<1>14. S \subseteq DOMAIN heap.s
  BY <1>6, <1>10, <1>13
<1>15. \A r \in M : heap.d[r].base \in DOMAIN heap.s => heap.d[r].base \in S
  <2>1. \A r \in M : heap.d[r].base \in DOMAIN heap.s => rowd_store(heap, r) = heap.d[r].base
    BY <1>3, <1>13, InsideOwn, StoreOf
  <2>2. QED
    BY <1>6, <2>1
<1>16. \A st \in S : \A i \in DOMAIN heap.s[st].e :
         IsRow(heap.s[st].e[i]) => heap.s[st].e[i] \in M
  <2>1. SUFFICES ASSUME NEW st \in S, NEW i \in DOMAIN heap.s[st].e, IsRow(heap.s[st].e[i])
                 PROVE  heap.s[st].e[i] \in M
    OBVIOUS
  <2>2. PICK d \in M : st = rowd_store(heap, d)
    BY <1>6
  <2>3. CASE d \in R
    <3>1. heap.s[st].e[i] \in DescAddr /\ heap.s[st].e[i] \in ToSet(heap.s[st].e)
      BY <2>1 DEF IsRow, ToSet
    <3>2. QED
      BY <1>5, <1>6, <2>2, <2>3, <3>1 DEF ElemDescs
  <2>4. CASE d \in E
    <3>1. rowd_store(heap, d) = heap.d[d].base
      BY <1>3, <1>12, <2>4, StoreOf
    <3>2. Scalars(heap.s[st])
      BY <1>12, <2>2, <2>4, <3>1
    <3>3. QED
      BY <2>1, <3>2 DEF Scalars
  <2>5. QED
    BY <1>6, <2>3, <2>4
<1>17. QED
  BY <1>6, <1>7, <1>8, <1>13, <1>14, <1>15, <1>16 DEF Closed

(* the counts once k[st] shares of each store st are given back *)
CountsLess(H, G, S, k) ==
  \A st \in S : G.s[st].rc = (IF H.s[st].rc > k[st] THEN H.s[st].rc - k[st] ELSE 0)

LEMMA SweepHeap ==
  ASSUME NEW C, NEW V, Good(heap, C, V, None), gc_sweep, NEW M, M = Marked, NEW S, S = MarkedStores,
         Closed(heap, C, M, S), NEW k, k = [st \in S |-> Cardinality(GivesBack(st))]
  PROVE  /\ UNCHANGED <<cell, stack, prog>>
         /\ \E G : heap' = G /\ Swept(heap, G, M, S) /\ CountsLess(heap, G, S, k)
<1>1. PICK y : y = [st \in S |-> [heap.s[st] EXCEPT !.rc = IF @ > k[st] THEN @ - k[st] ELSE 0]]
  OBVIOUS
<1>2. PICK G : G = [d |-> [r \in M |-> heap.d[r]], s |-> y]
  OBVIOUS
<1>3. heap' = G /\ UNCHANGED <<cell, stack, prog>>
  BY <1>1, <1>2 DEF gc_sweep, Restrict
<1>4. ASSUME NEW st \in S
      PROVE  /\ y[st] \in Store /\ y[st].e = heap.s[st].e /\ y[st].leaf = heap.s[st].leaf
             /\ y[st].rc = (IF heap.s[st].rc > k[st] THEN heap.s[st].rc - k[st] ELSE 0)
  <2>1. heap.s[st] \in Store
    BY ShapeParts DEF Closed, Good
  <2>2. k[st] \in Nat
    <3>1. GivesBack(st) \subseteq DOMAIN heap.d /\ IsFiniteSet(DOMAIN heap.d)
      BY FreeCounts DEF GivesBack, Good
    <3>2. Cardinality(GivesBack(st)) \in Nat
      BY <3>1, FS_Subset, FS_CardinalityType
    <3>3. QED
      BY <3>2
  <2>3. PICK x : x = heap.s[st]
    OBVIOUS
  <2>4. PICK n : n = k[st]
    OBVIOUS
  <2>5. PICK c : c = (IF x.rc > n THEN x.rc - n ELSE 0)
    OBVIOUS
  <2>6. c \in 0 .. RcMod - 1
    BY <2>1, <2>2, <2>3, <2>4, <2>5, StoreParts, GivenBack
  <2>7. y[st] = [x EXCEPT !.rc = c]
    BY <1>1, <2>3, <2>4, <2>5
  <2>8. x \in Store
    BY <2>1, <2>3
  <2>9. y[st] \in Store /\ y[st].e = x.e /\ y[st].leaf = x.leaf /\ y[st].rc = c
    BY <2>6, <2>7, <2>8 DEF Store
  <2>10. QED
    BY <2>3, <2>4, <2>5, <2>9
<1>5. Swept(heap, G, M, S)
  <2>1. G.d = [r \in M |-> heap.d[r]] /\ G.s = y
    BY <1>2
  <2>2. y = [st \in S |-> y[st]]
    BY <1>1
  <2>3. \A r \in M : G.d[r] = heap.d[r]
    BY <2>1
  <2>4. G = [d |-> [r \in M |-> G.d[r]], s |-> [st \in S |-> G.s[st]]]
    BY <1>2, <2>1, <2>2
  <2>5. QED
    BY <1>4, <2>1, <2>3, <2>4 DEF Swept
<1>6. CountsLess(heap, G, S, k)
  <2>1. G.s = y
    BY <1>2
  <2>2. QED
    BY <1>4, <2>1 DEF CountsLess
<1>7. QED
  BY <1>3, <1>5, <1>6

LEMMA SweepSafe ==
  ASSUME RowInv, gc_sweep
  PROVE  RowInv'
<1>1. Safe(heap, cell, stack)
  BY DEF RowInv
<1>2. PICK C : C = Held(cell, stack)
  OBVIOUS
<1>3. PICK V : V = Declared(cell, Var)
  OBVIOUS
<1>4. PICK M : M = Marked
  OBVIOUS
<1>5. PICK S : S = MarkedStores
  OBVIOUS
<1>6. Good(heap, C, V, None) /\ Shape(heap)
  BY <1>1, <1>2, <1>3, HeldIn
<1>7. Closed(heap, C, M, S) /\ \A i \in DOMAIN stack : stack[i].p \in M
  BY <1>2, <1>4, <1>5, MarkedClosed
<1>8. PICK k : k = [st \in S |-> Cardinality(GivesBack(st))]
  OBVIOUS
<1>9. PICK G : heap' = G /\ Swept(heap, G, M, S)
  BY <1>4, <1>5, <1>6, <1>7, <1>8, SweepHeap
<1>10. UNCHANGED <<cell, stack, prog>>
  BY DEF gc_sweep
<1>11. DOMAIN G.d = M /\ \A r \in M : G.d[r] = heap.d[r]
  BY <1>9 DEF Swept
<1>12. Good(G, C, V, None)
  BY <1>6, <1>7, <1>9, SweptGood
<1>13. Names(G, stack)
  BY <1>1, <1>7, <1>11 DEF Safe, Names
<1>14. \A c \in Cell : cell[c] # Nil => Fits(G, c, cell[c])
  <2>1. SUFFICES ASSUME NEW c \in Cell, cell[c] # Nil
                 PROVE  Fits(G, c, cell[c])
    OBVIOUS
  <2>2. PICK r : r = cell[c]
    OBVIOUS
  <2>3. r \in C /\ Fits(heap, c, r) /\ Inside(heap, heap.d[r])
    BY <1>1, <1>2, <2>1, <2>2, HeldIn DEF Plain
  <2>4. G.d[r] = heap.d[r] /\ heap.d[r].base \in S
    BY <1>7, <1>9, <2>3 DEF Swept, Closed, Inside
  <2>5. G.s[heap.d[r].base].e = heap.s[heap.d[r].base].e
    BY <1>9, <2>4 DEF Swept
  <2>6. QED
    BY <2>2, <2>3, <2>4, <2>5 DEF Fits, Scalars, Rows
<1>15. Safe(G, cell, stack)
  BY <1>1, <1>2, <1>3, <1>12, <1>13, <1>14 DEF Safe
<1>16. QED
  BY <1>9, <1>10, <1>15, NextRowInv

-----------------------------------------------------------------------------
(* The theorems. *)

LEMMA InitRow ==
  ASSUME Init
  PROVE  RowInv
<1>1. /\ heap = [d |-> <<>>, s |-> <<>>] /\ cell = [c \in Cell |-> Nil] /\ stack = <<>>
      /\ prog \in Programs
  BY DEF Init
<1>2. DOMAIN heap.d = {} /\ DOMAIN heap.s = {} /\ heap.d = <<>> /\ heap.s = <<>>
  BY <1>1
<1>3. Shape(heap)
  <2>1. heap = [d |-> heap.d, s |-> heap.s]
    BY <1>1
  <2>2. <<>> \in [{} -> Desc] /\ <<>> \in [{} -> Store]
    OBVIOUS
  <2>3. QED
    BY <1>2, <2>1, <2>2 DEF Shape
<1>4. DOMAIN stack = {} /\ \A c \in Cell : cell[c] = Nil
  BY <1>1
<1>5. Held(cell, stack) = {} /\ Declared(cell, Var) = {} /\ Declared(cell, Cell) = {}
  BY <1>4, Cells DEF Held, Declared, RowsOf
<1>6. Good(heap, Held(cell, stack), Declared(cell, Var), None)
  BY <1>2, <1>3, <1>5 DEF Good
<1>7. Names(heap, stack)
  BY <1>4 DEF Names
<1>8. Apart(cell, stack)
  BY <1>4 DEF Apart
<1>9. cell \in [Cell -> DescAddr \cup {Nil}] /\ stack \in Seq([k : {"row", "name"}, p : DescAddr])
  BY <1>1
<1>10. QED
  BY <1>1, <1>4, <1>6, <1>7, <1>8, <1>9 DEF RowInv, Safe

LEMMA StepRow ==
  ASSUME NamesKeepBounds, NoEmptySlices, RowInv, [Next]_vars
  PROVE  RowInv'
<1>1. CASE \E v \in Literals : Display(v)
  BY <1>1, DisplaySafe
<1>2. CASE row_of
  BY <1>2, RowOfSafe
<1>3. CASE deref
  BY <1>3, DerefSafe
<1>4. CASE pop
  BY <1>4, PopSafe
<1>5. CASE assign_name
  BY <1>5, AssignNameSafe
<1>6. CASE gc_sweep
  BY <1>6, SweepSafe
<1>7. CASE \E c \in Cell : push_cell(c)
  BY <1>7, PushCellSafe
<1>8. CASE \E c \in Cell : bind_cell(c)
  BY <1>8, BindCellSafe
<1>9. CASE \E c \in Var : assign(c)
  BY <1>9, AssignSafe
<1>10. CASE \E c \in Cell, i \in 1 .. MaxLen : push_elem(c, i)
  BY <1>10, PushElemSafe
<1>11. CASE \E c \in Var, i \in 1 .. MaxLen : assign_elem(c, i)
  BY <1>11, AssignElemSafe
<1>12. CASE \E c \in Var, i \in 1 .. MaxLen, x \in Scalar : set_elem(c, i, x)
  BY <1>12, SetElemSafe
<1>13. CASE \E c \in Var, x \in Scalar : append(c, x)
  BY <1>13, AppendSafe
<1>14. CASE \E off \in 0 .. MaxLen, n \in Trims : slice_value(off, n)
  BY <1>14, SliceValueSafe
<1>15. CASE \E c \in Var, off \in 0 .. MaxLen, n \in Trims : slice_name(c, off, n)
  BY <1>15, SliceNameSafe
<1>16. CASE UNCHANGED vars
  <2>1. UNCHANGED prog /\ heap' = heap /\ cell' = cell /\ stack' = stack
    BY <1>16 DEF vars
  <2>2. Safe(heap', cell', stack')
    BY <2>1 DEF RowInv
  <2>3. QED
    BY <2>1, <2>2, NextRowInv
<1>17. QED
  BY <1>1, <1>2, <1>3, <1>4, <1>5, <1>6, <1>7, <1>8, <1>9, <1>10, <1>11, <1>12, <1>13, <1>14,
     <1>15, <1>16 DEF Next

(* Whatever a program does, every descriptor of the heap, one that is garbage included, lies
   inside the store it is of, and every store holds what its layout can. *)
THEOREM SpecRow ==
  ASSUME NamesKeepBounds, NoEmptySlices
  PROVE  Spec => []RowInv
<1>1. Init => RowInv
  BY InitRow
<1>2. RowInv /\ [Next]_vars => RowInv'
  BY StepRow
<1>3. QED
  BY <1>1, <1>2, PTL DEF Spec

(* What the invariant says of all of the heap. *)
LEMMA RowHeap ==
  ASSUME RowInv
  PROVE  /\ Good(heap, Held(cell, stack), Declared(cell, Var), None) /\ Shape(heap)
         /\ prog \in Programs
         /\ \A r \in DOMAIN heap.d :
              /\ rowd_store(heap, r) \in DOMAIN heap.s
              /\ heap.d[r].off + heap.d[r].n <= Len(heap.s[rowd_store(heap, r)].e)
BY HeldIn, StoreOf DEF RowInv

(* The heap, the cells and the operands are of their types, for every program, every mode and
   every size of the heap: an offset is never beyond the longest store. *)
THEOREM RowTypeOK ==
  ASSUME NamesKeepBounds, NoEmptySlices
  PROVE  Spec => []TypeOK
<1>1. RowInv => TypeOK
  <2>1. SUFFICES ASSUME RowInv
                 PROVE  TypeOK
    OBVIOUS
  <2>2. PICK C, V : Good(heap, C, V, None)
    BY <2>1, RowHeap
  <2>3. Shape(heap) /\ prog \in Programs
    BY <2>1, RowHeap
  <2>4. \A r \in DOMAIN heap.d :
          /\ heap.d[r].base \in DescAddr \cup StoreAddr
          /\ heap.d[r].off \in 0 .. MaxLen + Spare /\ heap.d[r].n \in 0 .. prog.len
          /\ heap.d[r].pad2 \in BOOLEAN
    <3>1. SUFFICES ASSUME NEW r \in DOMAIN heap.d
                   PROVE  /\ heap.d[r].base \in DescAddr \cup StoreAddr
                          /\ heap.d[r].off \in 0 .. MaxLen + Spare /\ heap.d[r].n \in 0 .. prog.len
                          /\ heap.d[r].pad2 \in BOOLEAN
      OBVIOUS
    <3>2. PICK st : st = rowd_store(heap, r)
      OBVIOUS
    <3>3. st \in DOMAIN heap.s /\ heap.d[r].off + heap.d[r].n <= Len(heap.s[st].e)
      BY <2>1, <3>2, RowHeap
    <3>4. Len(heap.s[st].e) \in Nat /\ Len(heap.s[st].e) <= MaxLen + Spare
      BY <2>2, <2>3, <3>3, ShapeParts, StoreParts DEF Good, Sound
    <3>5. heap.d[r] \in Desc
      BY <2>3, ShapeParts
    <3>6. heap.d[r].off \in Nat /\ heap.d[r].n \in Nat
      BY <3>5, DescParts
    <3>7. heap.d[r].off \in 0 .. MaxLen + Spare
      BY <3>3, <3>4, <3>6, Sizes
    <3>8. QED
      BY <3>5, <3>7, DescParts
  <2>5. \A st \in DOMAIN heap.s :
          /\ heap.s[st].leaf \in BOOLEAN /\ heap.s[st].rc \in 0 .. RcMod - 1
          /\ ToSet(heap.s[st].e) \subseteq Scalar \cup {Undef} \cup DescAddr
    BY <2>3, ShapeParts, StoreParts DEF ToSet, Value
  <2>6. DOMAIN heap.d \subseteq DescAddr /\ DOMAIN heap.s \subseteq StoreAddr
    BY <2>3, ShapeParts
  <2>7. cell \in [Cell -> DescAddr \cup {Nil}]
    BY <2>1 DEF RowInv, Safe
  <2>8. \A i \in DOMAIN stack : stack[i].k \in {"row", "name"} /\ stack[i].p \in DescAddr
    <3>1. \A i \in DOMAIN stack : stack[i] \in Operand
      BY <2>1, HeldIn DEF RowInv
    <3>2. QED
      BY <3>1 DEF Operand
  <2>9. QED
    BY <2>4, <2>5, <2>6, <2>7, <2>8 DEF TypeOK
<1>2. QED
  BY <1>1, SpecRow, PTL

(* Every row the program can reach lies inside its store: no element is read or written beyond
   the store's end. *)
THEOREM RowBounds ==
  ASSUME NamesKeepBounds, NoEmptySlices
  PROVE  Spec => []RowsInBounds
<1>1. RowInv => RowsInBounds
  <2>1. SUFFICES ASSUME RowInv
                 PROVE  RowsInBounds
    OBVIOUS
  <2>2. PICK C : C = Held(cell, stack)
    OBVIOUS
  <2>3. PICK M : M = Marked
    OBVIOUS
  <2>4. PICK S : S = MarkedStores
    OBVIOUS
  <2>5. Closed(heap, C, M, S)
    BY <2>1, <2>2, <2>3, <2>4, MarkedClosed
  <2>6. M \subseteq DOMAIN heap.d
    BY <2>5 DEF Closed
  <2>7. QED
    BY <2>1, <2>3, <2>6, RowHeap DEF RowsInBounds
<1>2. QED
  BY <1>1, SpecRow, PTL

(* A leaf store holds no row and no scalar that its layout cannot hold: what does not fit made
   it a store of slots. *)
THEOREM RowLeaves ==
  ASSUME NamesKeepBounds, NoEmptySlices
  PROVE  Spec => []LeavesFit
<1>1. RowInv => LeavesFit
  BY RowHeap DEF Good, Sound, LeavesFit
<1>2. QED
  BY <1>1, SpecRow, PTL

=============================================================================
