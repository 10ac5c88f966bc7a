------------------------- MODULE RowStoreInvariant -------------------------
(****************************************************************************)
(* The inductive invariant of RowStore, and what the operations on heaps    *)
(* that the handlers are made of keep of it.  The invariant is stated of a  *)
(* heap H, so that they can be taken one by one.                            *)
(****************************************************************************)
EXTENDS RowStore, Induction, FiniteSetTheorems

-----------------------------------------------------------------------------
(* The invariant. *)

Value == Scalar \cup {Undef} \cup DescAddr
Desc  == [base : DescAddr \cup StoreAddr, off : Nat, n : 0 .. prog.len, pad2 : BOOLEAN]
Store == [leaf : BOOLEAN, rc : 0 .. RcMod - 1, e : Seq(Value)]

Shape(H) ==
  /\ H = [d |-> H.d, s |-> H.s]
  /\ DOMAIN H.d \subseteq DescAddr /\ H.d \in [DOMAIN H.d -> Desc]
  /\ DOMAIN H.s \subseteq StoreAddr /\ H.s \in [DOMAIN H.s -> Store]

(* no stores, or no descriptors *)
None == {}

(* a store of scalars, and a store of rows *)
Scalars(x) == \A i \in DOMAIN x.e : ~IsRow(x.e[i])
Rows(x)    == \A i \in DOMAIN x.e : IsRow(x.e[i])

(* a descriptor x with a store of its own, and one that is a view of a variable, one of V *)
Inside(H, x) == x.base \in DOMAIN H.s /\ x.off + x.n <= Len(H.s[x.base].e)
View(H, V, x) ==
  /\ x.base \in V /\ x.n > 0 /\ "slice_name" \in Ops
  /\ H.d[x.base].off <= x.off /\ x.off + x.n <= H.d[x.base].off + H.d[x.base].n
Plain(H, r) == r \in DOMAIN H.d /\ Inside(H, H.d[r])

(* Elements that are rows are no descriptors of C, and have stores of scalars, outside O. *)
Elem(H, C, O, v) ==
  IsRow(v) => v \notin C /\ Plain(H, v) /\ H.d[v].base \notin O /\ Scalars(H.s[H.d[v].base])
Sound(H, C, O, x) ==
  /\ Len(x.e) <= MaxLen + Spare
  /\ x.leaf => \A i \in DOMAIN x.e : leaf_accepts(x.e[i])
  /\ \A i \in DOMAIN x.e : Elem(H, C, O, x.e[i])

(* C are the descriptors in cells and of rows on the operand stack, V those of variables, and
   O stores that are being filled. *)
Good(H, C, V, O) ==
  /\ Shape(H) /\ V \subseteq C /\ \A r \in C : Plain(H, r)
  /\ \A r \in DOMAIN H.d : Inside(H, H.d[r]) \/ View(H, V, H.d[r])
  /\ \A st \in DOMAIN H.s : Sound(H, C, O, H.s[st])
  /\ \A st \in DOMAIN H.s \ O : Scalars(H.s[st]) \/ Rows(H.s[st])

(* what cells and operands hold *)
Declared(cl, cs) == {cl[c] : c \in {b \in cs : cl[b] # Nil}}
RowsOf(sk)       == {sk[i].p : i \in {j \in DOMAIN sk : sk[j].k = "row"}}
Held(cl, sk)     == Declared(cl, Cell) \cup RowsOf(sk)

(* operands are apart from each other and from the cells, and the cells from each other *)
Apart(cl, sk) ==
  /\ \A i, j \in DOMAIN sk : i # j => sk[i].p # sk[j].p
  /\ \A i \in DOMAIN sk : sk[i].p \notin Declared(cl, Cell)
  /\ \A b, c \in Cell : cl[b] = cl[c] /\ cl[b] # Nil => b = c

(* an operand that is a name names a part of a variable *)
Names(H, sk) ==
  \A i \in DOMAIN sk :
    sk[i].k = "name" => sk[i].p \in DOMAIN H.d /\ H.d[sk[i].p].base \in DescAddr

(* a row of the mode of the cell c *)
Fits(H, c, r) == /\ c \in Nested => Rows(H.s[H.d[r].base])
                 /\ c \notin Nested => Scalars(H.s[H.d[r].base])

(* the invariant, of a heap H, cells cl and operands sk *)
Safe(H, cl, sk) ==
  /\ cl \in [Cell -> DescAddr \cup {Nil}] /\ sk \in Seq([k : {"row", "name"}, p : DescAddr])
  /\ Good(H, Held(cl, sk), Declared(cl, Var), None)
  /\ Names(H, sk) /\ Apart(cl, sk)
  /\ \A c \in Cell : cl[c] # Nil => Fits(H, c, cl[c])

RowInv == prog \in Programs /\ Safe(heap, cell, stack)

-----------------------------------------------------------------------------
(* Heaps. *)

(* the fields of a descriptor *)
LEMMA DescParts ==
  ASSUME NEW x \in Desc
  PROVE  /\ x.base \in DescAddr \cup StoreAddr /\ x.off \in Nat /\ x.n \in Nat
         /\ x.n \in 0 .. prog.len /\ x.pad2 \in BOOLEAN
         /\ x = [base |-> x.base, off |-> x.off, n |-> x.n, pad2 |-> x.pad2]
BY DEF Desc

(* the fields of a store *)
LEMMA StoreParts ==
  ASSUME NEW x \in Store
  PROVE  /\ x.leaf \in BOOLEAN /\ x.rc \in Nat /\ x.rc \in 0 .. RcMod - 1 /\ x.e \in Seq(Value)
         /\ Len(x.e) \in Nat /\ DOMAIN x.e = 1 .. Len(x.e)
         /\ \A i \in 1 .. Len(x.e) : x.e[i] \in Value
BY Sizes DEF Store

(* what a heap has at an address *)
LEMMA ShapeParts ==
  ASSUME NEW H, Shape(H)
  PROVE  /\ DOMAIN H.d \subseteq DescAddr /\ \A r \in DOMAIN H.d : H.d[r] \in Desc
         /\ DOMAIN H.s \subseteq StoreAddr /\ \A st \in DOMAIN H.s : H.s[st] \in Store
BY DEF Shape

(* a function with one point changed *)
LEMMA ButOne ==
  ASSUME NEW f, NEW S, f \in [DOMAIN f -> S], NEW x \in DOMAIN f, NEW y \in S,
         NEW g, g = [f EXCEPT ![x] = y]
  PROVE  /\ DOMAIN g = DOMAIN f /\ g[x] = y /\ g \in [DOMAIN g -> S]
         /\ \A z \in DOMAIN f : z # x => g[z] = f[z]
OBVIOUS

(* the addresses still free *)
FreeD(H) == Cardinality(DescAddr) - Cardinality(DOMAIN H.d)
FreeS(H) == Cardinality(StoreAddr) - Cardinality(DOMAIN H.s)

(* They can be counted. *)
LEMMA FreeCounts ==
  ASSUME NEW H, Shape(H)
  PROVE  /\ FreeD(H) \in Nat /\ FreeS(H) \in Nat
         /\ IsFiniteSet(DOMAIN H.d) /\ IsFiniteSet(DOMAIN H.s)
         /\ Cardinality(DOMAIN H.d) \in Nat /\ Cardinality(DOMAIN H.s) \in Nat
         /\ Cardinality(DescAddr) \in Nat /\ Cardinality(StoreAddr) \in Nat
<1>1. /\ IsFiniteSet(DOMAIN H.d) /\ Cardinality(DOMAIN H.d) <= Cardinality(DescAddr)
      /\ IsFiniteSet(DOMAIN H.s) /\ Cardinality(DOMAIN H.s) <= Cardinality(StoreAddr)
  BY FS_Subset, Addresses DEF Shape
<1>2. /\ Cardinality(DOMAIN H.d) \in Nat /\ Cardinality(DescAddr) \in Nat
      /\ Cardinality(DOMAIN H.s) \in Nat /\ Cardinality(StoreAddr) \in Nat
  BY <1>1, FS_CardinalityType, Addresses
<1>3. QED
  BY <1>1, <1>2 DEF FreeD, FreeS

(* Least picks a member. *)
LEMMA LeastIn ==
  ASSUME NEW S, S \subseteq Nat, S # {}
  PROVE  Least(S) \in S
BY LeastNumber DEF Least

(* A new address is one that is not in use. *)
LEMMA NextFree ==
  ASSUME NEW H, Shape(H)
  PROVE  /\ FreeD(H) > 0 => NextDesc(H) \in DescAddr \ DOMAIN H.d
         /\ FreeS(H) > 0 => NextStore(H) \in StoreAddr \ DOMAIN H.s
<1>1. ASSUME FreeD(H) > 0 PROVE NextDesc(H) \in DescAddr \ DOMAIN H.d
  <2>1. DescAddr \ DOMAIN H.d # {}
    <3>1. SUFFICES ASSUME DescAddr = DOMAIN H.d PROVE FALSE
      BY DEF Shape
    <3>2. QED
      BY <1>1, <3>1, FreeCounts DEF FreeD
  <2>2. QED
    BY <2>1, LeastIn, Addresses DEF NextDesc
<1>2. ASSUME FreeS(H) > 0 PROVE NextStore(H) \in StoreAddr \ DOMAIN H.s
  <2>1. StoreAddr \ DOMAIN H.s # {}
    <3>1. SUFFICES ASSUME StoreAddr = DOMAIN H.s PROVE FALSE
      BY DEF Shape
    <3>2. QED
      BY <1>2, <3>1, FreeCounts DEF FreeS
  <2>2. QED
    BY <2>1, LeastIn, Addresses DEF NextStore
<1>3. QED
  BY <1>1, <1>2

(* What an operation does that changes the bounds of no descriptor but those of D: views stay
   views, and a store is replaced by one of its kind. *)
Keeps(H, G, D) ==
  /\ DOMAIN H.d \subseteq DOMAIN G.d /\ DOMAIN H.s \subseteq DOMAIN G.s
  /\ \A st \in DOMAIN H.s : /\ Scalars(H.s[st]) => Scalars(G.s[st])
                            /\ Rows(H.s[st]) => Rows(G.s[st])
  /\ \A r \in DOMAIN H.d :
       /\ H.d[r].base \in DescAddr => G.d[r] = H.d[r]
       /\ H.d[r].base \in DOMAIN H.s => G.d[r].base \in DOMAIN G.s
  /\ \A r \in DOMAIN H.d \ D :
       /\ G.d[r].off = H.d[r].off /\ G.d[r].n = H.d[r].n
       /\ H.d[r].base \in DOMAIN H.s =>
            /\ Scalars(H.s[H.d[r].base]) => Scalars(G.s[G.d[r].base])
            /\ Rows(H.s[H.d[r].base]) => Rows(G.s[G.d[r].base])

(* An operation that takes nd and ns addresses, and leaves a heap as it should be. *)
Does(H, G, C, V, O, D, nd, ns) ==
  /\ Good(G, C, V, O) /\ Keeps(H, G, D)
  /\ FreeD(G) >= FreeD(H) - nd /\ FreeS(G) >= FreeS(H) - ns

(* Nothing done is an operation. *)
LEMMA DoesNothing ==
  ASSUME NEW H, NEW C, NEW V, NEW O, Good(H, C, V, O)
  PROVE  Does(H, H, C, V, O, None, 0, 0)
BY FreeCounts DEF Does, Keeps, Good

(* One operation after another. *)
LEMMA DoesBoth ==
  ASSUME NEW H, NEW G, NEW K, NEW C, NEW V, NEW O, NEW D, NEW nd \in Nat, NEW ns \in Nat,
         NEW md \in Nat, NEW ms \in Nat, Shape(H), NEW O1, Does(H, G, C, V, O1, D, nd, ns),
         Does(G, K, C, V, O, D, md, ms)
  PROVE  Does(H, K, C, V, O, D, nd + md, ns + ms)
<1>1. Shape(G) /\ Shape(K)
  BY DEF Does, Good
<1>2. /\ FreeD(K) >= FreeD(H) - (nd + md) /\ FreeS(K) >= FreeS(H) - (ns + ms)
  BY <1>1, FreeCounts DEF Does
<1>3. Keeps(H, G, D) /\ Keeps(G, K, D)
  BY DEF Does
<1>4. DOMAIN H.d \subseteq DOMAIN K.d /\ DOMAIN H.s \subseteq DOMAIN K.s
  BY <1>3 DEF Keeps
<1>5. ASSUME NEW st \in DOMAIN H.s
      PROVE  /\ Scalars(H.s[st]) => Scalars(K.s[st])
             /\ Rows(H.s[st]) => Rows(K.s[st])
  BY <1>3, <1>5 DEF Keeps
<1>6. ASSUME NEW r \in DOMAIN H.d
      PROVE  /\ H.d[r].base \in DescAddr => K.d[r] = H.d[r]
             /\ H.d[r].base \in DOMAIN H.s => K.d[r].base \in DOMAIN K.s
  BY <1>3, <1>6 DEF Keeps
<1>7. ASSUME NEW r \in DOMAIN H.d \ D
      PROVE  /\ K.d[r].off = H.d[r].off /\ K.d[r].n = H.d[r].n
             /\ H.d[r].base \in DOMAIN H.s =>
                  /\ Scalars(H.s[H.d[r].base]) => Scalars(K.s[K.d[r].base])
                  /\ Rows(H.s[H.d[r].base]) => Rows(K.s[K.d[r].base])
  BY <1>3, <1>7 DEF Keeps
<1>8. Keeps(H, K, D)
  BY <1>4, <1>5, <1>6, <1>7 DEF Keeps
<1>9. QED
  BY <1>2, <1>8 DEF Does

(* An operation may be said to take more than it does. *)
LEMMA DoesLess ==
  ASSUME NEW H, NEW G, NEW C, NEW V, NEW O, NEW D, NEW E, NEW nd \in Nat, NEW ns \in Nat,
         NEW md \in Nat, NEW ms \in Nat, Shape(H), Does(H, G, C, V, O, D, nd, ns), D \subseteq E,
         nd <= md, ns <= ms
  PROVE  Does(H, G, C, V, O, E, md, ms)
<1>1. Shape(G) /\ Good(G, C, V, O) /\ Keeps(H, G, D)
  BY DEF Does, Good
<1>2. FreeD(G) >= FreeD(H) - md /\ FreeS(G) >= FreeS(H) - ms
  BY <1>1, FreeCounts DEF Does
<1>3. Keeps(H, G, E)
  BY <1>1 DEF Keeps
<1>4. QED
  BY <1>1, <1>2, <1>3 DEF Does

-----------------------------------------------------------------------------
(* What an operation is made of: a descriptor or a store is new, or is changed. *)

(* a new descriptor *)
LEMMA AddDesc ==
  ASSUME NEW H, NEW C, NEW V, NEW O, Good(H, C, V, O), FreeD(H) > 0, NEW x \in Desc,
         Inside(H, x) \/ View(H, V, x), NEW G, G = rowd_alloc(H, x), NEW k, k = NextDesc(H)
  PROVE  /\ k \in DescAddr \ DOMAIN H.d /\ DOMAIN G.d = DOMAIN H.d \cup {k} /\ G.d[k] = x
         /\ G.s = H.s /\ \A r \in DOMAIN H.d : G.d[r] = H.d[r]
         /\ Does(H, G, C, V, O, None, 1, 0)
<1>1. Shape(H) /\ k \in DescAddr \ DOMAIN H.d
  BY NextFree DEF Good
<1>2. G = [d |-> With(H.d, k, x), s |-> H.s]
  BY <1>1 DEF rowd_alloc, Shape
<1>3. G.d = With(H.d, k, x) /\ G.s = H.s
  BY <1>2
<1>4. /\ DOMAIN G.d = DOMAIN H.d \cup {k} /\ G.d[k] = x
      /\ \A r \in DOMAIN H.d : G.d[r] = H.d[r]
      /\ G.d \in [DOMAIN G.d -> Desc]
  <2>1. H.d \in [DOMAIN H.d -> Desc]
    BY <1>1 DEF Shape
  <2>2. G.d = [z \in DOMAIN H.d \cup {k} |-> IF z = k THEN x ELSE H.d[z]]
    BY <1>3 DEF With
  <2>3. QED
    BY <1>1, <2>1, <2>2
<1>5. Shape(G)
  BY <1>1, <1>2, <1>3, <1>4 DEF Shape
<1>6. Keeps(H, G, None)
  BY <1>3, <1>4 DEF Keeps
<1>7. /\ \A r \in C : Plain(G, r)
      /\ \A r \in DOMAIN G.d : Inside(G, G.d[r]) \/ View(G, V, G.d[r])
  <2>1. ASSUME NEW r \in DOMAIN H.d, Inside(H, H.d[r]) PROVE Inside(G, G.d[r])
    BY <1>3, <1>4, <2>1 DEF Inside
  <2>2. ASSUME NEW z \in Desc, View(H, V, z) PROVE View(G, V, z)
    <3>1. z.base \in DOMAIN H.d
      BY <2>2 DEF View, Good, Plain
    <3>2. QED
      BY <1>4, <2>2, <3>1 DEF View
  <2>3. Inside(G, x) \/ View(G, V, x)
    BY <1>3, <2>2 DEF Inside
  <2>4. ASSUME NEW r \in DOMAIN H.d PROVE Inside(G, G.d[r]) \/ View(G, V, G.d[r])
    <3>1. H.d[r] \in Desc
      BY <1>1, ShapeParts
    <3>2. QED
      BY <1>4, <2>1, <2>2, <3>1 DEF Good
  <2>5. QED
    BY <1>4, <2>1, <2>3, <2>4 DEF Good, Plain
<1>8. ASSUME NEW st \in DOMAIN G.s
      PROVE  /\ Sound(G, C, O, G.s[st])
             /\ st \notin O => Scalars(G.s[st]) \/ Rows(G.s[st])
  <2>1. /\ Sound(H, C, O, G.s[st])
        /\ st \notin O => Scalars(G.s[st]) \/ Rows(G.s[st])
    BY <1>3 DEF Good
  <2>2. ASSUME NEW i \in DOMAIN G.s[st].e PROVE Elem(G, C, O, G.s[st].e[i])
    BY <1>3, <1>4, <2>1 DEF Sound, Elem, Plain, Inside
  <2>3. QED
    BY <2>1, <2>2 DEF Sound
<1>9. Good(G, C, V, O)
  BY <1>5, <1>7, <1>8 DEF Good
<1>10. FreeD(G) >= FreeD(H) - 1 /\ FreeS(G) >= FreeS(H) - 0
  <2>1. Cardinality(DOMAIN G.d) = Cardinality(DOMAIN H.d) + 1
    BY <1>1, <1>4, FreeCounts, FS_AddElement
  <2>2. QED
    BY <1>1, <1>3, <2>1, FreeCounts DEF FreeD, FreeS
<1>11. QED
  BY <1>1, <1>3, <1>4, <1>6, <1>9, <1>10 DEF Does

(* a new store, to be filled if it is in P *)
LEMMA AddStore ==
  ASSUME NEW H, NEW C, NEW V, NEW O, Good(H, C, V, O), FreeS(H) > 0, NEW x \in Store,
         Sound(H, C, O, x), NEW G, G = store_alloc(H, x), NEW k, k = NextStore(H), NEW P,
         O \subseteq P, P \subseteq O \cup {k}, k \notin P => Scalars(x) \/ Rows(x)
  PROVE  /\ k \in StoreAddr \ DOMAIN H.s /\ DOMAIN G.s = DOMAIN H.s \cup {k} /\ G.s[k] = x
         /\ G.d = H.d /\ \A st \in DOMAIN H.s : G.s[st] = H.s[st]
         /\ Does(H, G, C, V, P, None, 0, 1)
<1>1. Shape(H) /\ k \in StoreAddr \ DOMAIN H.s
  BY NextFree DEF Good
<1>2. G = [d |-> H.d, s |-> With(H.s, k, x)]
  BY <1>1 DEF store_alloc, Shape
<1>3. G.s = With(H.s, k, x) /\ G.d = H.d
  BY <1>2
<1>4. /\ DOMAIN G.s = DOMAIN H.s \cup {k} /\ G.s[k] = x
      /\ \A st \in DOMAIN H.s : G.s[st] = H.s[st]
      /\ G.s \in [DOMAIN G.s -> Store]
  <2>1. H.s \in [DOMAIN H.s -> Store]
    BY <1>1 DEF Shape
  <2>2. G.s = [z \in DOMAIN H.s \cup {k} |-> IF z = k THEN x ELSE H.s[z]]
    BY <1>3 DEF With
  <2>3. QED
    BY <1>1, <2>1, <2>2
<1>5. Shape(G)
  BY <1>1, <1>2, <1>3, <1>4 DEF Shape
<1>6. Keeps(H, G, None)
  BY <1>3, <1>4 DEF Keeps
<1>7. /\ \A r \in C : Plain(G, r)
      /\ \A r \in DOMAIN G.d : Inside(G, G.d[r]) \/ View(G, V, G.d[r])
  <2>1. ASSUME NEW r \in DOMAIN H.d, Inside(H, H.d[r]) PROVE Inside(G, G.d[r])
    BY <1>3, <1>4, <2>1 DEF Inside
  <2>2. ASSUME NEW r \in DOMAIN H.d, View(H, V, H.d[r]) PROVE View(G, V, G.d[r])
    BY <1>3, <2>2 DEF View
  <2>3. QED
    BY <1>3, <2>1, <2>2 DEF Good, Plain
<1>8. ASSUME NEW y, Sound(H, C, O, y) PROVE Sound(G, C, P, y)
  <2>1. ASSUME NEW i \in DOMAIN y.e PROVE Elem(G, C, P, y.e[i])
    <3>1. Elem(H, C, O, y.e[i])
      BY <1>8 DEF Sound
    <3>2. QED
      BY <1>1, <1>3, <1>4, <3>1 DEF Elem, Plain, Inside
  <2>2. QED
    BY <1>8, <2>1 DEF Sound
<1>9. ASSUME NEW st \in DOMAIN G.s
      PROVE  /\ Sound(G, C, P, G.s[st])
             /\ st \notin P => Scalars(G.s[st]) \/ Rows(G.s[st])
  <2>1. CASE st = k
    BY <1>4, <1>8, <2>1
  <2>2. CASE st \in DOMAIN H.s
    BY <1>4, <1>8, <2>2 DEF Good
  <2>3. QED
    BY <1>4, <2>1, <2>2
<1>10. Good(G, C, V, P)
  BY <1>5, <1>7, <1>9 DEF Good
<1>11. FreeD(G) >= FreeD(H) - 0 /\ FreeS(G) >= FreeS(H) - 1
  <2>1. Cardinality(DOMAIN G.s) = Cardinality(DOMAIN H.s) + 1
    BY <1>1, <1>4, FreeCounts, FS_AddElement
  <2>2. QED
    BY <1>1, <1>3, <2>1, FreeCounts DEF FreeD, FreeS
<1>12. QED
  BY <1>1, <1>3, <1>4, <1>6, <1>10, <1>11 DEF Does

(* a heap with one store, and with one descriptor, changed *)
WithStore(H, st, x) == [H EXCEPT !.s[st] = x]
WithDesc(H, r, x)   == [H EXCEPT !.d[r] = x]

(* a store x that becomes y holds what it held: scalars, or rows *)
KindKept(x, y) ==
  /\ Scalars(x) => Scalars(y)
  /\ Rows(x) => Rows(y)

(* the store st became x *)
OneStore(H, G, st, x) ==
  /\ G.s[st] = x /\ DOMAIN G.s = DOMAIN H.s /\ G.d = H.d
  /\ \A t \in DOMAIN H.s : t # st => G.s[t] = H.s[t]

(* a store changed, its length kept, and its kind unless it is being filled *)
LEMMA SetStore ==
  ASSUME NEW H, NEW C, NEW V, NEW O, Good(H, C, V, O), NEW st \in DOMAIN H.s, NEW x \in Store,
         Sound(H, C, O, x), Len(x.e) = Len(H.s[st].e), st \in O \/ KindKept(H.s[st], x),
         NEW G, G = WithStore(H, st, x)
  PROVE  /\ OneStore(H, G, st, x) /\ Good(G, C, V, O)
         /\ KindKept(H.s[st], x) => Does(H, G, C, V, O, None, 0, 0)
<1> USE DEF KindKept, OneStore
<1>1. Shape(H) /\ H.s \in [DOMAIN H.s -> Store]
  BY DEF Good, Shape
<1>2. G = [d |-> H.d, s |-> [H.s EXCEPT ![st] = x]]
  BY <1>1 DEF Shape, WithStore
<1>3. G.s = [H.s EXCEPT ![st] = x] /\ G.d = H.d
  BY <1>2
<1>4. /\ DOMAIN G.s = DOMAIN H.s /\ G.s[st] = x
      /\ \A t \in DOMAIN H.s : t # st => G.s[t] = H.s[t]
      /\ G.s \in [DOMAIN G.s -> Store]
  BY <1>1, <1>3, ButOne
<1>5. Shape(G)
  BY <1>1, <1>2, <1>3, <1>4 DEF Shape
<1>6. ASSUME NEW t \in DOMAIN H.s, t \notin O \/ KindKept(H.s[st], x)
      PROVE  /\ Scalars(H.s[t]) => Scalars(G.s[t])
             /\ Rows(H.s[t]) => Rows(G.s[t])
  BY <1>4, <1>6
<1>7. ASSUME NEW r \in DOMAIN H.d, Inside(H, H.d[r]) PROVE Inside(G, G.d[r])
  BY <1>3, <1>4, <1>7 DEF Inside
<1>8. /\ \A r \in C : Plain(G, r)
      /\ \A r \in DOMAIN G.d : Inside(G, G.d[r]) \/ View(G, V, G.d[r])
  <2>1. ASSUME NEW r \in DOMAIN H.d, View(H, V, H.d[r]) PROVE View(G, V, G.d[r])
    BY <1>3, <2>1 DEF View
  <2>2. QED
    BY <1>3, <1>7, <2>1 DEF Good, Plain
<1>9. ASSUME NEW y, Sound(H, C, O, y) PROVE Sound(G, C, O, y)
  <2>1. ASSUME NEW i \in DOMAIN y.e PROVE Elem(G, C, O, y.e[i])
    <3>1. Elem(H, C, O, y.e[i])
      BY <1>9 DEF Sound
    <3>2. ASSUME IsRow(y.e[i]) PROVE Plain(G, y.e[i]) /\ Scalars(G.s[G.d[y.e[i]].base])
      <4>1. /\ Plain(H, y.e[i]) /\ Scalars(H.s[H.d[y.e[i]].base])
            /\ H.d[y.e[i]].base \notin O
        BY <3>1, <3>2 DEF Elem
      <4>2. QED
        BY <1>3, <1>6, <1>7, <4>1 DEF Plain, Inside
    <3>3. QED
      BY <1>3, <3>1, <3>2 DEF Elem
  <2>2. QED
    BY <1>9, <2>1 DEF Sound
<1>10. ASSUME NEW t \in DOMAIN G.s
      PROVE  /\ Sound(G, C, O, G.s[t])
             /\ t \notin O => Scalars(G.s[t]) \/ Rows(G.s[t])
  <2>1. CASE t = st
    BY <1>4, <1>9, <2>1 DEF Good
  <2>2. CASE t # st
    BY <1>4, <1>9, <2>2 DEF Good
  <2>3. QED
    BY <2>1, <2>2
<1>11. Good(G, C, V, O)
  BY <1>5, <1>8, <1>10 DEF Good
<1>12. ASSUME KindKept(H.s[st], x) PROVE Does(H, G, C, V, O, None, 0, 0)
  <2>1. Keeps(H, G, None)
    <3>1. ASSUME NEW t \in DOMAIN H.s
          PROVE  /\ Scalars(H.s[t]) => Scalars(G.s[t])
                 /\ Rows(H.s[t]) => Rows(G.s[t])
      BY <1>6, <1>12
    <3>2. QED
      BY <1>3, <1>4, <3>1 DEF Keeps
  <2>2. QED
    BY <1>1, <1>3, <1>4, <1>11, <2>1, FreeCounts DEF Does, FreeD, FreeS
<1>13. QED
  BY <1>3, <1>4, <1>11, <1>12

(* The views of a variable r, if there are any. *)
Unseen(H, r) == \A q \in DOMAIN H.d : H.d[q].base # r

(* the descriptor r became x *)
OneDesc(H, G, r, x) ==
  /\ G.d[r] = x /\ DOMAIN G.d = DOMAIN H.d /\ G.s = H.s
  /\ \A q \in DOMAIN H.d : q # r => G.d[q] = H.d[q]

(* The descriptor r may become x. *)
MaySet(H, C, O, D, r, x) ==
  /\ Inside(H, H.d[r]) /\ Inside(H, x)
  /\ Unseen(H, r) \/ (x.off = H.d[r].off /\ x.n = H.d[r].n)
  /\ r \in C \/ (Scalars(H.s[x.base]) /\ x.base \notin O)
  /\ r \in D \/ /\ x.off = H.d[r].off /\ x.n = H.d[r].n
                /\ Scalars(H.s[H.d[r].base]) => Scalars(H.s[x.base])
                /\ Rows(H.s[H.d[r].base]) => Rows(H.s[x.base])

(* a descriptor changed: to bounds of another store, or of its own *)
LEMMA SetDesc ==
  ASSUME NEW H, NEW C, NEW V, NEW O, Good(H, C, V, O), NEW r \in DOMAIN H.d, NEW x \in Desc,
         NEW D, MaySet(H, C, O, D, r, x), NEW G, G = WithDesc(H, r, x)
  PROVE  OneDesc(H, G, r, x) /\ Does(H, G, C, V, O, D, 0, 0)
<1> USE DEF MaySet, OneDesc
<1>1. Shape(H) /\ H.d \in [DOMAIN H.d -> Desc]
  BY DEF Good, Shape
<1>2. G = [d |-> [H.d EXCEPT ![r] = x], s |-> H.s]
  BY <1>1 DEF Shape, WithDesc
<1>3. G.d = [H.d EXCEPT ![r] = x] /\ G.s = H.s
  BY <1>2
<1>4. /\ DOMAIN G.d = DOMAIN H.d /\ G.d[r] = x
      /\ \A q \in DOMAIN H.d : q # r => G.d[q] = H.d[q]
      /\ G.d \in [DOMAIN G.d -> Desc]
  BY <1>1, <1>3, ButOne
<1>5. Shape(G)
  BY <1>1, <1>2, <1>3, <1>4 DEF Shape
<1>6. H.d[r].base \in DOMAIN H.s /\ H.d[r].base \notin DescAddr
  BY <1>1, Addresses DEF Inside, Shape
<1>7. Keeps(H, G, D)
  <2>1. ASSUME NEW q \in DOMAIN H.d
        PROVE  /\ H.d[q].base \in DescAddr => G.d[q] = H.d[q]
               /\ H.d[q].base \in DOMAIN H.s => G.d[q].base \in DOMAIN G.s
    <3>1. CASE q = r
      BY <1>3, <1>4, <1>6, <3>1 DEF Inside
    <3>2. CASE q # r
      BY <1>3, <1>4, <3>2
    <3>3. QED
      BY <3>1, <3>2
  <2>2. ASSUME NEW q \in DOMAIN H.d \ D
        PROVE  /\ G.d[q].off = H.d[q].off /\ G.d[q].n = H.d[q].n
               /\ H.d[q].base \in DOMAIN H.s =>
                    /\ Scalars(H.s[H.d[q].base]) => Scalars(G.s[G.d[q].base])
                    /\ Rows(H.s[H.d[q].base]) => Rows(G.s[G.d[q].base])
    <3>1. CASE q = r
      BY <1>3, <1>4, <2>2, <3>1
    <3>2. CASE q # r
      BY <1>3, <1>4, <3>2
    <3>3. QED
      BY <3>1, <3>2
  <2>3. QED
    BY <1>3, <1>4, <2>1, <2>2 DEF Keeps
<1>8. ASSUME NEW q \in DOMAIN H.d, Inside(H, H.d[q]) PROVE Inside(G, G.d[q])
  <2>1. CASE q = r
    BY <1>3, <1>4, <2>1 DEF Inside
  <2>2. CASE q # r
    BY <1>3, <1>4, <1>8, <2>2 DEF Inside
  <2>3. QED
    BY <2>1, <2>2
<1>9. ASSUME NEW q \in DOMAIN H.d, View(H, V, H.d[q]) PROVE View(G, V, G.d[q])
  <2>1. H.d[q].base \in DOMAIN H.d /\ H.d[q].base \in DescAddr
    BY <1>1, <1>9 DEF View, Good, Plain, Shape
  <2>2. q # r /\ G.d[q] = H.d[q]
    BY <1>4, <1>6, <2>1
  <2>3. G.d[H.d[q].base].off = H.d[H.d[q].base].off /\ G.d[H.d[q].base].n = H.d[H.d[q].base].n
    BY <1>4, <2>1 DEF Unseen
  <2>4. QED
    BY <1>9, <2>2, <2>3 DEF View
<1>10. /\ \A q \in C : Plain(G, q)
       /\ \A q \in DOMAIN G.d : Inside(G, G.d[q]) \/ View(G, V, G.d[q])
  BY <1>4, <1>8, <1>9 DEF Good, Plain
<1>11. ASSUME NEW v, Elem(H, C, O, v) PROVE Elem(G, C, O, v)
  <2>1. SUFFICES ASSUME IsRow(v) PROVE Elem(G, C, O, v)
    BY DEF Elem
  <2>2. v \notin C /\ Plain(H, v) /\ H.d[v].base \notin O /\ Scalars(H.s[H.d[v].base])
    BY <1>11, <2>1 DEF Elem
  <2>3. Plain(G, v)
    BY <1>4, <1>8, <2>2 DEF Plain
  <2>4. CASE v = r
    BY <1>3, <1>4, <2>2, <2>3, <2>4 DEF Elem
  <2>5. CASE v # r
    BY <1>3, <1>4, <2>2, <2>3, <2>5 DEF Elem, Plain
  <2>6. QED
    BY <2>4, <2>5
<1>12. ASSUME NEW t \in DOMAIN G.s PROVE Sound(G, C, O, G.s[t])
  BY <1>3, <1>11 DEF Good, Sound
<1>13. Good(G, C, V, O)
  BY <1>3, <1>5, <1>10, <1>12 DEF Good
<1>14. QED
  BY <1>1, <1>3, <1>4, <1>7, <1>13, FreeCounts DEF Does, FreeD, FreeS

-----------------------------------------------------------------------------
(* What is read of a heap. *)

(* one extent inside another *)
LEMMA Between ==
  ASSUME NEW a \in Nat, NEW b \in Nat, NEW c \in Nat, NEW d \in Nat, NEW e \in Nat,
         a + b <= c + d, c + d <= e
  PROVE  a + b <= e
OBVIOUS

(* an extent inside a longer store *)
LEMMA Within ==
  ASSUME NEW a \in Nat, NEW b \in Nat, NEW c \in Nat, NEW d \in Nat, a + b <= c, c <= d
  PROVE  a + b <= d
OBVIOUS

(* Every descriptor has a store, and lies inside it: its own, or that of its owner. *)
LEMMA StoreOf ==
  ASSUME NEW H, NEW C, NEW V, NEW O, Good(H, C, V, O), NEW r \in DOMAIN H.d
  PROVE  /\ rowd_store(H, r) \in DOMAIN H.s
         /\ H.d[r].off + H.d[r].n <= Len(H.s[rowd_store(H, r)].e)
         /\ Inside(H, H.d[r]) => rowd_owner(H, r) = r /\ rowd_store(H, r) = H.d[r].base
         /\ ~Inside(H, H.d[r]) => View(H, V, H.d[r]) /\ rowd_owner(H, r) = H.d[r].base
         /\ rowd_owner(H, r) \in DOMAIN H.d /\ Inside(H, H.d[rowd_owner(H, r)])
         /\ H.d[rowd_owner(H, r)].off <= H.d[r].off
         /\ H.d[r].off + H.d[r].n <= H.d[rowd_owner(H, r)].off + H.d[rowd_owner(H, r)].n
<1>1. /\ Shape(H) /\ H.d[r] \in Desc /\ H.d[r].off \in Nat /\ H.d[r].n \in Nat
      /\ DOMAIN H.d \subseteq DescAddr /\ DOMAIN H.s \subseteq StoreAddr
  BY ShapeParts, DescParts DEF Good
<1>2. CASE Inside(H, H.d[r])
  <2>1. H.d[r].base \notin DescAddr
    BY <1>1, <1>2, Addresses DEF Inside
  <2>2. QED
    BY <1>1, <1>2, <2>1 DEF Inside, rowd_owner, rowd_store
<1>3. CASE ~Inside(H, H.d[r])
  <2>1. View(H, V, H.d[r]) /\ Plain(H, H.d[r].base)
    BY <1>3 DEF Good, View
  <2>2. H.d[r].base \in DescAddr
    BY <1>1, <2>1 DEF Plain
  <2>3. /\ H.d[H.d[r].base].off \in Nat /\ H.d[H.d[r].base].n \in Nat
        /\ H.s[H.d[H.d[r].base].base] \in Store
    BY <1>1, <2>1, ShapeParts, DescParts DEF Plain, Inside
  <2>4. Len(H.s[H.d[H.d[r].base].base].e) \in Nat
    BY <2>3, StoreParts
  <2>5. rowd_owner(H, r) = H.d[r].base /\ rowd_store(H, r) = H.d[H.d[r].base].base
    BY <2>2 DEF rowd_owner, rowd_store
  <2>6. /\ H.d[H.d[r].base].off <= H.d[r].off
        /\ H.d[r].off + H.d[r].n <= H.d[H.d[r].base].off + H.d[H.d[r].base].n
        /\ H.d[H.d[r].base].off + H.d[H.d[r].base].n <= Len(H.s[H.d[H.d[r].base].base].e)
    BY <2>1 DEF Inside, View, Plain
  <2>7. H.d[r].off + H.d[r].n <= Len(H.s[H.d[H.d[r].base].base].e)
    BY <1>1, <2>3, <2>4, <2>6, Between
  <2>8. H.d[r].base \in DOMAIN H.d /\ Inside(H, H.d[H.d[r].base])
    BY <2>1 DEF Plain
  <2>9. H.d[H.d[r].base].base \in DOMAIN H.s
    BY <2>8 DEF Inside
  <2>10. QED
    BY <1>3, <2>1, <2>5, <2>6, <2>7, <2>8, <2>9
<1>4. QED
  BY <1>2, <1>3

(* An element of a store. *)
LEMMA ElementOf ==
  ASSUME NEW H, NEW C, NEW V, NEW O, Good(H, C, V, O), NEW st \in DOMAIN H.s,
         NEW i \in 1 .. Len(H.s[st].e)
  PROVE  /\ H.s[st].e[i] \in Value /\ Elem(H, C, O, H.s[st].e[i])
         /\ H.s[st].leaf => leaf_accepts(H.s[st].e[i])
         /\ Scalars(H.s[st]) => ~IsRow(H.s[st].e[i])
         /\ Rows(H.s[st]) => IsRow(H.s[st].e[i])
<1>1. H.s[st] \in Store
  BY ShapeParts DEF Good
<1>2. DOMAIN H.s[st].e = 1 .. Len(H.s[st].e) /\ H.s[st].e[i] \in Value
  BY <1>1, StoreParts
<1>3. QED
  BY <1>2 DEF Good, Sound, Scalars, Rows

(* A leaf has no rows. *)
LEMMA RowsNoLeaf ==
  ASSUME NEW H, NEW C, NEW V, NEW O, Good(H, C, V, O), NEW st \in DOMAIN H.s,
         NEW i \in 1 .. Len(H.s[st].e), IsRow(H.s[st].e[i])
  PROVE  H.s[st].leaf = FALSE
<1>1. H.s[st].leaf \in BOOLEAN
  BY ShapeParts, StoreParts DEF Good
<1>2. QED
  BY <1>1, ElementOf DEF leaf_accepts

(* An element that is a row is held by nothing else, and no name is one of its parts. *)
LEMMA ElementUnseen ==
  ASSUME NEW H, NEW C, NEW V, NEW O, Good(H, C, V, O), NEW r \in DOMAIN H.d,
         r \in V => "slice_name" \notin Ops \/ H.d[r].n = 0
  PROVE  Unseen(H, r)
<1>1. SUFFICES ASSUME NEW q \in DOMAIN H.d, H.d[q].base = r PROVE FALSE
  BY DEF Unseen
<1>2. r \in DescAddr /\ H.d[r] \in Desc /\ H.d[q] \in Desc /\ ~Inside(H, H.d[q])
  BY <1>1, ShapeParts, Addresses DEF Good, Inside
<1>3. View(H, V, H.d[q])
  BY <1>1, <1>2 DEF Good
<1>4. /\ H.d[r].n \in Nat /\ H.d[r].off \in Nat /\ H.d[q].n \in Nat /\ H.d[q].off \in Nat
  BY <1>2, DescParts
<1>5. QED
  BY <1>1, <1>3, <1>4 DEF View

-----------------------------------------------------------------------------
(* The operations of sharing. *)

(* nothing is changed but share counts *)
Counts(H, G) ==
  /\ G.d = H.d /\ DOMAIN G.s = DOMAIN H.s
  /\ \A t \in DOMAIN H.s : G.s[t].e = H.s[t].e /\ G.s[t].leaf = H.s[t].leaf

(* a share count changed *)
LEMMA SetCount ==
  ASSUME NEW H, NEW C, NEW V, NEW O, Good(H, C, V, O), NEW st \in DOMAIN H.s,
         NEW c \in 0 .. RcMod - 1, NEW G, G = [H EXCEPT !.s[st].rc = c]
  PROVE  Counts(H, G) /\ G.s[st].rc = c /\ Does(H, G, C, V, O, None, 0, 0)
<1> DEFINE x == [H.s[st] EXCEPT !.rc = c]
<1>1. H.s[st] \in Store
  BY ShapeParts DEF Good
<1>2. x \in Store /\ x.e = H.s[st].e /\ x.leaf = H.s[st].leaf /\ x.rc = c
  BY <1>1 DEF Store
<1>3. Sound(H, C, O, x) /\ KindKept(H.s[st], x)
  BY <1>2 DEF Good, Sound, Scalars, Rows, KindKept
<1>4. G = WithStore(H, st, x)
  BY DEF WithStore
<1> HIDE DEF x
<1>5. Len(x.e) = Len(H.s[st].e)
  BY <1>2
<1>6. OneStore(H, G, st, x) /\ Does(H, G, C, V, O, None, 0, 0)
  BY <1>2, <1>3, <1>4, <1>5, SetStore
<1>7. QED
  BY <1>2, <1>6 DEF Counts, OneStore

(* what there was is as it was, but for share counts *)
Extends(H, G) ==
  /\ DOMAIN H.d \subseteq DOMAIN G.d /\ DOMAIN H.s \subseteq DOMAIN G.s
  /\ \A q \in DOMAIN H.d : G.d[q] = H.d[q]
  /\ \A t \in DOMAIN H.s : G.s[t].e = H.s[t].e /\ G.s[t].leaf = H.s[t].leaf

(* no store holds the descriptor k *)
Fresh(G, k) == \A t \in DOMAIN G.s : \A i \in DOMAIN G.s[t].e : G.s[t].e[i] # k

(* A heap extended again has been extended. *)
LEMMA ExtendsBoth ==
  ASSUME NEW H, NEW G, NEW K, Extends(H, G), Extends(G, K)
  PROVE  Extends(H, K)
<1>1. ASSUME NEW q \in DOMAIN H.d PROVE q \in DOMAIN K.d /\ K.d[q] = H.d[q]
  BY <1>1 DEF Extends
<1>2. ASSUME NEW t \in DOMAIN H.s
      PROVE  t \in DOMAIN K.s /\ K.s[t].e = H.s[t].e /\ K.s[t].leaf = H.s[t].leaf
  BY <1>2 DEF Extends
<1>3. QED
  BY <1>1, <1>2 DEF Extends

(* A heap that is extended is kept, and what its rows hold. *)
LEMMA ExtendsKeeps ==
  ASSUME NEW H, NEW C, NEW V, NEW O, Good(H, C, V, O), NEW G, Extends(H, G)
  PROVE  /\ Keeps(H, G, None)
         /\ \A r \in DOMAIN H.d :
              /\ rowd_store(G, r) = rowd_store(H, r) /\ rowd_owner(G, r) = rowd_owner(H, r)
              /\ \A i : rowd_get(G, r, i) = rowd_get(H, r, i)
<1>1. \A t \in DOMAIN H.s : /\ Scalars(H.s[t]) => Scalars(G.s[t])
                            /\ Rows(H.s[t]) => Rows(G.s[t])
  BY DEF Extends, Scalars, Rows
<1>2. Keeps(H, G, None)
  BY <1>1 DEF Extends, Keeps
<1>3. ASSUME NEW r \in DOMAIN H.d
      PROVE  /\ rowd_store(G, r) = rowd_store(H, r) /\ rowd_owner(G, r) = rowd_owner(H, r)
             /\ \A i : rowd_get(G, r, i) = rowd_get(H, r, i)
  <2>1. rowd_owner(G, r) = rowd_owner(H, r)
    BY <1>3 DEF Extends, rowd_owner
  <2>2. rowd_owner(H, r) \in DOMAIN H.d /\ rowd_store(H, r) \in DOMAIN H.s
    BY <1>3, StoreOf
  <2>3. rowd_store(G, r) = rowd_store(H, r)
    BY <2>1, <2>2 DEF Extends, rowd_store
  <2>4. QED
    BY <1>3, <2>1, <2>2, <2>3 DEF Extends, rowd_get
<1>4. QED
  BY <1>2, <1>3

(* A count that wraps is a count. *)
LEMMA Wraps ==
  ASSUME NEW a \in Nat
  PROVE  a % RcMod \in 0 .. RcMod - 1
BY Sizes

(* a share more of the store st *)
OneMore(H, st) == [H EXCEPT !.s[st].rc = (@ + 1) % RcMod]

(* x is a descriptor of a part of the row r *)
PartOf(H, r, x) ==
  /\ x.base = rowd_store(H, r)
  /\ H.d[r].off <= x.off /\ x.off + x.n <= H.d[r].off + H.d[r].n

(* A new descriptor of a part of a row. *)
LEMMA NewPart ==
  ASSUME NEW H, NEW C, NEW V, NEW O, Good(H, C, V, O), FreeD(H) > 0, NEW r \in DOMAIN H.d,
         NEW x \in Desc, PartOf(H, r, x), NEW G, G = rowd_alloc(H, x), NEW k, k = NextDesc(H)
  PROVE  /\ k \in DescAddr \ DOMAIN H.d /\ DOMAIN G.d = DOMAIN H.d \cup {k} /\ G.d[k] = x
         /\ G.s = H.s /\ Extends(H, G) /\ Inside(G, G.d[k]) /\ Fresh(G, k)
         /\ Does(H, G, C, V, O, None, 1, 0)
<1>1. /\ rowd_store(H, r) \in DOMAIN H.s
      /\ H.d[r].off + H.d[r].n <= Len(H.s[rowd_store(H, r)].e)
  BY StoreOf
<1>2. /\ H.d[r].off \in Nat /\ H.d[r].n \in Nat /\ x.off \in Nat /\ x.n \in Nat
      /\ Len(H.s[rowd_store(H, r)].e) \in Nat
  BY <1>1, ShapeParts, DescParts, StoreParts DEF Good
<1>3. x.off + x.n <= Len(H.s[rowd_store(H, r)].e)
  BY <1>1, <1>2, Between DEF PartOf
<1>4. Inside(H, x)
  BY <1>1, <1>3 DEF Inside, PartOf
<1>5. /\ k \in DescAddr \ DOMAIN H.d /\ DOMAIN G.d = DOMAIN H.d \cup {k} /\ G.d[k] = x
      /\ G.s = H.s /\ \A q \in DOMAIN H.d : G.d[q] = H.d[q]
      /\ Does(H, G, C, V, O, None, 1, 0)
  BY <1>4, AddDesc
<1>6. Inside(G, G.d[k])
  BY <1>4, <1>5 DEF Inside
<1>7. Fresh(G, k)
  <2>1. ASSUME NEW t \in DOMAIN H.s, NEW i \in DOMAIN H.s[t].e PROVE H.s[t].e[i] # k
    <3>1. Elem(H, C, O, H.s[t].e[i])
      BY <2>1 DEF Good, Sound
    <3>2. IsRow(H.s[t].e[i]) => H.s[t].e[i] \in DOMAIN H.d
      BY <3>1 DEF Elem, Plain
    <3>3. QED
      BY <1>5, <3>2 DEF IsRow
  <2>2. QED
    BY <1>5, <2>1 DEF Fresh
<1>8. Extends(H, G)
  BY <1>5 DEF Extends
<1>9. QED
  BY <1>5, <1>6, <1>7, <1>8

(* Such a part with a share of the store of its own. *)
LEMMA SharePart ==
  ASSUME NEW H, NEW C, NEW V, NEW O, Good(H, C, V, O), FreeD(H) > 0, NEW r \in DOMAIN H.d,
         NEW x \in Desc, PartOf(H, r, x), NEW K, K = rowd_alloc(H, x),
         NEW G, G = OneMore(K, x.base), NEW k, k = NextDesc(H)
  PROVE  /\ k \in DescAddr \ DOMAIN H.d /\ DOMAIN G.d = DOMAIN H.d \cup {k} /\ G.d[k] = x
         /\ DOMAIN G.s = DOMAIN H.s /\ Extends(H, G) /\ Inside(G, G.d[k]) /\ Fresh(G, k)
         /\ Does(H, G, C, V, O, None, 1, 0)
<1>1. /\ k \in DescAddr \ DOMAIN H.d /\ DOMAIN K.d = DOMAIN H.d \cup {k} /\ K.d[k] = x
      /\ K.s = H.s /\ Extends(H, K) /\ Inside(K, K.d[k]) /\ Fresh(K, k)
      /\ Does(H, K, C, V, O, None, 1, 0)
  BY NewPart
<1>2. Good(K, C, V, O) /\ x.base \in DOMAIN K.s
  BY <1>1 DEF Does, Inside
<1>3. K.s[x.base].rc \in Nat
  BY <1>2, ShapeParts, StoreParts DEF Good
<1>4. PICK c : c = (K.s[x.base].rc + 1) % RcMod
  OBVIOUS
<1>5. c \in 0 .. RcMod - 1
  <2>1. K.s[x.base].rc + 1 \in Nat
    BY <1>3
  <2>2. QED
    BY <1>4, <2>1, Wraps
<1>6. G = [K EXCEPT !.s[x.base].rc = c]
  BY <1>4 DEF OneMore
<1>7. Counts(K, G) /\ Does(K, G, C, V, O, None, 0, 0)
  BY <1>2, <1>5, <1>6, SetCount
<1>8. Extends(H, G) /\ DOMAIN G.d = DOMAIN H.d \cup {k} /\ G.d[k] = x /\ DOMAIN G.s = DOMAIN H.s
  BY <1>1, <1>7 DEF Counts, Extends
<1>9. Inside(G, G.d[k])
  BY <1>1, <1>7 DEF Counts, Inside
<1>10. Fresh(G, k)
  BY <1>1, <1>7 DEF Counts, Fresh
<1>11. Does(H, G, C, V, O, None, 1 + 0, 0 + 0)
  BY <1>1, <1>7, DoesBoth DEF Good
<1>12. 1 + 0 = 1 /\ 0 + 0 = 0
  OBVIOUS
<1>13. Does(H, G, C, V, O, None, 1, 0)
  BY <1>11, <1>12
<1>14. QED
  BY <1>1, <1>8, <1>9, <1>10, <1>13

(* rowd_share and rowd_borrow: a new descriptor of the whole row *)
LEMMA ShareRow ==
  ASSUME NEW H, NEW C, NEW V, NEW O, Good(H, C, V, O), FreeD(H) > 0, NEW r \in DOMAIN H.d,
         NEW G, G \in {rowd_share(H, r), rowd_borrow(H, r)}, NEW k, k = NextDesc(H)
  PROVE  /\ k \in DescAddr \ DOMAIN H.d /\ DOMAIN G.d = DOMAIN H.d \cup {k}
         /\ G.d[k].base = rowd_store(H, r) /\ G.d[k].off = H.d[r].off /\ G.d[k].n = H.d[r].n
         /\ DOMAIN G.s = DOMAIN H.s /\ Extends(H, G) /\ Inside(G, G.d[k]) /\ Fresh(G, k)
         /\ Does(H, G, C, V, O, None, 1, 0)
<1>1. H.d[r].off \in Nat /\ H.d[r].n \in Nat /\ H.d[r].n \in 0 .. prog.len
  BY ShapeParts, DescParts DEF Good
<1>2. rowd_store(H, r) \in StoreAddr
  BY StoreOf, ShapeParts DEF Good
<1>3. PICK b : b = (G = rowd_borrow(H, r) /\ G # rowd_share(H, r))
  OBVIOUS
<1>4. PICK x : x = [base |-> rowd_store(H, r), off |-> H.d[r].off, n |-> H.d[r].n, pad2 |-> b]
  OBVIOUS
<1>5. x \in Desc
  BY <1>1, <1>2, <1>3, <1>4 DEF Desc
<1>6. x.base = rowd_store(H, r) /\ x.off = H.d[r].off /\ x.n = H.d[r].n /\ x.pad2 = b
  BY <1>4
<1>7. PartOf(H, r, x)
  BY <1>1, <1>6 DEF PartOf
<1>8. PICK K : K = rowd_alloc(H, x)
  OBVIOUS
<1>9. CASE G = rowd_share(H, r)
  <2>1. b = FALSE
    BY <1>3, <1>9
  <2>2. G = OneMore(K, x.base)
    BY <1>4, <1>8, <1>9, <2>1 DEF rowd_share, OneMore
  <2>3. QED
    BY <1>5, <1>6, <1>7, <1>8, <2>2, SharePart
<1>10. CASE G # rowd_share(H, r)
  <2>1. G = rowd_borrow(H, r) /\ b = TRUE
    BY <1>3, <1>10
  <2>2. x = [base |-> rowd_store(H, r), off |-> H.d[r].off, n |-> H.d[r].n, pad2 |-> TRUE]
    BY <1>4, <2>1
  <2>3. G = K
    BY <1>8, <2>1, <2>2 DEF rowd_borrow
  <2>4. QED
    BY <1>5, <1>6, <1>7, <1>8, <2>3, NewPart
<1>11. QED
  BY <1>9, <1>10

-----------------------------------------------------------------------------
(* A descriptor goes over to a store of its own. *)

(* the row o, and every other, holds what it held *)
Moved(H, G, o) ==
  /\ DOMAIN G.d = DOMAIN H.d /\ DOMAIN H.s \subseteq DOMAIN G.s
  /\ \A q \in DOMAIN H.d \ {o} : G.d[q] = H.d[q]
  /\ G.d[o].off = H.d[o].off /\ G.d[o].n = H.d[o].n /\ G.d[o].base \in DOMAIN G.s
  /\ \A t \in DOMAIN H.s : G.s[t].e = H.s[t].e

(* the new store x: as long as the old one, and of its kind unless the row o is one of D *)
Replaces(H, D, o, x) ==
  /\ Len(H.s[H.d[o].base].e) <= Len(x.e) /\ (Scalars(x) \/ Rows(x))
  /\ o \in D \/ KindKept(H.s[H.d[o].base], x)

(* The descriptor o may get, gets, and got the store x. *)
MayMove(H, C, D, o, x) ==
  /\ Inside(H, H.d[o]) /\ Sound(H, C, None, x) /\ Replaces(H, D, o, x)
  /\ o \in C \/ Scalars(x)
MoveTo(H, o, x) == [store_alloc(H, x) EXCEPT !.d[o].base = NextStore(H)]
GotStore(H, G, o, x) ==
  /\ G.d[o].base \in StoreAddr \ DOMAIN H.s /\ DOMAIN G.s = DOMAIN H.s \cup {G.d[o].base}
  /\ G.s[G.d[o].base] = x /\ \A t \in DOMAIN H.s : G.s[t] = H.s[t]

(* The descriptor o gets the new store x. *)
LEMMA MoveStore ==
  ASSUME NEW H, NEW C, NEW V, Good(H, C, V, None), FreeS(H) > 0, NEW o \in DOMAIN H.d,
         NEW x \in Store, NEW D, MayMove(H, C, D, o, x), NEW G, G = MoveTo(H, o, x)
  PROVE  GotStore(H, G, o, x) /\ Moved(H, G, o) /\ Does(H, G, C, V, None, D, 0, 1)
<1> PICK K : K = store_alloc(H, x)
  OBVIOUS
<1> PICK k : k = NextStore(H)
  OBVIOUS
<1> G = [K EXCEPT !.d[o].base = k]
  BY DEF MoveTo
<1> Inside(H, H.d[o]) /\ Sound(H, C, None, x) /\ Replaces(H, D, o, x) /\ (o \in C \/ Scalars(x))
  BY DEF MayMove
<1>1. /\ H.d[o] \in Desc /\ H.s[H.d[o].base] \in Store /\ H.d[o].base \in DOMAIN H.s
      /\ H.d[o].off + H.d[o].n <= Len(H.s[H.d[o].base].e) /\ H.d[o].off \in Nat /\ H.d[o].n \in Nat
      /\ Shape(H)
  BY ShapeParts, DescParts DEF Good, Inside
<1>2. Scalars(x) \/ Rows(x)
  BY DEF Replaces
<1>3. /\ k \in StoreAddr \ DOMAIN H.s /\ DOMAIN K.s = DOMAIN H.s \cup {k} /\ K.s[k] = x
      /\ K.d = H.d /\ \A t \in DOMAIN H.s : K.s[t] = H.s[t]
      /\ Does(H, K, C, V, None, None, 0, 1)
  BY <1>2, AddStore
<1>4. Good(K, C, V, None) /\ Shape(K)
  BY <1>3 DEF Does, Good
<1>5. PICK y : y = [H.d[o] EXCEPT !.base = k]
  OBVIOUS
<1>6. y \in Desc /\ y.base = k /\ y.off = H.d[o].off /\ y.n = H.d[o].n
  BY <1>1, <1>3, <1>5 DEF Desc
<1>7. Inside(K, K.d[o]) /\ Inside(K, y)
  <2>1. /\ Len(x.e) \in Nat /\ Len(H.s[H.d[o].base].e) \in Nat
    BY <1>1, StoreParts
  <2>2. H.d[o].off + H.d[o].n <= Len(x.e)
    BY <1>1, <2>1, Within DEF Replaces
  <2>3. QED
    BY <1>1, <1>3, <1>6, <2>2 DEF Inside
<1>8. G = WithDesc(K, o, y)
  BY <1>3, <1>5 DEF WithDesc
<1>9. /\ G.d[o] = y /\ DOMAIN G.d = DOMAIN K.d /\ G.s = K.s
      /\ \A q \in DOMAIN K.d : q # o => G.d[q] = K.d[q]
      /\ Does(K, G, C, V, None, D, 0, 0)
  <2>1. o \in DOMAIN K.d /\ y.off = K.d[o].off /\ y.n = K.d[o].n
    BY <1>3, <1>6
  <2>2. o \in C \/ (Scalars(K.s[y.base]) /\ y.base \notin None)
    BY <1>3, <1>6 DEF None
  <2>3. o \in D \/ /\ Scalars(K.s[K.d[o].base]) => Scalars(K.s[y.base])
                   /\ Rows(K.s[K.d[o].base]) => Rows(K.s[y.base])
    BY <1>1, <1>3, <1>6 DEF Replaces, KindKept
  <2>4. MaySet(K, C, None, D, o, y)
    BY <1>7, <2>1, <2>2, <2>3 DEF MaySet
  <2>5. OneDesc(K, G, o, y) /\ Does(K, G, C, V, None, D, 0, 0)
    BY <1>4, <1>6, <1>8, <2>1, <2>4, SetDesc
  <2>6. QED
    BY <2>5 DEF OneDesc
<1>10. Moved(H, G, o)
  BY <1>3, <1>6, <1>9 DEF Moved
<1>11. Does(H, G, C, V, None, D, 0 + 0, 1 + 0)
  <2>1. Does(H, K, C, V, None, D, 0, 1)
    BY <1>1, <1>3, DoesLess DEF None
  <2>2. QED
    BY <1>1, <1>9, <2>1, DoesBoth
<1>12. 1 + 0 = 1 /\ 0 + 0 = 0
  OBVIOUS
<1>13. Does(H, G, C, V, None, D, 0, 1)
  BY <1>11, <1>12
<1>14. GotStore(H, G, o, x)
  BY <1>3, <1>6, <1>9 DEF GotStore
<1>15. QED
  BY <1>10, <1>13, <1>14

(* Two changes of a heap, of its descriptors and of its stores. *)
LEMMA BothParts ==
  ASSUME NEW G, G = [d |-> G.d, s |-> G.s], NEW o, NEW b, NEW st, NEW c,
         NEW K, K = [G EXCEPT !.d[o].base = b]
  PROVE  [G EXCEPT !.s[st].rc = c, !.d[o].base = b] = [K EXCEPT !.s[st].rc = c]
OBVIOUS

(* A copy of a store may take its place. *)
LEMMA CopyOf ==
  ASSUME NEW H, NEW C, NEW V, Good(H, C, V, None), NEW o \in DOMAIN H.d, Inside(H, H.d[o]),
         o \in C \/ Scalars(H.s[H.d[o].base]), NEW x \in Store, x.e = H.s[H.d[o].base].e,
         x.leaf => H.s[H.d[o].base].leaf
  PROVE  MayMove(H, C, None, o, x)
<1>1. H.d[o].base \in DOMAIN H.s /\ Sound(H, C, None, H.s[H.d[o].base])
  BY DEF Good, Inside
<1>2. Len(x.e) \in Nat
  BY StoreParts
<1>3. Sound(H, C, None, x)
  BY <1>1 DEF Sound
<1>4. /\ Scalars(H.s[H.d[o].base]) => Scalars(x)
      /\ Rows(H.s[H.d[o].base]) => Rows(x)
  BY DEF Scalars, Rows
<1>5. Len(H.s[H.d[o].base].e) <= Len(x.e)
  BY <1>2
<1>6. Scalars(x) \/ Rows(x)
  BY <1>1, <1>4 DEF Good, None
<1>7. QED
  BY <1>3, <1>4, <1>5, <1>6 DEF MayMove, Replaces, KindKept

(* A count of a share given back. *)
LEMMA OneLess ==
  ASSUME NEW a \in 0 .. RcMod - 1, a > 0
  PROVE  a - 1 \in 0 .. RcMod - 1
BY Sizes

(* A store made a store of slots is a store. *)
LEMMA SlotStore ==
  ASSUME NEW y \in Store, NEW x, x = [y EXCEPT !.leaf = FALSE, !.rc = 1]
  PROVE  x \in Store /\ x.e = y.e /\ x.leaf = FALSE
<1>1. x = [leaf |-> FALSE, rc |-> 1, e |-> y.e]
  BY DEF Store
<1>2. y.e \in Seq(Value) /\ 1 \in 0 .. RcMod - 1
  BY Sizes, StoreParts
<1>3. QED
  BY <1>1, <1>2 DEF Store

(* what own_store allocates *)
OwnCost(H, o) == IF H.s[H.d[o].base].rc > 1 THEN 1 ELSE 0

(* A row without a store changed keeps what it holds. *)
LEMMA CountsMoved ==
  ASSUME NEW H, NEW G, NEW K, NEW o, Moved(H, G, o), Counts(G, K)
  PROVE  Moved(H, K, o) /\ K.s[K.d[o].base].leaf = G.s[G.d[o].base].leaf
BY DEF Moved, Counts

(* own_store, of a store that others share: the row moves, and gives its share back. *)
OwnCopy(H, M, o, st, x) ==
  /\ st = H.d[o].base /\ H.s[st].rc > 1 /\ x = [H.s[st] EXCEPT !.rc = 1]
  /\ M = MoveTo(H, o, x) /\ M.s[st] = H.s[st]
LEMMA OwnMoves ==
  ASSUME NEW H, Shape(H), NEW o, NEW st, NEW x, NEW M, OwnCopy(H, M, o, st, x),
         NEW c, c = H.s[st].rc - 1, NEW G, G = own_store(H, o)
  PROVE  G = [M EXCEPT !.s[st].rc = c]
<1>1. PICK K : K = store_alloc(H, x)
  OBVIOUS
<1>2. PICK k : k = NextStore(H)
  OBVIOUS
<1>3. M = [K EXCEPT !.d[o].base = k]
  BY <1>1, <1>2 DEF MoveTo, OwnCopy
<1>4. K = [d |-> K.d, s |-> K.s]
  <2>1. H = [d |-> H.d, s |-> H.s]
    BY DEF Shape
  <2>2. QED
    BY <1>1, <2>1 DEF store_alloc
<1>5. K.s[st] = H.s[st]
  <2>1. M.s = K.s
    BY <1>3, <1>4
  <2>2. QED
    BY <2>1 DEF OwnCopy
<1>6. G = [K EXCEPT !.s[st].rc = @ - 1, !.d[o].base = k]
  BY <1>1, <1>2 DEF own_store, OwnCopy
<1>7. G = [K EXCEPT !.s[st].rc = c, !.d[o].base = k]
  BY <1>5, <1>6
<1>8. QED
  BY <1>3, <1>4, <1>7, BothParts

(* own_store: what the row holds is its own. *)
LEMMA OwnStore ==
  ASSUME NEW H, NEW C, NEW V, Good(H, C, V, None), NEW o \in DOMAIN H.d, Inside(H, H.d[o]),
         o \in C \/ Scalars(H.s[H.d[o].base]), FreeS(H) >= OwnCost(H, o),
         NEW G, G = own_store(H, o)
  PROVE  /\ Moved(H, G, o) /\ G.s[G.d[o].base].leaf = H.s[H.d[o].base].leaf
         /\ Does(H, G, C, V, None, None, 0, OwnCost(H, o))
<1>1. PICK st : st = H.d[o].base
  OBVIOUS
<1>2. st \in DOMAIN H.s /\ H.s[st] \in Store /\ H.s[st].rc \in 0 .. RcMod - 1 /\ H.s[st].rc \in Nat
  BY <1>1, ShapeParts, StoreParts DEF Good, Inside
<1>3. CASE ~(H.s[st].rc > 1)
  <2>1. G = H /\ OwnCost(H, o) = 0
    BY <1>1, <1>3 DEF own_store, OwnCost
  <2>2. Moved(H, G, o)
    BY <1>1, <1>2, <2>1 DEF Moved
  <2>3. QED
    BY <2>1, <2>2, DoesNothing
<1>4. CASE H.s[st].rc > 1
  <2>1. OwnCost(H, o) = 1 /\ FreeS(H) > 0
    <3>1. OwnCost(H, o) = 1
      BY <1>1, <1>4 DEF OwnCost
    <3>2. FreeS(H) \in Nat
      BY FreeCounts DEF Good
    <3>3. QED
      BY <3>1, <3>2
  <2>2. PICK x : x = [H.s[st] EXCEPT !.rc = 1]
    OBVIOUS
  <2>3. x \in Store /\ x.e = H.s[st].e /\ x.leaf = H.s[st].leaf
    BY <1>2, <2>2, Sizes DEF Store
  <2>4. MayMove(H, C, None, o, x)
    BY <1>1, <2>3, CopyOf
  <2>5. PICK M : M = MoveTo(H, o, x)
    OBVIOUS
  <2>6. GotStore(H, M, o, x) /\ Moved(H, M, o) /\ Does(H, M, C, V, None, None, 0, 1)
    BY <2>1, <2>3, <2>4, <2>5, MoveStore
  <2>7. st \in DOMAIN M.s /\ M.s[st] = H.s[st] /\ M.s[M.d[o].base] = x
    BY <1>2, <2>6 DEF GotStore
  <2>8. PICK c : c = H.s[st].rc - 1
    OBVIOUS
  <2>9. c \in 0 .. RcMod - 1
    BY <1>2, <1>4, <2>8, OneLess
  <2>10. G = [M EXCEPT !.s[st].rc = c]
    <3>1. OwnCopy(H, M, o, st, x) /\ Shape(H)
      BY <1>1, <1>4, <2>2, <2>5, <2>7 DEF OwnCopy, Good
    <3>2. QED
      BY <2>8, <3>1, OwnMoves
  <2>11. Counts(M, G) /\ Does(M, G, C, V, None, None, 0, 0)
    <3>1. Good(M, C, V, None)
      BY <2>6 DEF Does
    <3>2. QED
      BY <2>7, <2>9, <2>10, <3>1, SetCount
  <2>12. Moved(H, G, o) /\ G.s[G.d[o].base].leaf = M.s[M.d[o].base].leaf
    BY <2>6, <2>11, CountsMoved
  <2>13. Does(H, G, C, V, None, None, 0 + 0, 1 + 0)
    BY <2>6, <2>11, DoesBoth DEF Good
  <2>14. 0 + 0 = 0 /\ 1 + 0 = 1
    OBVIOUS
  <2>15. QED
    BY <1>1, <2>1, <2>3, <2>7, <2>12, <2>13, <2>14
<1>5. QED
  BY <1>3, <1>4

(* Widen: a leaf becomes a store of slots. *)
LEMMA WidenStore ==
  ASSUME NEW H, NEW C, NEW V, Good(H, C, V, None), NEW o \in DOMAIN H.d, Inside(H, H.d[o]),
         o \in C \/ Scalars(H.s[H.d[o].base]), FreeS(H) > 0, NEW G, G = Widen(H, o)
  PROVE  /\ Moved(H, G, o) /\ G.s[G.d[o].base].leaf = FALSE
         /\ G.s[G.d[o].base].e = H.s[H.d[o].base].e
         /\ Does(H, G, C, V, None, None, 0, 1)
<1>1. PICK st : st = H.d[o].base
  OBVIOUS
<1>2. st \in DOMAIN H.s /\ H.s[st] \in Store
  BY <1>1, ShapeParts DEF Good, Inside
<1>3. PICK x : x = [H.s[st] EXCEPT !.leaf = FALSE, !.rc = 1]
  OBVIOUS
<1>4. x \in Store /\ x.e = H.s[st].e /\ x.leaf = FALSE
  BY <1>2, <1>3, SlotStore
<1>5. MayMove(H, C, None, o, x)
  BY <1>1, <1>4, CopyOf
<1>6. G = MoveTo(H, o, x)
  BY <1>1, <1>3 DEF Widen, MoveTo
<1>7. GotStore(H, G, o, x) /\ Moved(H, G, o) /\ Does(H, G, C, V, None, None, 0, 1)
  BY <1>4, <1>5, <1>6, MoveStore
<1>8. QED
  BY <1>1, <1>4, <1>7 DEF GotStore

-----------------------------------------------------------------------------
(* An element is set. *)

(* the descriptors are where they were, and v alone may be a borrow no longer *)
SameBounds(H, G, v) ==
  /\ DOMAIN G.d = DOMAIN H.d
  /\ \A q \in DOMAIN H.d :
       /\ G.d[q].base = H.d[q].base /\ G.d[q].off = H.d[q].off /\ G.d[q].n = H.d[q].n
       /\ q # v => G.d[q] = H.d[q]
SameElements(H, G) ==
  /\ DOMAIN G.s = DOMAIN H.s
  /\ \A t \in DOMAIN H.s : G.s[t].e = H.s[t].e /\ G.s[t].leaf = H.s[t].leaf

(* unborrow: a borrow that is kept becomes a share. *)
LEMMA KeptBorrow ==
  ASSUME NEW H, NEW C, NEW V, NEW O, Good(H, C, V, O), NEW v, Elem(H, C, O, v),
         NEW G, G = unborrow(H, v)
  PROVE  SameBounds(H, G, v) /\ SameElements(H, G) /\ Does(H, G, C, V, O, None, 0, 0)
<1>1. CASE ~(IsRow(v) /\ H.d[v].pad2)
  <2>1. G = H
    BY <1>1 DEF unborrow
  <2>2. QED
    BY <2>1, DoesNothing DEF SameBounds, SameElements
<1>2. CASE IsRow(v) /\ H.d[v].pad2
  <2>1. /\ v \in DOMAIN H.d /\ Inside(H, H.d[v]) /\ H.d[v].base \notin O /\ H.d[v] \in Desc
        /\ Scalars(H.s[H.d[v].base]) /\ H.d[v].base \in DOMAIN H.s
    BY <1>2, ShapeParts DEF Good, Elem, Plain, Inside
  <2>2. PICK x : x = [H.d[v] EXCEPT !.pad2 = FALSE]
    OBVIOUS
  <2>3. x \in Desc /\ x.base = H.d[v].base /\ x.off = H.d[v].off /\ x.n = H.d[v].n
    BY <2>1, <2>2 DEF Desc
  <2>4. PICK K : K = WithDesc(H, v, x)
    OBVIOUS
  <2>5. MaySet(H, C, O, None, v, x)
    BY <2>1, <2>3 DEF MaySet, Inside
  <2>6. OneDesc(H, K, v, x) /\ Does(H, K, C, V, O, None, 0, 0)
    BY <2>1, <2>3, <2>4, <2>5, SetDesc
  <2>7. PICK st : st = H.d[v].base
    OBVIOUS
  <2>8. Good(K, C, V, O) /\ K.s = H.s /\ st \in DOMAIN K.s
    BY <2>1, <2>6, <2>7 DEF Does, OneDesc
  <2>9. K.s[st].rc \in Nat
    BY <2>8, ShapeParts, StoreParts DEF Good
  <2>10. PICK c : c = (K.s[st].rc + 1) % RcMod
    OBVIOUS
  <2>11. c \in 0 .. RcMod - 1
    <3>1. K.s[st].rc + 1 \in Nat
      BY <2>9
    <3>2. QED
      BY <2>10, <3>1, Wraps
  <2>12. G = [K EXCEPT !.s[st].rc = c]
    <3>1. H = [d |-> H.d, s |-> H.s]
      BY DEF Good, Shape
    <3>2. G = [H EXCEPT !.d[v].pad2 = FALSE, !.s[st].rc = (@ + 1) % RcMod]
      BY <1>2, <2>7 DEF unborrow
    <3>3. K = [H EXCEPT !.d[v] = x]
      BY <2>4 DEF WithDesc
    <3>4. QED
      BY <2>2, <2>8, <2>10, <3>1, <3>2, <3>3
  <2>13. Counts(K, G) /\ Does(K, G, C, V, O, None, 0, 0)
    BY <2>8, <2>11, <2>12, SetCount
  <2>14. Does(H, G, C, V, O, None, 0 + 0, 0 + 0)
    BY <2>6, <2>13, DoesBoth DEF Good
  <2>15. 0 + 0 = 0
    OBVIOUS
  <2>16. Does(H, G, C, V, O, None, 0, 0)
    BY <2>14, <2>15
  <2>17. SameBounds(H, G, v)
    BY <2>3, <2>6, <2>13 DEF OneDesc, Counts, SameBounds
  <2>18. SameElements(H, G)
    BY <2>8, <2>13 DEF Counts, SameElements
  <2>19. QED
    BY <2>16, <2>17, <2>18
<1>3. QED
  BY <1>1, <1>2

(* the element i of the store st may become v *)
MayHold(H, C, O, st, i, v) ==
  /\ i \in 1 .. Len(H.s[st].e) /\ v \in Value /\ Elem(H, C, O, v)
  /\ H.s[st].leaf => leaf_accepts(v)

(* the element i of the store st became v *)
SlotSet(H, G, st, i, v) ==
  /\ SameBounds(H, G, v) /\ DOMAIN G.s = DOMAIN H.s
  /\ \A t \in DOMAIN H.s : G.s[t].leaf = H.s[t].leaf /\ (t # st => G.s[t].e = H.s[t].e)
  /\ G.s[st].e = [H.s[st].e EXCEPT ![i] = v]

(* v is of the kind of the elements of x *)
OfKind(x, v) ==
  /\ Scalars(x) => ~IsRow(v)
  /\ Rows(x) => IsRow(v)

(* An element of a sequence set. *)
LEMMA SeqSet ==
  ASSUME NEW S, NEW e \in Seq(S), NEW i \in 1 .. Len(e), NEW v \in S, NEW f,
         f = [e EXCEPT ![i] = v]
  PROVE  /\ f \in Seq(S) /\ Len(f) = Len(e) /\ DOMAIN f = DOMAIN e /\ DOMAIN e = 1 .. Len(e)
         /\ f[i] = v /\ \A j \in DOMAIN e : j # i => f[j] = e[j]
OBVIOUS

(* the slot alone is written *)
WriteSlot(H, st, i, v) == [H EXCEPT !.s[st].e[i] = v]

(* A value is written in a slot: what it does to the heap, and more if it is of the kind of
   the other elements. *)
LEMMA SlotWritten ==
  ASSUME NEW H, NEW C, NEW V, NEW O, Good(H, C, V, O), NEW st \in DOMAIN H.s, NEW i, NEW v,
         MayHold(H, C, O, st, i, v), st \in O \/ OfKind(H.s[st], v),
         NEW G, G = WriteSlot(H, st, i, v)
  PROVE  /\ SlotSet(H, G, st, i, v) /\ Good(G, C, V, O)
         /\ OfKind(H.s[st], v) => Does(H, G, C, V, O, None, 0, 0)
<1>1. H.s[st] \in Store /\ H.s[st].e \in Seq(Value) /\ Sound(H, C, O, H.s[st])
  BY ShapeParts, StoreParts DEF Good
<1>2. /\ i \in 1 .. Len(H.s[st].e) /\ v \in Value /\ Elem(H, C, O, v)
      /\ H.s[st].leaf => leaf_accepts(v)
  BY DEF MayHold
<1>3. PICK f : f = [H.s[st].e EXCEPT ![i] = v]
  OBVIOUS
<1>4. /\ f \in Seq(Value) /\ Len(f) = Len(H.s[st].e) /\ DOMAIN f = DOMAIN H.s[st].e
      /\ f[i] = v /\ \A j \in DOMAIN H.s[st].e : j # i => f[j] = H.s[st].e[j]
      /\ i \in DOMAIN f
  BY <1>1, <1>2, <1>3, SeqSet
<1>5. PICK x : x = [H.s[st] EXCEPT !.e = f]
  OBVIOUS
<1>6. x \in Store /\ x.e = f /\ x.leaf = H.s[st].leaf
  BY <1>1, <1>4, <1>5 DEF Store
<1>7. Sound(H, C, O, x)
  BY <1>1, <1>2, <1>4, <1>6 DEF Sound
<1>8. ASSUME OfKind(H.s[st], v) PROVE KindKept(H.s[st], x)
  BY <1>4, <1>6, <1>8 DEF KindKept, OfKind, Scalars, Rows
<1>9. Len(x.e) = Len(H.s[st].e)
  BY <1>4, <1>6
<1>10. G = WithStore(H, st, x)
  BY <1>3, <1>5 DEF WithStore, WriteSlot
<1>11. /\ OneStore(H, G, st, x) /\ Good(G, C, V, O)
       /\ KindKept(H.s[st], x) => Does(H, G, C, V, O, None, 0, 0)
  BY <1>6, <1>7, <1>8, <1>9, <1>10, SetStore
<1>12. SlotSet(H, G, st, i, v)
  BY <1>3, <1>6, <1>11 DEF OneStore, SlotSet, SameBounds
<1>13. QED
  BY <1>8, <1>11, <1>12

(* store_set: the slot is written, and a borrow that is kept becomes a share. *)
LEMMA SetSlot ==
  ASSUME NEW H, NEW C, NEW V, NEW O, Good(H, C, V, O), NEW st \in DOMAIN H.s, NEW i, NEW v,
         MayHold(H, C, O, st, i, v), st \in O \/ OfKind(H.s[st], v),
         NEW G, G = store_set(H, st, i, v)
  PROVE  /\ SlotSet(H, G, st, i, v) /\ Good(G, C, V, O)
         /\ OfKind(H.s[st], v) => Does(H, G, C, V, O, None, 0, 0)
<1>1. PICK K : K = IF H.s[st].leaf THEN H ELSE unborrow(H, v)
  OBVIOUS
<1>2. Elem(H, C, O, v)
  BY DEF MayHold
<1>3. SameBounds(H, K, v) /\ SameElements(H, K) /\ Does(H, K, C, V, O, None, 0, 0)
  <2>1. CASE H.s[st].leaf
    BY <1>1, <2>1, DoesNothing DEF SameBounds, SameElements
  <2>2. CASE ~H.s[st].leaf
    BY <1>1, <1>2, <2>2, KeptBorrow
  <2>3. QED
    BY <2>1, <2>2
<1>4. Good(K, C, V, O) /\ st \in DOMAIN K.s /\ G = WriteSlot(K, st, i, v)
  BY <1>1, <1>3 DEF Does, SameElements, WriteSlot, store_set
<1>5. Elem(K, C, O, v)
  BY <1>2, <1>3 DEF Elem, Plain, Inside, SameBounds, SameElements, Scalars
<1>6. MayHold(K, C, O, st, i, v)
  BY <1>3, <1>5 DEF MayHold, SameElements
<1>7. OfKind(K.s[st], v) <=> OfKind(H.s[st], v)
  BY <1>3 DEF OfKind, Scalars, Rows, SameElements
<1>8. /\ SlotSet(K, G, st, i, v) /\ Good(G, C, V, O)
      /\ OfKind(K.s[st], v) => Does(K, G, C, V, O, None, 0, 0)
  BY <1>4, <1>6, <1>7, SlotWritten
<1>9. SlotSet(H, G, st, i, v)
  BY <1>3, <1>8 DEF SlotSet, SameBounds, SameElements
<1>10. ASSUME OfKind(H.s[st], v) PROVE Does(H, G, C, V, O, None, 0, 0)
  <2>1. Does(H, G, C, V, O, None, 0 + 0, 0 + 0)
    BY <1>3, <1>7, <1>8, <1>10, DoesBoth DEF Good
  <2>2. 0 + 0 = 0
    OBVIOUS
  <2>3. QED
    BY <2>1, <2>2
<1>11. QED
  BY <1>8, <1>9, <1>10

-----------------------------------------------------------------------------
(* The copies. *)

(* The elements of a row are copied one by one. *)
LEMMA CopyLoop ==
  ASSUME NEW H, NEW src, NEW n \in Nat, NEW st
  PROVE  \E g : /\ g[0] = H /\ \A i \in 1 .. n : g[i] = CopyElem(g[i - 1], src, i, st)
                /\ CopyElems(H, src, n, st) = g[n]
<1> DEFINE Def(g, m) == g = [i \in 0 .. m |-> IF i = 0 THEN H ELSE CopyElem(g[i - 1], src, i, st)]
           S == {m \in Nat : \E g : Def(g, m)}
<1>1. 0 \in S
  <2>1. Def([i \in 0 .. 0 |-> H], 0)
    OBVIOUS
  <2>2. QED
    BY <2>1
<1>2. ASSUME NEW m \in Nat, m \in S PROVE m + 1 \in S
  <2>1. PICK g : Def(g, m)
    BY <1>2
  <2> DEFINE h == [i \in 0 .. m + 1 |-> IF i = m + 1 THEN CopyElem(g[m], src, i, st) ELSE g[i]]
  <2>2. ASSUME NEW i \in 0 .. m + 1
        PROVE  h[i] = IF i = 0 THEN H ELSE CopyElem(h[i - 1], src, i, st)
    BY <2>1
  <2>3. h = [i \in 0 .. m + 1 |-> h[i]]
    OBVIOUS
  <2> HIDE DEF h
  <2>4. [i \in 0 .. m + 1 |-> h[i]]
        = [i \in 0 .. m + 1 |-> IF i = 0 THEN H ELSE CopyElem(h[i - 1], src, i, st)]
    BY <2>2
  <2>5. Def(h, m + 1)
    BY <2>3, <2>4
  <2>6. QED
    BY <2>5
<1>3. n \in S
  <2> HIDE DEF S
  <2>1. \A i \in 0 .. n : i \in S /\ i < n => i + 1 \in S
    BY <1>2
  <2>2. \A i \in 0 .. n : i \in S
    BY <1>1, <2>1, Steps
  <2>3. QED
    BY <2>2
<1> DEFINE c == CHOOSE g : Def(g, n)
<1>4. Def(c, n)
  BY <1>3
<1>5. CopyElems(H, src, n, st) = c[n]
  BY DEF CopyElems, ForEach
<1> HIDE DEF c
<1>6. c[0] = H /\ \A i \in 1 .. n : c[i] = CopyElem(c[i - 1], src, i, st)
  BY <1>4
<1>7. QED
  BY <1>5, <1>6

(* what copying i elements of the row src allocates: a descriptor for each that is a row *)
CopyCost(H, src, i) == IF Scalars(H.s[rowd_store(H, src)]) THEN 0 ELSE i

(* i elements of the row src have been copied to the store st of the descriptor k. *)
Copied(H, K, C, V, src, st, k, i) ==
  /\ Good(K, C, V, {st}) /\ Extends(H, K)
  /\ k \in DOMAIN K.d \ DOMAIN H.d /\ st \in DOMAIN K.s \ DOMAIN H.s
  /\ K.d[k].base = st /\ K.d[k].off = 0 /\ K.d[k].n = H.d[src].n
  /\ Len(K.s[st].e) = H.d[src].n /\ K.s[st].leaf = H.s[rowd_store(H, src)].leaf
  /\ \A j \in 1 .. i : IsRow(K.s[st].e[j]) <=> IsRow(rowd_get(H, src, j))
  /\ FreeS(K) >= FreeS(H) - 1 /\ FreeD(K) >= FreeD(H) - (1 + CopyCost(H, src, i))

(* An element of a row. *)
LEMMA RowElement ==
  ASSUME NEW H, NEW C, NEW V, Good(H, C, V, None), NEW src \in DOMAIN H.d,
         NEW i \in 1 .. H.d[src].n
  PROVE  /\ H.d[src].off + i \in 1 .. Len(H.s[rowd_store(H, src)].e)
         /\ rowd_get(H, src, i) = H.s[rowd_store(H, src)].e[H.d[src].off + i]
<1>1. /\ rowd_store(H, src) \in DOMAIN H.s
      /\ H.d[src].off + H.d[src].n <= Len(H.s[rowd_store(H, src)].e)
  BY StoreOf
<1>2. H.d[src].off \in Nat /\ H.d[src].n \in Nat
  BY ShapeParts, DescParts DEF Good
<1>3. PICK m : m = Len(H.s[rowd_store(H, src)].e)
  OBVIOUS
<1>4. m \in Nat
  BY <1>1, <1>3, ShapeParts, StoreParts DEF Good
<1>5. H.d[src].off + i \in 1 .. m
  BY <1>1, <1>2, <1>3, <1>4
<1>6. QED
  BY <1>3, <1>5 DEF rowd_get

(* One element is copied. *)
LEMMA CopyStep ==
  ASSUME NEW H, NEW C, NEW V, Good(H, C, V, None), NEW src \in DOMAIN H.d, NEW st, NEW k, NEW K,
         NEW j \in Nat, Copied(H, K, C, V, src, st, k, j), NEW i, i = j + 1, i \in 1 .. H.d[src].n,
         FreeD(H) >= 1 + CopyCost(H, src, H.d[src].n), NEW G, G = CopyElem(K, src, i, st)
  PROVE  Copied(H, G, C, V, src, st, k, i)
<1>1. PICK s : s = rowd_store(H, src)
  OBVIOUS
<1>2. PICK p : p = H.d[src].off + i
  OBVIOUS
<1>3. s \in DOMAIN H.s /\ p \in 1 .. Len(H.s[s].e) /\ rowd_get(H, src, i) = H.s[s].e[p]
  BY <1>1, <1>2, RowElement, StoreOf
<1>4. /\ Good(K, C, V, {st}) /\ Extends(H, K) /\ k \in DOMAIN K.d \ DOMAIN H.d
      /\ st \in DOMAIN K.s \ DOMAIN H.s /\ K.d[k].base = st /\ K.d[k].off = 0
      /\ K.d[k].n = H.d[src].n /\ Len(K.s[st].e) = H.d[src].n /\ K.s[st].leaf = H.s[s].leaf
      /\ \A m \in 1 .. j : IsRow(K.s[st].e[m]) <=> IsRow(rowd_get(H, src, m))
      /\ FreeS(K) >= FreeS(H) - 1 /\ FreeD(K) >= FreeD(H) - (1 + CopyCost(H, src, j))
  BY <1>1 DEF Copied
<1>5. PICK e : e = rowd_get(K, src, i)
  OBVIOUS
<1>6. s \in DOMAIN K.s /\ K.s[s].e = H.s[s].e /\ K.s[s].leaf = H.s[s].leaf
  BY <1>3, <1>4 DEF Extends
<1>7. e = rowd_get(H, src, i) /\ e = K.s[s].e[p] /\ p \in 1 .. Len(K.s[s].e)
  BY <1>3, <1>4, <1>5, <1>6, ExtendsKeeps
<1>8. e \in Value /\ Elem(K, C, {st}, e) /\ (K.s[s].leaf => leaf_accepts(e))
  BY <1>4, <1>6, <1>7, ElementOf
<1>9. i \in 1 .. Len(K.s[st].e) /\ i \in Nat /\ st \in {st}
  BY <1>4
<1>10. FreeD(H) \in Nat /\ FreeS(H) \in Nat /\ FreeD(K) \in Nat /\ FreeS(K) \in Nat
  BY <1>4, FreeCounts DEF Good
<1>11. H.d[src].n \in Nat
  BY ShapeParts, DescParts DEF Good
<1>12. ASSUME NEW B, NEW v, Good(B, C, V, {st}), Extends(K, B), B.d[k] = K.d[k], B.s[st] = K.s[st],
              MayHold(B, C, {st}, st, i, v), IsRow(v) <=> IsRow(e), v \notin DOMAIN K.d,
              G = store_set(B, st, i, v)
       PROVE  /\ Good(G, C, V, {st}) /\ Extends(H, G) /\ k \in DOMAIN G.d \ DOMAIN H.d
              /\ st \in DOMAIN G.s \ DOMAIN H.s /\ G.d[k].base = st /\ G.d[k].off = 0
              /\ G.d[k].n = H.d[src].n /\ Len(G.s[st].e) = H.d[src].n /\ G.s[st].leaf = H.s[s].leaf
              /\ \A m \in 1 .. i : IsRow(G.s[st].e[m]) <=> IsRow(rowd_get(H, src, m))
              /\ FreeS(G) = FreeS(B) /\ FreeD(G) = FreeD(B)
  <2>1. st \in DOMAIN B.s
    BY <1>4, <1>12 DEF Extends
  <2>2. SlotSet(B, G, st, i, v) /\ Good(G, C, V, {st})
    BY <1>9, <1>12, <2>1, SetSlot
  <2>3. /\ DOMAIN G.d = DOMAIN B.d /\ \A q \in DOMAIN B.d : q # v => G.d[q] = B.d[q]
        /\ DOMAIN G.s = DOMAIN B.s /\ \A t \in DOMAIN B.s : G.s[t].leaf = B.s[t].leaf
        /\ \A t \in DOMAIN B.s : t # st => G.s[t].e = B.s[t].e
        /\ G.s[st].e = [B.s[st].e EXCEPT ![i] = v]
    BY <2>2 DEF SlotSet, SameBounds
  <2>4. Extends(H, G)
    <3>1. ASSUME NEW q \in DOMAIN H.d PROVE q \in DOMAIN G.d /\ G.d[q] = H.d[q]
      BY <1>4, <1>12, <2>3, <3>1 DEF Extends
    <3>2. ASSUME NEW t \in DOMAIN H.s
          PROVE  t \in DOMAIN G.s /\ G.s[t].e = H.s[t].e /\ G.s[t].leaf = H.s[t].leaf
      BY <1>4, <1>12, <2>3, <3>2 DEF Extends
    <3>3. QED
      BY <3>1, <3>2 DEF Extends
  <2>5. k \in DOMAIN G.d /\ G.d[k] = K.d[k] /\ st \in DOMAIN G.s
    BY <1>4, <1>12, <2>1, <2>3 DEF Extends
  <2>6. K.s[st].e \in Seq(Value) /\ v \in Value
    BY <1>4, <1>12, ShapeParts, StoreParts DEF Good, MayHold
  <2>7. /\ Len(G.s[st].e) = Len(K.s[st].e) /\ G.s[st].e[i] = v
        /\ \A m \in DOMAIN K.s[st].e : m # i => G.s[st].e[m] = K.s[st].e[m]
        /\ DOMAIN K.s[st].e = 1 .. Len(K.s[st].e)
    BY <1>9, <1>12, <2>3, <2>6, SeqSet
  <2>8. ASSUME NEW m \in 1 .. i PROVE IsRow(G.s[st].e[m]) <=> IsRow(rowd_get(H, src, m))
    <3>1. CASE m = i
      BY <1>7, <1>12, <2>7, <3>1
    <3>2. CASE m # i
      <4>1. m \in 1 .. j /\ m \in DOMAIN K.s[st].e
        BY <1>9, <2>7, <3>2
      <4>2. QED
        BY <1>4, <2>7, <3>2, <4>1
    <3>3. QED
      BY <3>1, <3>2
  <2>9. FreeS(G) = FreeS(B) /\ FreeD(G) = FreeD(B)
    BY <2>3 DEF FreeS, FreeD
  <2>10. G.s[st].leaf = H.s[s].leaf
    BY <1>4, <1>12, <2>1, <2>3
  <2>11. QED
    BY <1>4, <2>2, <2>4, <2>5, <2>7, <2>8, <2>9, <2>10
<1>13. CASE ~IsRow(e)
  <2>1. G = store_set(K, st, i, e)
    BY <1>5, <1>13 DEF CopyElem, copy_value
  <2>2. e \notin DOMAIN K.d /\ Extends(K, K)
    BY <1>4, <1>13, ShapeParts DEF Good, IsRow, Extends
  <2>3. MayHold(K, C, {st}, st, i, e)
    BY <1>4, <1>6, <1>8, <1>9 DEF MayHold
  <2>4. FreeD(G) = FreeD(K) /\ FreeS(G) = FreeS(K)
    BY <1>4, <1>12, <2>1, <2>2, <2>3
  <2>5. CopyCost(H, src, j) <= CopyCost(H, src, i) /\ CopyCost(H, src, j) \in Nat
        /\ CopyCost(H, src, i) \in Nat
    BY <1>9 DEF CopyCost
  <2>6. FreeS(G) >= FreeS(H) - 1 /\ FreeD(G) >= FreeD(H) - (1 + CopyCost(H, src, i))
    BY <1>4, <1>10, <2>4, <2>5
  <2>7. QED
    BY <1>1, <1>4, <1>12, <2>1, <2>2, <2>3, <2>6 DEF Copied
<1>14. CASE IsRow(e)
  <2>1. PICK v : v = NextDesc(K)
    OBVIOUS
  <2>2. PICK B : B = rowd_borrow(K, e)
    OBVIOUS
  <2>3. G = store_set(B, st, i, v)
    BY <1>5, <1>14, <2>1, <2>2 DEF CopyElem, copy_value
  <2>4. /\ e \in DOMAIN K.d /\ Inside(K, K.d[e]) /\ K.d[e].base \notin {st}
        /\ Scalars(K.s[K.d[e].base]) /\ K.d[e].base \in DOMAIN K.s
    BY <1>8, <1>14 DEF Elem, Plain, Inside
  <2>5. ~Scalars(H.s[s])
    BY <1>3, <1>7, <1>14, ElementOf
  <2>6. /\ CopyCost(H, src, j) = j /\ CopyCost(H, src, i) = i
        /\ CopyCost(H, src, H.d[src].n) = H.d[src].n
    BY <1>1, <2>5 DEF CopyCost
  <2>7. FreeD(K) > 0
    BY <1>4, <1>9, <1>10, <1>11, <2>6
  <2>8. /\ v \in DescAddr \ DOMAIN K.d /\ DOMAIN B.d = DOMAIN K.d \cup {v}
        /\ B.d[v].base = rowd_store(K, e) /\ DOMAIN B.s = DOMAIN K.s /\ Extends(K, B)
        /\ Inside(B, B.d[v]) /\ Does(K, B, C, V, {st}, None, 1, 0)
    BY <1>4, <2>1, <2>2, <2>4, <2>7, ShareRow
  <2>9. rowd_store(K, e) = K.d[e].base
    BY <1>4, <2>4, StoreOf
  <2>10. Elem(B, C, {st}, v)
    <3>1. v \notin C
      BY <1>4, <2>8 DEF Good, Plain
    <3>2. Scalars(B.s[K.d[e].base])
      BY <2>4, <2>8 DEF Extends, Scalars
    <3>3. QED
      BY <2>4, <2>8, <2>9, <3>1, <3>2 DEF Elem, Plain
  <2>11. B.s[st] = K.s[st] /\ B.d[k] = K.d[k]
    <3>1. B.s = K.s
      BY <2>2 DEF rowd_borrow, rowd_alloc
    <3>2. QED
      BY <1>4, <2>8, <3>1 DEF Extends
  <2>12. MayHold(B, C, {st}, st, i, v)
    <3>1. K.s[s].leaf = FALSE
      <4>1. Good(K, C, V, {st}) /\ s \in DOMAIN K.s
        BY <1>4, <1>6
      <4>2. p \in 1 .. Len(K.s[s].e) /\ IsRow(K.s[s].e[p])
        BY <1>7, <1>14
      <4>3. QED
        BY <4>1, <4>2, RowsNoLeaf
    <3>2. v \in Value
      BY <2>8 DEF Value
    <3>3. QED
      BY <1>4, <1>6, <1>9, <2>10, <2>11, <3>1, <3>2 DEF MayHold
  <2>13. Good(B, C, V, {st}) /\ IsRow(v) /\ FreeD(B) >= FreeD(K) - 1 /\ FreeS(B) >= FreeS(K) - 0
    BY <2>8 DEF Does, IsRow
  <2>14. FreeD(G) = FreeD(B) /\ FreeS(G) = FreeS(B)
    BY <1>12, <1>14, <2>3, <2>8, <2>11, <2>12, <2>13
  <2>15. FreeD(B) \in Nat /\ FreeS(B) \in Nat
    BY <2>13, FreeCounts DEF Good
  <2>16. FreeS(G) >= FreeS(H) - 1 /\ FreeD(G) >= FreeD(H) - (1 + CopyCost(H, src, i))
    BY <1>4, <1>10, <2>6, <2>13, <2>14, <2>15, SMTT(30)
  <2>17. QED
    BY <1>1, <1>12, <1>14, <2>3, <2>8, <2>11, <2>12, <2>13, <2>16 DEF Copied
<1>15. QED
  BY <1>13, <1>14

(* The heap before the elements are copied: a new descriptor k of a new store st. *)
LEMMA CopyStart ==
  ASSUME NEW H, NEW C, NEW V, Good(H, C, V, None), prog \in Programs, NEW src \in DOMAIN H.d,
         FreeD(H) > 0, FreeS(H) > 0, NEW st, st = NextStore(H), NEW k, k = NextDesc(H),
         NEW D, D = rowd_alloc(H, [base |-> st, off |-> 0, n |-> H.d[src].n, pad2 |-> FALSE]),
         NEW G, G = store_alloc(D, [leaf |-> H.s[rowd_store(H, src)].leaf, rc |-> 1,
                                    e |-> [i \in 1 .. H.d[src].n |-> Undef]])
  PROVE  Copied(H, G, C, V, src, st, k, 0)
<1>1. PICK s : s = rowd_store(H, src)
  OBVIOUS
<1>2. PICK n : n = H.d[src].n
  OBVIOUS
<1>3. s \in DOMAIN H.s /\ H.s[s] \in Store /\ n \in Nat /\ n \in 0 .. prog.len /\ Shape(H)
  BY <1>1, <1>2, StoreOf, ShapeParts, DescParts DEF Good
<1>4. prog.len \in Nat /\ prog.len <= MaxLen
  BY Sizes
<1>5. PICK x : x = [leaf |-> H.s[s].leaf, rc |-> 1, e |-> [i \in 1 .. n |-> Undef]]
  OBVIOUS
<1>6. Undef \in Value /\ ~IsRow(Undef) /\ Undef \notin Wide
  BY Elements DEF Value, IsRow, Wide
<1>7. x.e \in Seq(Value) /\ Len(x.e) = n /\ DOMAIN x.e = 1 .. n /\ \A i \in 1 .. n : x.e[i] = Undef
  BY <1>3, <1>5, <1>6
<1>8. x \in Store /\ x.leaf = H.s[s].leaf
  <2>1. H.s[s].leaf \in BOOLEAN /\ 1 \in 0 .. RcMod - 1
    BY <1>3, StoreParts, Sizes
  <2>2. QED
    BY <1>5, <1>7, <2>1 DEF Store
<1>9. Sound(H, C, None, x) /\ Scalars(x)
  <2>1. Len(x.e) <= MaxLen + Spare
    BY <1>3, <1>4, <1>7, Sizes
  <2>2. QED
    BY <1>6, <1>7, <2>1 DEF Sound, Scalars, Elem, leaf_accepts
<1>10. PICK A : A = store_alloc(H, x)
  OBVIOUS
<1>11. PICK P : P = {st}
  OBVIOUS
<1>12. None \subseteq P /\ P \subseteq None \cup {st} /\ (st \notin P => Scalars(x) \/ Rows(x))
  BY <1>9, <1>11 DEF None
<1>13. /\ st \in StoreAddr \ DOMAIN H.s /\ DOMAIN A.s = DOMAIN H.s \cup {st} /\ A.s[st] = x
       /\ A.d = H.d /\ \A t \in DOMAIN H.s : A.s[t] = H.s[t]
       /\ Does(H, A, C, V, P, None, 0, 1)
  BY <1>8, <1>9, <1>10, <1>12, AddStore
<1>14. Good(A, C, V, P) /\ FreeD(A) = FreeD(H) /\ k = NextDesc(A) /\ FreeS(A) >= FreeS(H) - 1
  BY <1>13 DEF Does, FreeD, NextDesc
<1>15. PICK y : y = [base |-> st, off |-> 0, n |-> n, pad2 |-> FALSE]
  OBVIOUS
<1>16. y \in Desc /\ y.base = st /\ y.off = 0 /\ y.n = n
  BY <1>3, <1>13, <1>15 DEF Desc
<1>17. Inside(A, y) \/ View(A, V, y)
  BY <1>3, <1>7, <1>13, <1>16 DEF Inside
<1>18. PICK B : B = rowd_alloc(A, y)
  OBVIOUS
<1>19. /\ k \in DescAddr \ DOMAIN A.d /\ DOMAIN B.d = DOMAIN A.d \cup {k} /\ B.d[k] = y
       /\ B.s = A.s /\ \A q \in DOMAIN A.d : B.d[q] = A.d[q]
       /\ Does(A, B, C, V, P, None, 1, 0)
  BY <1>14, <1>16, <1>17, <1>18, AddDesc
<1>20. G = B
  <2>1. H = [d |-> H.d, s |-> H.s]
    BY <1>3 DEF Shape
  <2>2. D = rowd_alloc(H, y) /\ G = store_alloc(D, x)
    BY <1>1, <1>2, <1>5, <1>15
  <2>3. D.s = H.s /\ D.d = With(H.d, k, y) /\ D = [d |-> D.d, s |-> D.s]
    BY <2>1, <2>2 DEF rowd_alloc
  <2>4. NextStore(D) = st
    BY <2>3 DEF NextStore
  <2>5. G = [d |-> With(H.d, k, y), s |-> With(H.s, st, x)]
    <3>1. G = [D EXCEPT !.s = With(D.s, st, x)]
      BY <2>2, <2>4 DEF store_alloc
    <3>2. G = [d |-> D.d, s |-> With(D.s, st, x)]
      BY <2>3, <3>1
    <3>3. QED
      BY <2>3, <3>2
  <2>6. A = [d |-> H.d, s |-> With(H.s, st, x)]
    BY <1>10, <2>1 DEF store_alloc
  <2>7. B = [d |-> With(H.d, k, y), s |-> With(H.s, st, x)]
    BY <1>14, <1>18, <2>6 DEF rowd_alloc
  <2>8. QED
    BY <2>5, <2>7
<1>21. Good(G, C, V, {st}) /\ FreeS(G) = FreeS(A) /\ FreeD(G) >= FreeD(A) - 1
  BY <1>11, <1>19, <1>20 DEF Does, FreeS
<1>22. Extends(H, G)
  BY <1>13, <1>19, <1>20 DEF Extends
<1>23. CopyCost(H, src, 0) = 0
  BY DEF CopyCost
<1>24. FreeD(H) \in Nat /\ FreeS(H) \in Nat /\ FreeD(G) \in Nat /\ FreeS(G) \in Nat
  BY <1>3, <1>21, FreeCounts DEF Good
<1>25. FreeS(G) >= FreeS(H) - 1 /\ FreeD(G) >= FreeD(H) - (1 + CopyCost(H, src, 0))
  BY <1>14, <1>21, <1>23, <1>24
<1>26. QED
  <2>1. Good(G, C, V, {st}) /\ Extends(H, G)
    BY <1>21, <1>22
  <2>2. k \in DOMAIN G.d \ DOMAIN H.d /\ st \in DOMAIN G.s \ DOMAIN H.s
    BY <1>13, <1>19, <1>20
  <2>3. G.d[k] = y /\ G.s[st] = x
    BY <1>13, <1>19, <1>20
  <2>4. \A j \in 1 .. 0 : IsRow(G.s[st].e[j]) <=> IsRow(rowd_get(H, src, j))
    OBVIOUS
  <2>5. QED
    BY <1>1, <1>2, <1>7, <1>8, <1>16, <1>25, <2>1, <2>2, <2>3, <2>4 DEF Copied

(* row_canonical_copy: a row of the same elements, with a store of its own. *)
LEMMA CanonicalCopy ==
  ASSUME NEW H, NEW C, NEW V, Good(H, C, V, None), prog \in Programs, NEW src \in DOMAIN H.d,
         FreeD(H) >= 1 + CopyCost(H, src, H.d[src].n), FreeS(H) > 0,
         NEW G, G = row_canonical_copy(H, src)
  PROVE  Copied(H, G, C, V, src, NextStore(H), NextDesc(H), H.d[src].n)
<1>1. PICK st : st = NextStore(H)
  OBVIOUS
<1>2. PICK k : k = NextDesc(H)
  OBVIOUS
<1>3. PICK n : n = H.d[src].n
  OBVIOUS
<1>4. n \in Nat
  BY <1>3, ShapeParts, DescParts DEF Good
<1>5. PICK D : D = rowd_alloc(H, [base |-> st, off |-> 0, n |-> H.d[src].n, pad2 |-> FALSE])
  OBVIOUS
<1>6. PICK K : K = store_alloc(D, [leaf |-> H.s[rowd_store(H, src)].leaf, rc |-> 1,
                                    e |-> [i \in 1 .. H.d[src].n |-> Undef]])
  OBVIOUS
<1>7. G = CopyElems(K, src, n, st)
  BY <1>1, <1>3, <1>5, <1>6 DEF row_canonical_copy
<1>8. PICK g : /\ g[0] = K /\ \A i \in 1 .. n : g[i] = CopyElem(g[i - 1], src, i, st)
               /\ G = g[n]
  BY <1>4, <1>7, CopyLoop
<1>9. FreeD(H) > 0
  <2>1. CopyCost(H, src, n) \in Nat
    BY <1>4 DEF CopyCost
  <2>2. FreeD(H) \in Nat
    BY FreeCounts DEF Good
  <2>3. QED
    BY <1>3, <2>1, <2>2
<1> DEFINE S == {i \in 0 .. n : Copied(H, g[i], C, V, src, st, k, i)}
<1>10. 0 \in S
  <2>1. Copied(H, K, C, V, src, st, k, 0)
    BY <1>1, <1>2, <1>5, <1>6, <1>9, CopyStart
  <2>2. QED
    BY <1>4, <1>8, <2>1
<1>11. ASSUME NEW j \in 0 .. n, j \in S, j < n PROVE j + 1 \in S
  <2>1. PICK i : i = j + 1
    OBVIOUS
  <2>2. i \in 1 .. n /\ i - 1 = j /\ j \in Nat
    BY <1>4, <1>11, <2>1
  <2>3. g[i] = CopyElem(g[j], src, i, st)
    BY <1>8, <2>2
  <2>4. Copied(H, g[i], C, V, src, st, k, i)
    BY <1>3, <1>11, <2>1, <2>2, <2>3, CopyStep
  <2>5. QED
    BY <2>1, <2>2, <2>4
<1>12. n \in S
  <2> HIDE DEF S
  <2>1. \A j \in 0 .. n : j \in S /\ j < n => j + 1 \in S
    BY <1>11
  <2>2. \A j \in 0 .. n : j \in S
    BY <1>4, <1>10, <2>1, Steps
  <2>3. QED
    BY <1>4, <2>2
<1>13. QED
  BY <1>1, <1>2, <1>3, <1>8, <1>12

(* The copy once all is copied. *)
LEMMA CopyDone ==
  ASSUME NEW H, NEW C, NEW V, Good(H, C, V, None), NEW src \in DOMAIN H.d, NEW st, NEW k, NEW K,
         Copied(H, K, C, V, src, st, k, H.d[src].n)
  PROVE  /\ Good(K, C, V, None) /\ Extends(H, K)
         /\ Scalars(H.s[rowd_store(H, src)]) => Scalars(K.s[st])
         /\ Rows(H.s[rowd_store(H, src)]) => Rows(K.s[st])
         /\ Does(H, K, C, V, None, None, 1 + CopyCost(H, src, H.d[src].n), 1)
<1>1. PICK s : s = rowd_store(H, src)
  OBVIOUS
<1>2. PICK n : n = H.d[src].n
  OBVIOUS
<1>3. s \in DOMAIN H.s /\ n \in Nat
  BY <1>1, <1>2, StoreOf, ShapeParts, DescParts DEF Good
<1>4. /\ Good(K, C, V, {st}) /\ Extends(H, K) /\ st \in DOMAIN K.s /\ Len(K.s[st].e) = n
      /\ \A j \in 1 .. n : IsRow(K.s[st].e[j]) <=> IsRow(rowd_get(H, src, j))
      /\ FreeS(K) >= FreeS(H) - 1 /\ FreeD(K) >= FreeD(H) - (1 + CopyCost(H, src, n))
  BY <1>2 DEF Copied
<1>5. DOMAIN K.s[st].e = 1 .. n
  BY <1>4, ShapeParts, StoreParts DEF Good
<1>6. ASSUME NEW j \in 1 .. n
      PROVE  /\ Scalars(H.s[s]) => ~IsRow(K.s[st].e[j])
             /\ Rows(H.s[s]) => IsRow(K.s[st].e[j])
  <2>1. PICK p : p = H.d[src].off + j
    OBVIOUS
  <2>2. p \in 1 .. Len(H.s[s].e) /\ rowd_get(H, src, j) = H.s[s].e[p]
    BY <1>1, <1>2, <2>1, RowElement
  <2>3. /\ Scalars(H.s[s]) => ~IsRow(H.s[s].e[p])
        /\ Rows(H.s[s]) => IsRow(H.s[s].e[p])
    BY <1>3, <2>2, ElementOf
  <2>4. QED
    BY <1>4, <2>2, <2>3
<1>7. /\ Scalars(H.s[s]) => Scalars(K.s[st])
      /\ Rows(H.s[s]) => Rows(K.s[st])
  BY <1>5, <1>6 DEF Scalars, Rows
<1>8. Good(K, C, V, None)
  <2>1. \A t \in DOMAIN K.s : Scalars(K.s[t]) \/ Rows(K.s[t])
    BY <1>3, <1>4, <1>7 DEF Good, None
  <2>2. \A t \in DOMAIN K.s : Sound(K, C, None, K.s[t])
    BY <1>4 DEF Good, Sound, Elem, None
  <2>3. QED
    BY <1>4, <2>1, <2>2 DEF Good
<1>9. Does(H, K, C, V, None, None, 1 + CopyCost(H, src, n), 1)
  BY <1>4, <1>8, ExtendsKeeps DEF Does
<1>10. QED
  BY <1>1, <1>2, <1>4, <1>7, <1>8, <1>9

(* the row dst took over the elements of src *)
Taken(H, G, dst, src) ==
  /\ DOMAIN H.d \subseteq DOMAIN G.d /\ DOMAIN H.s \subseteq DOMAIN G.s
  /\ \A q \in DOMAIN H.d \ {dst} : G.d[q] = H.d[q]
  /\ \A t \in DOMAIN H.s : G.s[t].e = H.s[t].e
  /\ G.d[dst].base \in DOMAIN G.s
  /\ Scalars(H.s[rowd_store(H, src)]) => Scalars(G.s[G.d[dst].base])
  /\ Rows(H.s[rowd_store(H, src)]) => Rows(G.s[G.d[dst].base])

(* dst may take over the elements of src *)
MayTake(H, C, V, dst, src) ==
  /\ Inside(H, H.d[dst])
  /\ dst \in V => "slice_name" \notin Ops \/ H.d[dst].n = 0
  /\ dst \in C \/ Scalars(H.s[rowd_store(H, src)])
  /\ FreeD(H) >= 1 + CopyCost(H, src, H.d[src].n) /\ FreeS(H) > 0

(* row_replace: a row takes over a copy of another. *)
LEMMA Replace ==
  ASSUME NEW H, NEW C, NEW V, Good(H, C, V, None), prog \in Programs, NEW dst \in DOMAIN H.d,
         NEW src \in DOMAIN H.d, MayTake(H, C, V, dst, src), NEW D, dst \in D,
         NEW G, G = row_replace(H, dst, src)
  PROVE  /\ Taken(H, G, dst, src)
         /\ Does(H, G, C, V, None, D, 1 + CopyCost(H, src, H.d[src].n), 1)
<1>1. PICK st : st = NextStore(H)
  OBVIOUS
<1>2. PICK k : k = NextDesc(H)
  OBVIOUS
<1>3. PICK n : n = H.d[src].n
  OBVIOUS
<1>4. PICK K : K = row_canonical_copy(H, src)
  OBVIOUS
<1>5. /\ Inside(H, H.d[dst])
      /\ dst \in V => "slice_name" \notin Ops \/ H.d[dst].n = 0
      /\ dst \in C \/ Scalars(H.s[rowd_store(H, src)])
      /\ FreeD(H) >= 1 + CopyCost(H, src, n) /\ FreeS(H) > 0
  BY <1>3 DEF MayTake
<1>6. Copied(H, K, C, V, src, st, k, n)
  BY <1>1, <1>2, <1>3, <1>4, <1>5, CanonicalCopy
<1>7. /\ Good(K, C, V, None) /\ Extends(H, K)
      /\ Scalars(H.s[rowd_store(H, src)]) => Scalars(K.s[st])
      /\ Rows(H.s[rowd_store(H, src)]) => Rows(K.s[st])
      /\ Does(H, K, C, V, None, None, 1 + CopyCost(H, src, n), 1)
  BY <1>3, <1>6, CopyDone
<1>8. st \in DOMAIN K.s \ DOMAIN H.s /\ Len(K.s[st].e) = n
  BY <1>3, <1>6 DEF Copied
<1>9. dst \in DOMAIN K.d /\ K.d[dst] = H.d[dst] /\ K.d[src] = H.d[src] /\ src \in DOMAIN K.d
  BY <1>7 DEF Extends
<1>10. PICK old : old = K.d[dst].base
  OBVIOUS
<1>11. old \in DOMAIN H.s /\ old \in DOMAIN K.s
  BY <1>5, <1>7, <1>9, <1>10 DEF Inside, Extends
<1>12. PICK c : c = IF K.s[old].rc > 0 THEN K.s[old].rc - 1 ELSE 0
  OBVIOUS
<1>13. c \in 0 .. RcMod - 1
  <2>1. K.s[old].rc \in 0 .. RcMod - 1 /\ 0 \in 0 .. RcMod - 1
    BY <1>7, <1>11, ShapeParts, StoreParts, Sizes DEF Good
  <2>2. QED
    BY <1>12, <2>1, OneLess
<1>14. PICK M : M = [K EXCEPT !.s[old].rc = c]
  OBVIOUS
<1>15. Counts(K, M) /\ Does(K, M, C, V, None, None, 0, 0)
  BY <1>7, <1>11, <1>13, <1>14, SetCount
<1>16. PICK x : x = [K.d[dst] EXCEPT !.base = st, !.off = 0, !.n = n]
  OBVIOUS
<1>17. x \in Desc /\ x.base = st /\ x.off = 0 /\ x.n = n /\ n \in Nat
  <2>1. K.d[dst] \in Desc /\ H.d[src] \in Desc /\ st \in StoreAddr
    BY <1>7, <1>8, <1>9, ShapeParts DEF Good
  <2>2. n \in 0 .. prog.len /\ n \in Nat
    BY <1>3, <2>1, DescParts
  <2>3. QED
    BY <1>16, <2>1, <2>2 DEF Desc
<1>18. G = WithDesc(M, dst, x)
  <2>1. K = [d |-> K.d, s |-> K.s]
    BY <1>7 DEF Good, Shape
  <2>2. G = [K EXCEPT !.s[old].rc = IF @ > 0 THEN @ - 1 ELSE 0,
                      !.d[dst] = [@ EXCEPT !.base = st, !.off = 0, !.n = K.d[src].n]]
    BY <1>1, <1>4, <1>10 DEF row_replace
  <2>3. G = [K EXCEPT !.s[old].rc = c, !.d[dst] = x]
    BY <1>3, <1>9, <1>12, <1>16, <2>2
  <2>4. QED
    BY <1>14, <2>1, <2>3 DEF WithDesc
<1>19. Good(M, C, V, None) /\ dst \in DOMAIN M.d /\ M.d[dst] = H.d[dst]
  BY <1>9, <1>15 DEF Does, Counts
<1>20. MaySet(M, C, None, D, dst, x)
  <2>1. Unseen(M, dst)
    BY <1>5, <1>19, ElementUnseen
  <2>2. Inside(M, M.d[dst])
    <3>1. Inside(K, K.d[dst])
      BY <1>5, <1>7, <1>9, <1>11 DEF Inside, Extends
    <3>2. QED
      BY <1>15, <3>1 DEF Counts, Inside
  <2>3. Inside(M, x)
    BY <1>8, <1>15, <1>17 DEF Counts, Inside
  <2>4. dst \in C \/ (Scalars(M.s[x.base]) /\ x.base \notin None)
    BY <1>5, <1>7, <1>8, <1>15, <1>17 DEF Counts, Scalars, None
  <2>5. QED
    BY <2>1, <2>2, <2>3, <2>4 DEF MaySet
<1>21. OneDesc(M, G, dst, x) /\ Does(M, G, C, V, None, D, 0, 0)
  BY <1>17, <1>18, <1>19, <1>20, SetDesc
<1>22. CopyCost(H, src, n) \in Nat /\ Shape(H) /\ Shape(K)
  BY <1>7, <1>17 DEF CopyCost, Good
<1>23. PICK m : m = 1 + CopyCost(H, src, n)
  OBVIOUS
<1>24. m \in Nat
  BY <1>22, <1>23
<1>25. Does(H, K, C, V, None, D, m, 1) /\ Does(K, M, C, V, None, D, 0, 0)
  <2>1. None \subseteq D
    BY DEF None
  <2>2. m <= m /\ 1 <= 1 /\ 0 <= 0
    BY <1>24
  <2>3. QED
    BY <1>7, <1>15, <1>22, <1>23, <1>24, <2>1, <2>2, DoesLess
<1>26. Does(K, G, C, V, None, D, 0 + 0, 0 + 0)
  BY <1>21, <1>22, <1>25, DoesBoth
<1>27. 0 + 0 = 0 /\ m + 0 = m /\ 1 + 0 = 1
  BY <1>24
<1>28. Does(K, G, C, V, None, D, 0, 0)
  BY <1>26, <1>27
<1>29. Does(H, G, C, V, None, D, m + 0, 1 + 0)
  BY <1>22, <1>24, <1>25, <1>28, DoesBoth
<1>30. Does(H, G, C, V, None, D, m, 1)
  BY <1>27, <1>29
<1>31. Taken(H, G, dst, src)
  <2>1. ASSUME NEW q \in DOMAIN H.d PROVE q \in DOMAIN G.d /\ (q # dst => G.d[q] = H.d[q])
    BY <1>7, <1>15, <1>21, <2>1 DEF Extends, Counts, OneDesc
  <2>2. ASSUME NEW t \in DOMAIN H.s PROVE t \in DOMAIN G.s /\ G.s[t].e = H.s[t].e
    BY <1>7, <1>15, <1>21, <2>2 DEF Extends, Counts, OneDesc
  <2>3. G.d[dst].base = st /\ st \in DOMAIN G.s /\ G.s[st].e = K.s[st].e
    BY <1>8, <1>15, <1>17, <1>21 DEF Counts, OneDesc
  <2>4. /\ Scalars(H.s[rowd_store(H, src)]) => Scalars(G.s[st])
        /\ Rows(H.s[rowd_store(H, src)]) => Rows(G.s[st])
    BY <1>7, <2>3 DEF Scalars, Rows
  <2>5. QED
    BY <2>1, <2>2, <2>3, <2>4 DEF Taken
<1>32. QED
  BY <1>3, <1>23, <1>30, <1>31

-----------------------------------------------------------------------------
(* A row is copied into another. *)

(* A descriptor with a store of its own lies inside it. *)
LEMMA InsideOwn ==
  ASSUME NEW H, NEW C, NEW V, NEW O, Good(H, C, V, O), NEW r \in DOMAIN H.d,
         H.d[r].base \in DOMAIN H.s
  PROVE  Inside(H, H.d[r])
<1>1. H.d[r].base \notin DOMAIN H.d
  BY ShapeParts, Addresses DEF Good
<1>2. QED
  BY <1>1 DEF Good, View, Plain

(* What is kept of a row o whose bounds are. *)
LEMMA RowKept ==
  ASSUME NEW H, NEW G, NEW C, NEW V, NEW O, NEW D, NEW nd, NEW ns, Does(H, G, C, V, O, D, nd, ns),
         NEW o \in DOMAIN H.d, o \notin D, Inside(H, H.d[o])
  PROVE  /\ o \in DOMAIN G.d /\ G.d[o].off = H.d[o].off /\ G.d[o].n = H.d[o].n
         /\ G.d[o].base \in DOMAIN G.s /\ Inside(G, G.d[o])
         /\ Scalars(H.s[H.d[o].base]) => Scalars(G.s[G.d[o].base])
         /\ Rows(H.s[H.d[o].base]) => Rows(G.s[G.d[o].base])
<1>1. Keeps(H, G, D) /\ Good(G, C, V, O)
  BY DEF Does
<1>2. /\ o \in DOMAIN G.d /\ G.d[o].off = H.d[o].off /\ G.d[o].n = H.d[o].n
      /\ G.d[o].base \in DOMAIN G.s
      /\ Scalars(H.s[H.d[o].base]) => Scalars(G.s[G.d[o].base])
      /\ Rows(H.s[H.d[o].base]) => Rows(G.s[G.d[o].base])
  BY <1>1 DEF Keeps, Inside
<1>3. Inside(G, G.d[o])
  BY <1>1, <1>2, InsideOwn
<1>4. QED
  BY <1>2, <1>3

(* The elements are copied one by one. *)
CopiesTo(g, H, src, n, o, off) ==
  g[0] = H /\ \A i \in 1 .. n : g[i] = CopyElemTo(g[i - 1], src, i, o, off + i)
LEMMA CopyToLoop ==
  ASSUME NEW H, NEW src, NEW n \in Nat, NEW o, NEW off \in Nat
  PROVE  \E g : CopiesTo(g, H, src, n, o, off) /\ CopyElemsTo(H, src, n, o, off) = g[n]
<1> DEFINE Def(g, m) == g = [i \in 0 .. m |-> IF i = 0 THEN H
                                              ELSE CopyElemTo(g[i - 1], src, i, o, off + i)]
           S == {m \in Nat : \E g : Def(g, m)}
<1>1. 0 \in S
  <2>1. Def([i \in 0 .. 0 |-> H], 0)
    OBVIOUS
  <2>2. QED
    BY <2>1
<1>2. ASSUME NEW m \in Nat, m \in S PROVE m + 1 \in S
  <2>1. PICK g : Def(g, m)
    BY <1>2
  <2> DEFINE h == [i \in 0 .. m + 1 |-> IF i = m + 1 THEN CopyElemTo(g[m], src, i, o, off + i)
                                        ELSE g[i]]
  <2>2. ASSUME NEW i \in 0 .. m + 1
        PROVE  h[i] = IF i = 0 THEN H ELSE CopyElemTo(h[i - 1], src, i, o, off + i)
    BY <2>1
  <2>3. h = [i \in 0 .. m + 1 |-> h[i]]
    OBVIOUS
  <2> HIDE DEF h
  <2>4. [i \in 0 .. m + 1 |-> h[i]]
        = [i \in 0 .. m + 1 |-> IF i = 0 THEN H ELSE CopyElemTo(h[i - 1], src, i, o, off + i)]
    BY <2>2
  <2>5. Def(h, m + 1)
    BY <2>3, <2>4
  <2>6. QED
    BY <2>5
<1>3. n \in S
  <2> HIDE DEF S
  <2>1. \A i \in 0 .. n : i \in S /\ i < n => i + 1 \in S
    BY <1>2
  <2>2. \A i \in 0 .. n : i \in S
    BY <1>1, <2>1, Steps
  <2>3. QED
    BY <2>2
<1> DEFINE c == CHOOSE g : Def(g, n)
<1>4. Def(c, n)
  BY <1>3
<1>5. CopyElemsTo(H, src, n, o, off) = c[n]
  BY DEF CopyElemsTo, ForEach
<1> HIDE DEF c
<1>6. CopiesTo(c, H, src, n, o, off)
  BY <1>4 DEF CopiesTo
<1>7. QED
  BY <1>5, <1>6

(* what it allocates to write a scalar e in the row o *)
WriteCost(H, o, e) == IF TooWide(H, o, e) THEN 1 ELSE 0

(* the heap once it is written *)
Writes(H, o, at, e) ==
  LET W == Widened(H, o, e)
  IN {store_set(W, W.d[o].base, at, e), WriteSlot(W, W.d[o].base, at, e)}

(* A scalar is written in a row of scalars. *)
LEMMA ScalarTo ==
  ASSUME NEW H, NEW C, NEW V, Good(H, C, V, None), NEW o \in DOMAIN H.d, Inside(H, H.d[o]),
         Scalars(H.s[H.d[o].base]), NEW at \in 1 .. Len(H.s[H.d[o].base].e), NEW e \in Value,
         ~IsRow(e), FreeS(H) >= WriteCost(H, o, e), NEW G, G \in Writes(H, o, at, e)
  PROVE  /\ Does(H, G, C, V, None, None, 0, WriteCost(H, o, e))
         /\ G.s[G.d[o].base].leaf => H.s[H.d[o].base].leaf /\ ~TooWide(H, o, e)
<1>1. PICK m : m = WriteCost(H, o, e)
  OBVIOUS
<1>2. PICK W : W = Widened(H, o, e)
  OBVIOUS
<1>3. PICK st : st = W.d[o].base
  OBVIOUS
<1>4. G \in {store_set(W, st, at, e), WriteSlot(W, st, at, e)}
  BY <1>2, <1>3 DEF Writes
<1>5. /\ Moved(H, W, o) /\ Does(H, W, C, V, None, None, 0, m) /\ m \in Nat
      /\ W.s[st].e = H.s[H.d[o].base].e
      /\ W.s[st].leaf => H.s[H.d[o].base].leaf /\ ~TooWide(H, o, e)
  <2>1. CASE TooWide(H, o, e)
    <3>1. m = 1 /\ W = Widen(H, o)
      BY <1>1, <1>2, <2>1 DEF WriteCost, Widened
    <3>2. FreeS(H) > 0
      <4>1. FreeS(H) \in Nat
        BY FreeCounts DEF Good
      <4>2. FreeS(H) >= 1
        BY <1>1, <3>1
      <4>3. QED
        BY <4>1, <4>2
    <3>3. QED
      BY <1>3, <3>1, <3>2, WidenStore
  <2>2. CASE ~TooWide(H, o, e)
    <3>1. W = H /\ m = 0
      BY <1>1, <1>2, <2>2 DEF WriteCost, Widened
    <3>2. Moved(H, W, o)
      BY <3>1 DEF Moved, Inside
    <3>3. QED
      BY <1>3, <2>2, <3>1, <3>2, DoesNothing
  <2>3. QED
    BY <2>1, <2>2
<1>6. Good(W, C, V, None) /\ o \in DOMAIN W.d /\ st \in DOMAIN W.s
  BY <1>3, <1>5 DEF Does, Moved
<1>7. Scalars(W.s[st]) /\ OfKind(W.s[st], e)
  <2>1. Scalars(W.s[st])
    BY <1>5 DEF Scalars
  <2>2. at \in DOMAIN W.s[st].e
    BY <1>5, <1>6, ShapeParts, StoreParts DEF Good
  <2>3. QED
    BY <2>1, <2>2 DEF OfKind, Scalars, Rows
<1>8. MayHold(W, C, None, st, at, e)
  <2>1. W.s[st].leaf => leaf_accepts(e)
    BY <1>5 DEF TooWide
  <2>2. QED
    BY <1>5, <2>1 DEF MayHold, Elem
<1>9. SlotSet(W, G, st, at, e) /\ Does(W, G, C, V, None, None, 0, 0)
  BY <1>4, <1>6, <1>7, <1>8, SlotWritten, SetSlot
<1>10. m + 0 = m /\ 0 + 0 = 0
  BY <1>5
<1>11. Does(H, G, C, V, None, None, 0 + 0, m + 0)
  BY <1>5, <1>9, DoesBoth DEF Good
<1>12. Does(H, G, C, V, None, None, 0, m)
  BY <1>10, <1>11
<1>13. G.d[o].base = st /\ G.s[st].leaf = W.s[st].leaf
  BY <1>3, <1>6, <1>9 DEF SlotSet, SameBounds
<1>14. QED
  BY <1>1, <1>5, <1>12, <1>13

(* what a scalar more may allocate in the row o *)
WideCost(H, o) == IF H.s[H.d[o].base].leaf /\ Wide # {} THEN 1 ELSE 0

(* What a write costs is a number. *)
LEMMA CostsAreNumbers ==
  ASSUME NEW H, NEW o
  PROVE  OwnCost(H, o) \in Nat /\ WideCost(H, o) \in Nat
BY DEF OwnCost, WideCost

(* Scalars were written in the row o: it is made slots once. *)
Filled(H, G, C, V, o) ==
  /\ Does(H, G, C, V, None, None, 0, WideCost(H, o))
  /\ G.s[G.d[o].base].leaf => H.s[H.d[o].base].leaf /\ FreeS(G) >= FreeS(H)

(* A row of scalars, in a store of its own. *)
FlatRow(H, r) == r \in DOMAIN H.d /\ Inside(H, H.d[r]) /\ Scalars(H.s[H.d[r].base])

(* It stays one. *)
LEMMA FlatKept ==
  ASSUME NEW H, NEW G, NEW C, NEW V, NEW O, NEW D, NEW nd, NEW ns, Does(H, G, C, V, O, D, nd, ns),
         NEW o, o \notin D, FlatRow(H, o)
  PROVE  FlatRow(G, o) /\ G.d[o].off = H.d[o].off /\ G.d[o].n = H.d[o].n
BY RowKept DEF FlatRow

(* A scalar more is written. *)
LEMMA FillMore ==
  ASSUME NEW H, NEW C, NEW V, Shape(H), NEW o, FlatRow(H, o), NEW K, Filled(H, K, C, V, o),
         FreeS(H) >= WideCost(H, o),
         NEW at \in 1 .. Len(K.s[K.d[o].base].e), NEW e \in Value, ~IsRow(e),
         NEW G, G \in Writes(K, o, at, e)
  PROVE  Filled(H, G, C, V, o)
<1>1. Does(H, K, C, V, None, None, 0, WideCost(H, o)) /\ Good(K, C, V, None)
  BY DEF Filled, Does
<1>2. FlatRow(K, o) /\ o \in DOMAIN K.d /\ Inside(K, K.d[o]) /\ Scalars(K.s[K.d[o].base])
  BY <1>1, FlatKept DEF FlatRow, None
<1>3. /\ FreeS(H) \in Nat /\ FreeD(H) \in Nat /\ FreeS(K) \in Nat /\ FreeD(K) \in Nat
      /\ WideCost(H, o) \in Nat
  BY <1>1, FreeCounts DEF Good, WideCost
<1>4. TooWide(K, o, e) => WideCost(H, o) = 1 /\ FreeS(K) > 0 /\ FreeS(K) >= FreeS(H)
  <2>1. TooWide(K, o, e) => H.s[H.d[o].base].leaf /\ FreeS(K) >= FreeS(H) /\ Wide # {}
    BY DEF Filled, TooWide, leaf_accepts
  <2>2. TooWide(K, o, e) => WideCost(H, o) = 1
    BY <2>1 DEF WideCost
  <2>3. QED
    BY <1>3, <2>1, <2>2
<1>5. PICK m : m = WriteCost(K, o, e)
  OBVIOUS
<1>15. m = IF TooWide(K, o, e) THEN 1 ELSE 0
  BY <1>5 DEF WriteCost
<1>6. /\ Does(K, G, C, V, None, None, 0, m)
      /\ G.s[G.d[o].base].leaf => K.s[K.d[o].base].leaf /\ ~TooWide(K, o, e)
  <2>1. FreeS(K) >= m
    BY <1>3, <1>4, <1>15
  <2>2. QED
    BY <1>1, <1>2, <1>5, <2>1, ScalarTo
<1>7. m \in Nat /\ 0 + 0 = 0
  BY <1>15
<1>8. Does(H, G, C, V, None, None, 0 + 0, WideCost(H, o) + m)
  BY <1>1, <1>3, <1>6, <1>7, DoesBoth
<1>9. Good(G, C, V, None) /\ Keeps(H, G, None) /\ FreeD(G) >= FreeD(H) - 0
  BY <1>7, <1>8 DEF Does
<1>10. FreeS(G) >= FreeS(K) - m /\ FreeS(K) >= FreeS(H) - WideCost(H, o) /\ FreeS(G) \in Nat
  BY <1>1, <1>6, <1>9, FreeCounts DEF Does, Good
<1>11. FreeS(G) >= FreeS(H) - WideCost(H, o)
  <2>1. CASE TooWide(K, o, e)
    BY <1>3, <1>4, <1>15, <1>10, <2>1
  <2>2. CASE ~TooWide(K, o, e)
    BY <1>3, <1>15, <1>10, <2>2
  <2>3. QED
    BY <2>1, <2>2
<1>12. ASSUME G.s[G.d[o].base].leaf PROVE H.s[H.d[o].base].leaf /\ FreeS(G) >= FreeS(H)
  <2>1. K.s[K.d[o].base].leaf /\ ~TooWide(K, o, e)
    BY <1>6, <1>12
  <2>2. H.s[H.d[o].base].leaf /\ FreeS(K) >= FreeS(H)
    BY <2>1 DEF Filled
  <2>3. m = 0
    BY <1>15, <2>1
  <2>4. QED
    BY <1>3, <1>10, <2>2, <2>3
<1>13. QED
  BY <1>9, <1>11, <1>12 DEF Filled, Does

(* Copying a scalar is writing it. *)
LEMMA CopyIsWrite ==
  ASSUME NEW H, NEW src, NEW i, NEW o, NEW at, NEW e, e = rowd_get(H, src, i), ~IsRow(e)
  PROVE  CopyElemTo(H, src, i, o, at) \in Writes(H, o, at, e)
<1>1. PICK W : W = Widened(H, o, e)
  OBVIOUS
<1>2. PICK st : st = W.d[o].base
  OBVIOUS
<1>3. copy_value(W, e) = [h |-> W, v |-> e] /\ slot_put(W, e) = [h |-> W, v |-> e]
  BY DEF copy_value, slot_put
<1>4. PutElem(W, st, at, e) = WriteSlot(W, st, at, e)
  BY <1>3 DEF PutElem, WriteSlot
<1>5. CopyElemTo(H, src, i, o, at) = PutCopy(W, st, at, e)
  BY <1>1, <1>2 DEF CopyElemTo
<1>6. PutCopy(W, st, at, e) \in {store_set(W, st, at, e), PutElem(W, st, at, e)}
  BY <1>3 DEF PutCopy
<1>7. QED
  BY <1>1, <1>2, <1>4, <1>5, <1>6 DEF Writes

(* Nothing is written yet. *)
LEMMA FillStart ==
  ASSUME NEW H, NEW C, NEW V, Good(H, C, V, None), NEW o
  PROVE  Filled(H, H, C, V, o)
<1>1. Does(H, H, C, V, None, None, 0, 0)
  BY DoesNothing
<1>2. WideCost(H, o) \in Nat /\ 0 <= WideCost(H, o)
  BY DEF WideCost
<1>3. Does(H, H, C, V, None, None, 0, WideCost(H, o))
  BY <1>1, <1>2, DoesLess DEF Good
<1>4. (H.s[H.d[o].base].leaf /\ Wide # {}) \/ WideCost(H, o) = 0
  BY DEF WideCost
<1>5. QED
  BY <1>3, FreeCounts DEF Filled, Good

(* a place in an extent *)
LEMMA InReach ==
  ASSUME NEW a \in Nat, NEW b \in Nat, NEW n \in Nat, NEW at \in Nat, a < at, at <= a + b,
         a + b <= n
  PROVE  at \in 1 .. n
OBVIOUS

(* An element of a row of scalars is copied to one. *)
LEMMA FillStep ==
  ASSUME NEW H, NEW C, NEW V, Good(H, C, V, None), NEW o, FlatRow(H, o), NEW src, FlatRow(H, src),
         FreeS(H) >= WideCost(H, o), NEW K, Filled(H, K, C, V, o), NEW i \in 1 .. H.d[src].n,
         NEW at \in Nat, H.d[o].off < at, at <= H.d[o].off + H.d[o].n,
         NEW G, G = CopyElemTo(K, src, i, o, at)
  PROVE  Filled(H, G, C, V, o)
<1>1. Does(H, K, C, V, None, None, 0, WideCost(H, o)) /\ Good(K, C, V, None)
  BY DEF Filled, Does
<1>2. /\ FlatRow(K, o) /\ K.d[o].off = H.d[o].off /\ K.d[o].n = H.d[o].n
      /\ FlatRow(K, src) /\ K.d[src].off = H.d[src].off /\ K.d[src].n = H.d[src].n
  BY <1>1, FlatKept DEF None
<1>3. at \in 1 .. Len(K.s[K.d[o].base].e)
  <2>1. K.d[o] \in Desc /\ K.s[K.d[o].base] \in Store
    BY <1>1, <1>2, ShapeParts DEF FlatRow, Inside, Good
  <2>2. K.d[o].off \in Nat /\ K.d[o].n \in Nat /\ Len(K.s[K.d[o].base].e) \in Nat
    BY <2>1, DescParts, StoreParts
  <2>3. K.d[o].off + K.d[o].n <= Len(K.s[K.d[o].base].e)
    BY <1>2 DEF FlatRow, Inside
  <2>4. QED
    BY <1>2, <2>2, <2>3, InReach
<1>4. PICK e : e = rowd_get(K, src, i)
  OBVIOUS
<1>5. e \in Value /\ ~IsRow(e)
  <2>1. src \in DOMAIN K.d /\ Inside(K, K.d[src]) /\ Scalars(K.s[K.d[src].base]) /\ i \in 1 .. K.d[src].n
    BY <1>2 DEF FlatRow
  <2>2. rowd_store(K, src) = K.d[src].base /\ rowd_store(K, src) \in DOMAIN K.s
    BY <1>1, <2>1, StoreOf
  <2>3. /\ K.d[src].off + i \in 1 .. Len(K.s[rowd_store(K, src)].e)
        /\ e = K.s[rowd_store(K, src)].e[K.d[src].off + i]
    BY <1>1, <1>4, <2>1, RowElement
  <2>4. QED
    BY <1>1, <2>1, <2>2, <2>3, ElementOf
<1>6. G \in Writes(K, o, at, e)
  BY <1>4, <1>5, CopyIsWrite
<1>7. QED
  BY <1>3, <1>5, <1>6, FillMore DEF Good

(* n numbers after off *)
LEMMA After ==
  ASSUME NEW n \in Nat, NEW off \in Nat, NEW a \in Nat, NEW b \in Nat, a <= off, off + n <= a + b,
         NEW i \in 1 .. n
  PROVE  off + i \in Nat /\ a < off + i /\ off + i <= a + b
OBVIOUS

(* The elements of a row of scalars are copied to one. *)
LEMMA FlatCopy ==
  ASSUME NEW H, NEW C, NEW V, Good(H, C, V, None), NEW o, FlatRow(H, o), NEW src, FlatRow(H, src),
         FreeS(H) >= WideCost(H, o), NEW n \in Nat, n <= H.d[src].n, NEW off \in Nat,
         H.d[o].off <= off, off + n <= H.d[o].off + H.d[o].n,
         NEW G, G = CopyElemsTo(H, src, n, o, off)
  PROVE  Does(H, G, C, V, None, None, 0, WideCost(H, o))
<1>1. PICK g : CopiesTo(g, H, src, n, o, off) /\ G = g[n]
  BY CopyToLoop
<1>2. H.d[o].off \in Nat /\ H.d[o].n \in Nat /\ H.d[src].n \in Nat
  BY ShapeParts, DescParts DEF Good, FlatRow
<1> DEFINE S == {i \in 0 .. n : Filled(H, g[i], C, V, o)}
<1>3. 0 \in S
  BY <1>1, FillStart DEF CopiesTo
<1>4. ASSUME NEW j \in 0 .. n, j \in S, j < n PROVE j + 1 \in S
  <2>1. PICK i : i = j + 1
    OBVIOUS
  <2>2. i \in 1 .. n /\ i - 1 = j /\ i \in 1 .. H.d[src].n
    BY <1>2, <1>4, <2>1
  <2>3. PICK at : at = off + i
    OBVIOUS
  <2>4. at \in Nat /\ H.d[o].off < at /\ at <= H.d[o].off + H.d[o].n
    BY <1>2, <2>2, <2>3, After
  <2>5. g[i] = CopyElemTo(g[j], src, i, o, at)
    BY <1>1, <2>2, <2>3 DEF CopiesTo
  <2>6. Filled(H, g[i], C, V, o)
    BY <1>4, <2>2, <2>4, <2>5, FillStep
  <2>7. QED
    BY <2>1, <2>2, <2>6
<1>5. n \in S
  <2> HIDE DEF S
  <2>1. \A j \in 0 .. n : j \in S /\ j < n => j + 1 \in S
    BY <1>4
  <2>2. \A j \in 0 .. n : j \in S
    BY <1>3, <2>1, Steps
  <2>3. QED
    BY <2>2
<1>6. QED
  BY <1>1, <1>5 DEF Filled

(* A row of rows, in a store of its own. *)
DeepRow(H, r) == r \in DOMAIN H.d /\ Inside(H, H.d[r]) /\ Rows(H.s[H.d[r].base])

(* It stays one. *)
LEMMA DeepKept ==
  ASSUME NEW H, NEW G, NEW C, NEW V, NEW O, NEW D, NEW nd, NEW ns, Does(H, G, C, V, O, D, nd, ns),
         NEW o, o \notin D, DeepRow(H, o)
  PROVE  DeepRow(G, o) /\ G.d[o].off = H.d[o].off /\ G.d[o].n = H.d[o].n
BY RowKept DEF DeepRow

(* A row in a row: apart from what the program holds, and of scalars. *)
LEMMA RowIn ==
  ASSUME NEW H, NEW C, NEW V, NEW O, Good(H, C, V, O), NEW st \in DOMAIN H.s, Rows(H.s[st]),
         NEW i \in 1 .. Len(H.s[st].e), NEW e, e = H.s[st].e[i]
  PROVE  IsRow(e) /\ e \in DescAddr \ C /\ FlatRow(H, e)
<1>1. Elem(H, C, O, e) /\ IsRow(e)
  BY ElementOf
<1>2. e \in DescAddr
  BY <1>1 DEF IsRow
<1>3. QED
  BY <1>1, <1>2 DEF Elem, Plain, FlatRow

(* A place of a row of a store of its own. *)
LEMMA PlaceIn ==
  ASSUME NEW H, NEW C, NEW V, NEW O, Good(H, C, V, O), NEW o \in DOMAIN H.d, Inside(H, H.d[o]),
         NEW at \in Nat, H.d[o].off < at, at <= H.d[o].off + H.d[o].n
  PROVE  at \in 1 .. Len(H.s[H.d[o].base].e)
<1>1. H.d[o] \in Desc /\ H.s[H.d[o].base] \in Store
  BY ShapeParts DEF Inside, Good
<1>2. H.d[o].off \in Nat /\ H.d[o].n \in Nat /\ Len(H.s[H.d[o].base].e) \in Nat
  BY <1>1, DescParts, StoreParts
<1>3. H.d[o].off + H.d[o].n <= Len(H.s[H.d[o].base].e)
  BY DEF Inside
<1>4. QED
  BY <1>2, <1>3, InReach

(* A row in the row o takes over a copy: of the row e, through the borrow k of it. *)
RowTakes(H, G, B, C, V, old, k) ==
  /\ old \in DescAddr \ C /\ old \in DOMAIN H.d /\ old \in DOMAIN B.d /\ k \in DOMAIN B.d
  /\ Does(H, B, C, V, None, None, 1, 0) /\ MayTake(B, C, V, old, k)
  /\ CopyCost(B, k, B.d[k].n) = 0 /\ G = row_replace(B, old, k)
BorrowOf(H, B, k, e) ==
  k = NextDesc(H) /\ e \in DOMAIN H.d /\ B = rowd_borrow(H, e) /\ FreeD(H) > 0
LEMMA RowTaken ==
  ASSUME NEW H, NEW C, NEW V, Good(H, C, V, None), prog \in Programs, NEW o, DeepRow(H, o),
         NEW src, DeepRow(H, src), NEW i \in 1 .. H.d[src].n,
         NEW at \in Nat, H.d[o].off < at, at <= H.d[o].off + H.d[o].n,
         FreeD(H) >= 2, FreeS(H) > 0, NEW G, G = CopyElemTo(H, src, i, o, at)
  PROVE  /\ at \in 1 .. Len(H.s[H.d[o].base].e) /\ IsRow(H.s[H.d[o].base].e[at])
         /\ \E e, k, B : /\ RowTakes(H, G, B, C, V, H.s[H.d[o].base].e[at], k)
                         /\ BorrowOf(H, B, k, e)
<1>1. PICK st : st = H.d[o].base
  OBVIOUS
<1>2. PICK e : e = rowd_get(H, src, i)
  OBVIOUS
<1>3. PICK old : old = H.s[st].e[at]
  OBVIOUS
<1>4. st \in DOMAIN H.s /\ at \in 1 .. Len(H.s[st].e) /\ Rows(H.s[st]) /\ Shape(H)
  BY <1>1, PlaceIn DEF DeepRow, Inside, Good
<1>5. IsRow(old) /\ old \in DescAddr \ C /\ FlatRow(H, old)
  BY <1>3, <1>4, RowIn
<1>6. IsRow(e) /\ FlatRow(H, e)
  <2>1. src \in DOMAIN H.d /\ Inside(H, H.d[src]) /\ Rows(H.s[H.d[src].base])
    BY DEF DeepRow
  <2>2. rowd_store(H, src) = H.d[src].base /\ rowd_store(H, src) \in DOMAIN H.s
    BY <2>1, StoreOf
  <2>3. /\ H.d[src].off + i \in 1 .. Len(H.s[rowd_store(H, src)].e)
        /\ e = H.s[rowd_store(H, src)].e[H.d[src].off + i]
    BY <1>2, <2>1, RowElement
  <2>4. PICK j : j = H.d[src].off + i
    OBVIOUS
  <2>5. QED
    <3>1. PICK t : t = H.d[src].base
      OBVIOUS
    <3>2. t \in DOMAIN H.s /\ Rows(H.s[t]) /\ j \in 1 .. Len(H.s[t].e) /\ e = H.s[t].e[j]
      BY <2>1, <2>2, <2>3, <2>4, <3>1
    <3>3. QED
      BY <3>2, RowIn
<1>7. H.s[st].leaf = FALSE
  BY <1>3, <1>4, <1>5, RowsNoLeaf
<1>8. PICK B : B = rowd_borrow(H, e)
  OBVIOUS
<1>9. PICK k : k = NextDesc(H)
  OBVIOUS
<1>10. FreeD(H) \in Nat /\ FreeS(H) \in Nat /\ FreeD(H) > 0
  <2>1. FreeD(H) \in Nat /\ FreeS(H) \in Nat
    BY FreeCounts DEF Good
  <2>2. QED
    BY <2>1
<1>11. /\ k \in DescAddr \ DOMAIN H.d /\ DOMAIN B.d = DOMAIN H.d \cup {k}
       /\ B.d[k].base = rowd_store(H, e) /\ Extends(H, B) /\ Inside(B, B.d[k])
       /\ Does(H, B, C, V, None, None, 1, 0)
  BY <1>6, <1>8, <1>9, <1>10, ShareRow DEF FlatRow
<1>12. G = row_replace(B, old, k)
  <2>1. Widened(H, o, e) = H
    BY <1>1, <1>7 DEF Widened, TooWide
  <2>2. G = PutCopy(H, st, at, e)
    BY <1>1, <1>2, <2>1 DEF CopyElemTo
  <2>3. copy_value(H, e) = [h |-> B, v |-> k]
    BY <1>6, <1>8, <1>9 DEF copy_value
  <2>4. PutCopy(H, st, at, e) = PutElem(B, st, at, k)
    BY <1>7, <2>3 DEF PutCopy
  <2>5. IsRow(k) /\ B.s[st].e[at] = old
    BY <1>3, <1>4, <1>11 DEF IsRow, Extends
  <2>6. QED
    BY <1>5, <2>2, <2>4, <2>5 DEF PutElem
<1>13. FlatRow(B, old) /\ FlatRow(B, e) /\ Good(B, C, V, None)
  <2>1. FlatRow(B, old) /\ FlatRow(B, e)
    BY <1>5, <1>6, <1>11, FlatKept DEF None
  <2>2. QED
    BY <1>11, <2>1 DEF Does
<1>14. MayTake(B, C, V, old, k) /\ CopyCost(B, k, B.d[k].n) = 0
  <2>1. rowd_store(B, k) = B.d[k].base
    BY <1>11, <1>13, StoreOf
  <2>2. rowd_store(H, e) = H.d[e].base /\ H.d[e].base \in DOMAIN H.s
    BY <1>6, StoreOf DEF FlatRow
  <2>3. B.s[H.d[e].base].e = H.s[H.d[e].base].e
    BY <1>11, <2>2 DEF Extends
  <2>4. Scalars(B.s[rowd_store(B, k)])
    BY <1>6, <1>11, <2>1, <2>2, <2>3 DEF FlatRow, Scalars
  <2>5. CopyCost(B, k, B.d[k].n) = 0
    BY <2>4 DEF CopyCost
  <2>6. FreeD(B) >= FreeD(H) - 1 /\ FreeS(B) >= FreeS(H) - 0 /\ FreeD(B) \in Nat /\ FreeS(B) \in Nat
    BY <1>11, <1>13, FreeCounts DEF Does, Good
  <2>7. FreeD(B) >= 1 + 0 /\ FreeS(B) > 0
    BY <1>10, <2>6
  <2>8. old \notin V
    BY <1>5 DEF Good
  <2>9. QED
    BY <1>13, <2>4, <2>5, <2>7, <2>8 DEF MayTake, FlatRow
<1>15. RowTakes(H, G, B, C, V, old, k)
  BY <1>5, <1>11, <1>12, <1>13, <1>14 DEF RowTakes, FlatRow
<1>16. BorrowOf(H, B, k, e)
  BY <1>6, <1>8, <1>9, <1>10 DEF BorrowOf, FlatRow
<1>17. QED
  BY <1>1, <1>3, <1>4, <1>5, <1>15, <1>16

(* An element of a row of rows is copied to one: the row there takes it over. *)
LEMMA CopyRow ==
  ASSUME NEW H, NEW C, NEW V, Good(H, C, V, None), prog \in Programs, NEW o, DeepRow(H, o),
         NEW src, DeepRow(H, src), NEW i \in 1 .. H.d[src].n,
         NEW at \in Nat, H.d[o].off < at, at <= H.d[o].off + H.d[o].n,
         FreeD(H) >= 2, FreeS(H) > 0, NEW G, G = CopyElemTo(H, src, i, o, at)
  PROVE  Does(H, G, C, V, None, DescAddr \ C, 2, 1)
<1>1. PICK old, k, B : RowTakes(H, G, B, C, V, old, k)
  BY RowTaken
<1>2. PICK D : D = DescAddr \ C
  OBVIOUS
<1>3. Shape(H) /\ Good(B, C, V, None)
  BY <1>1 DEF RowTakes, Does, Good
<1>4. Does(B, G, C, V, None, D, 1, 1)
  <2>1. old \in D /\ 1 + 0 = 1
    BY <1>1, <1>2 DEF RowTakes
  <2>2. Does(B, G, C, V, None, D, 1 + CopyCost(B, k, B.d[k].n), 1)
    BY <1>1, <1>3, <2>1, Replace DEF RowTakes
  <2>3. QED
    BY <1>1, <2>1, <2>2 DEF RowTakes
<1>5. Does(H, B, C, V, None, D, 1, 0)
  <2>1. None \subseteq D
    BY DEF None
  <2>2. QED
    BY <1>1, <1>3, <2>1, DoesLess DEF RowTakes
<1>6. 1 + 1 = 2 /\ 0 + 1 = 1
  OBVIOUS
<1>7. Does(H, G, C, V, None, D, 1 + 1, 0 + 1)
  BY <1>3, <1>4, <1>5, DoesBoth
<1>8. QED
  BY <1>2, <1>6, <1>7

(* The costs of j elements, and of one more. *)
LEMMA OneElementMore ==
  ASSUME NEW n \in Nat, NEW fd \in Nat, NEW fs \in Nat, fd >= 2 * n, fs >= n, NEW j \in Nat, j < n,
         NEW gd \in Nat, NEW gs \in Nat, gd >= fd - 2 * j, gs >= fs - j
  PROVE  gd >= 2 /\ gs > 0 /\ 2 * j + 2 = 2 * (j + 1) /\ 2 * j \in Nat
OBVIOUS

(* The elements of a row of rows are copied to one. *)
LEMMA DeepCopy ==
  ASSUME NEW H, NEW C, NEW V, Good(H, C, V, None), prog \in Programs, NEW o \in C, DeepRow(H, o),
         NEW src \in C, DeepRow(H, src), NEW n \in Nat, n <= H.d[src].n, NEW off \in Nat,
         H.d[o].off <= off, off + n <= H.d[o].off + H.d[o].n,
         FreeD(H) >= 2 * n, FreeS(H) >= n, NEW G, G = CopyElemsTo(H, src, n, o, off)
  PROVE  Does(H, G, C, V, None, DescAddr \ C, 2 * n, n)
<1>1. PICK g : CopiesTo(g, H, src, n, o, off) /\ G = g[n]
  BY CopyToLoop
<1>2. /\ H.d[o].off \in Nat /\ H.d[o].n \in Nat /\ H.d[src].n \in Nat
      /\ FreeD(H) \in Nat /\ FreeS(H) \in Nat /\ Shape(H)
  BY ShapeParts, DescParts, FreeCounts DEF Good, DeepRow
<1>3. PICK D : D = DescAddr \ C
  OBVIOUS
<1> DEFINE S == {i \in 0 .. n : Does(H, g[i], C, V, None, D, 2 * i, i)}
<1>4. 0 \in S
  <2>1. None \subseteq D /\ 2 * 0 = 0
    BY DEF None
  <2>2. Does(H, H, C, V, None, None, 0, 0)
    BY DoesNothing
  <2>3. Does(H, H, C, V, None, D, 0, 0)
    BY <1>2, <2>1, <2>2, DoesLess
  <2>4. QED
    BY <1>1, <2>1, <2>3 DEF CopiesTo
<1>5. ASSUME NEW j \in 0 .. n, j \in S, j < n PROVE j + 1 \in S
  <2>1. PICK i : i = j + 1
    OBVIOUS
  <2>2. i \in 1 .. n /\ i - 1 = j /\ i \in 1 .. H.d[src].n /\ j \in Nat
    BY <1>2, <1>5, <2>1
  <2>3. PICK at : at = off + i
    OBVIOUS
  <2>4. at \in Nat /\ H.d[o].off < at /\ at <= H.d[o].off + H.d[o].n
    BY <1>2, <2>2, <2>3, After
  <2>5. PICK K : K = g[j]
    OBVIOUS
  <2>6. Does(H, K, C, V, None, D, 2 * j, j) /\ Good(K, C, V, None)
    BY <1>5, <2>5 DEF Does
  <2>7. PICK L : L = g[i]
    OBVIOUS
  <2>8. L = CopyElemTo(K, src, i, o, at)
    BY <1>1, <2>2, <2>3, <2>5, <2>7 DEF CopiesTo
  <2>9. o \notin D /\ src \notin D
    BY <1>3
  <2>10. /\ DeepRow(K, o) /\ K.d[o].off = H.d[o].off /\ K.d[o].n = H.d[o].n
         /\ DeepRow(K, src) /\ K.d[src].n = H.d[src].n
    BY <2>6, <2>9, DeepKept
  <2>11. FreeD(K) \in Nat /\ FreeS(K) \in Nat /\ FreeD(K) >= FreeD(H) - 2 * j /\ FreeS(K) >= FreeS(H) - j
    BY <2>6, FreeCounts DEF Does, Good
  <2>12. FreeD(K) >= 2 /\ FreeS(K) > 0 /\ 2 * j + 2 = 2 * i /\ 2 * j \in Nat
    BY <1>2, <1>5, <2>1, <2>2, <2>11, OneElementMore
  <2>13. Does(K, L, C, V, None, D, 2, 1)
    BY <1>3, <2>2, <2>4, <2>6, <2>8, <2>10, <2>12, CopyRow
  <2>14. Does(H, L, C, V, None, D, 2 * j + 2, j + 1)
    BY <1>2, <2>2, <2>6, <2>12, <2>13, DoesBoth
  <2>15. QED
    BY <2>1, <2>2, <2>7, <2>12, <2>14
<1>6. n \in S
  <2> HIDE DEF S
  <2>1. \A j \in 0 .. n : j \in S /\ j < n => j + 1 \in S
    BY <1>5
  <2>2. \A j \in 0 .. n : j \in S
    BY <1>4, <2>1, Steps
  <2>3. QED
    BY <2>2
<1>7. QED
  BY <1>1, <1>3, <1>6

(* The extent of a row in the store of its owner. *)
LEMMA OwnerOf ==
  ASSUME NEW H, NEW C, NEW V, NEW O, Good(H, C, V, O), NEW r \in DOMAIN H.d, NEW o,
         o = rowd_owner(H, r)
  PROVE  /\ o \in DOMAIN H.d /\ Inside(H, H.d[o]) /\ rowd_store(H, r) = H.d[o].base
         /\ H.d[r].off \in Nat /\ H.d[r].n \in Nat /\ H.d[o].off <= H.d[r].off
         /\ H.d[r].off + H.d[r].n <= H.d[o].off + H.d[o].n
<1>1. H.d[r].off \in Nat /\ H.d[r].n \in Nat
  BY ShapeParts, DescParts DEF Good
<1>2. rowd_store(H, r) = H.d[o].base
  BY DEF rowd_store
<1>3. QED
  BY <1>1, <1>2, StoreOf

(* row_copy_into: a row of scalars is copied into one. *)
LEMMA FlatInto ==
  ASSUME NEW H, NEW C, NEW V, Good(H, C, V, None), NEW dst \in DOMAIN H.d, NEW o,
         o = rowd_owner(H, dst), FlatRow(H, o), NEW src, FlatRow(H, src), same_bounds(H, dst, src),
         FreeS(H) >= OwnCost(H, o) + WideCost(H, o), NEW G, G = row_copy_into(H, dst, src)
  PROVE  Does(H, G, C, V, None, None, 0, OwnCost(H, o) + WideCost(H, o))
<1>1. PICK K : K = own_store(H, o)
  OBVIOUS
<1>2. PICK n : n = H.d[dst].n
  OBVIOUS
<1>3. PICK off : off = H.d[dst].off
  OBVIOUS
<1>4. /\ o \in DOMAIN H.d /\ Inside(H, H.d[o]) /\ off \in Nat /\ n \in Nat
      /\ H.d[o].off <= off /\ off + n <= H.d[o].off + H.d[o].n
  BY <1>2, <1>3, OwnerOf
<1>5. G = CopyElemsTo(K, src, n, o, off)
  BY <1>1, <1>2, <1>3 DEF row_copy_into
<1>6. /\ FreeS(H) \in Nat /\ OwnCost(H, o) \in Nat /\ WideCost(H, o) \in Nat /\ Shape(H)
      /\ H.s[H.d[o].base].leaf \in BOOLEAN
  <2>1. H.s[H.d[o].base] \in Store /\ Shape(H)
    BY <1>4, ShapeParts DEF Good, Inside
  <2>2. QED
    BY <2>1, StoreParts, FreeCounts DEF OwnCost, WideCost
<1>7. /\ Does(H, K, C, V, None, None, 0, OwnCost(H, o))
      /\ K.s[K.d[o].base].leaf = H.s[H.d[o].base].leaf
  <2>1. FreeS(H) >= OwnCost(H, o)
    BY <1>6
  <2>2. QED
    BY <1>1, <1>4, <2>1, OwnStore DEF FlatRow
<1>8. Good(K, C, V, None) /\ Shape(K) /\ FreeS(K) >= FreeS(H) - OwnCost(H, o)
  BY <1>7 DEF Does, Good
<1>9. /\ FlatRow(K, o) /\ K.d[o].off = H.d[o].off /\ K.d[o].n = H.d[o].n
      /\ FlatRow(K, src) /\ K.d[src].n = H.d[src].n
  BY <1>7, FlatKept DEF None
<1>10. WideCost(K, o) = WideCost(H, o)
  BY <1>7 DEF WideCost
<1>11. FreeS(K) >= WideCost(K, o) /\ n <= K.d[src].n
  <2>1. FreeS(K) \in Nat
    BY <1>8, FreeCounts
  <2>2. n = K.d[src].n
    BY <1>2, <1>9 DEF same_bounds
  <2>3. QED
    BY <1>4, <1>6, <1>8, <1>10, <2>1, <2>2
<1>12. H.d[o].off <= off /\ off + n <= K.d[o].off + K.d[o].n /\ K.d[o].off <= off
  BY <1>4, <1>9
<1>13. Does(K, G, C, V, None, None, 0, WideCost(H, o))
  BY <1>4, <1>5, <1>8, <1>9, <1>10, <1>11, <1>12, FlatCopy
<1>14. Does(H, G, C, V, None, None, 0 + 0, OwnCost(H, o) + WideCost(H, o))
  BY <1>6, <1>7, <1>13, DoesBoth
<1>15. 0 + 0 = 0
  OBVIOUS
<1>16. QED
  BY <1>14, <1>15

(* row_copy_into: a row of rows is copied into one. *)
LEMMA DeepInto ==
  ASSUME NEW H, NEW C, NEW V, Good(H, C, V, None), prog \in Programs, NEW dst \in DOMAIN H.d,
         NEW o \in C, o = rowd_owner(H, dst), DeepRow(H, o), NEW src \in C, DeepRow(H, src),
         same_bounds(H, dst, src), NEW n, n = H.d[dst].n, FreeD(H) >= 2 * n,
         FreeS(H) >= OwnCost(H, o) + n, NEW G, G = row_copy_into(H, dst, src)
  PROVE  Does(H, G, C, V, None, DescAddr \ C, 2 * n, OwnCost(H, o) + n)
<1>1. PICK K : K = own_store(H, o)
  OBVIOUS
<1>2. PICK D : D = DescAddr \ C
  OBVIOUS
<1>3. PICK off : off = H.d[dst].off
  OBVIOUS
<1>4. /\ o \in DOMAIN H.d /\ Inside(H, H.d[o]) /\ off \in Nat /\ n \in Nat
      /\ H.d[o].off <= off /\ off + n <= H.d[o].off + H.d[o].n
  BY <1>3, OwnerOf
<1>5. G = CopyElemsTo(K, src, n, o, off)
  BY <1>1, <1>3 DEF row_copy_into
<1>6. /\ FreeS(H) \in Nat /\ FreeD(H) \in Nat /\ OwnCost(H, o) \in Nat /\ Shape(H) /\ 2 * n \in Nat
  BY <1>4, FreeCounts DEF OwnCost, Good
<1>7. Does(H, K, C, V, None, None, 0, OwnCost(H, o))
  <2>1. FreeS(H) >= OwnCost(H, o)
    BY <1>4, <1>6
  <2>2. QED
    BY <1>1, <1>4, <2>1, OwnStore
<1>8. /\ Good(K, C, V, None) /\ Shape(K) /\ FreeS(K) >= FreeS(H) - OwnCost(H, o)
      /\ FreeD(K) >= FreeD(H) - 0
  BY <1>7 DEF Does, Good
<1>9. /\ DeepRow(K, o) /\ K.d[o].off = H.d[o].off /\ K.d[o].n = H.d[o].n
      /\ DeepRow(K, src) /\ K.d[src].n = H.d[src].n
  BY <1>7, DeepKept DEF None
<1>10. FreeS(K) >= n /\ FreeD(K) >= 2 * n /\ n <= K.d[src].n
  <2>1. FreeS(K) \in Nat /\ FreeD(K) \in Nat
    BY <1>8, FreeCounts
  <2>2. n = K.d[src].n
    BY <1>9 DEF same_bounds
  <2>3. QED
    BY <1>4, <1>6, <1>8, <2>1, <2>2
<1>11. K.d[o].off <= off /\ off + n <= K.d[o].off + K.d[o].n
  BY <1>4, <1>9
<1>12. Does(K, G, C, V, None, D, 2 * n, n)
  BY <1>2, <1>4, <1>5, <1>8, <1>9, <1>10, <1>11, DeepCopy
<1>13. Does(H, K, C, V, None, D, 0, OwnCost(H, o))
  <2>1. None \subseteq D
    BY DEF None
  <2>2. QED
    BY <1>6, <1>7, <2>1, DoesLess
<1>14. Does(H, G, C, V, None, D, 0 + 2 * n, OwnCost(H, o) + n)
  BY <1>4, <1>6, <1>12, <1>13, DoesBoth
<1>15. 0 + 2 * n = 2 * n
  BY <1>6
<1>16. QED
  BY <1>2, <1>14, <1>15

-----------------------------------------------------------------------------
(* What cells and operands hold. *)

(* An operand. *)
Operand == [k : {"row", "name"}, p : DescAddr]

(* What the program holds is in the heap. *)
LEMMA HeldIn ==
  ASSUME NEW H, NEW cl, NEW sk, Safe(H, cl, sk)
  PROVE  /\ Good(H, Held(cl, sk), Declared(cl, Var), None) /\ Shape(H)
         /\ \A c \in Cell : cl[c] # Nil => /\ cl[c] \in Held(cl, sk) /\ Plain(H, cl[c])
                                           /\ Fits(H, c, cl[c])
         /\ \A c \in Var : cl[c] # Nil => cl[c] \in Declared(cl, Var)
         /\ \A i \in DOMAIN sk : /\ sk[i] \in Operand /\ sk[i].p \in DOMAIN H.d
                                 /\ sk[i].k = "row" => /\ sk[i].p \in Held(cl, sk)
                                                       /\ Plain(H, sk[i].p)
<1>1. Good(H, Held(cl, sk), Declared(cl, Var), None) /\ Shape(H)
  BY DEF Safe, Good
<1>2. ASSUME NEW c \in Cell, cl[c] # Nil
      PROVE  cl[c] \in Held(cl, sk) /\ Plain(H, cl[c]) /\ Fits(H, c, cl[c])
  <2>1. cl[c] \in Held(cl, sk)
    BY <1>2 DEF Held, Declared
  <2>2. QED
    BY <1>1, <1>2, <2>1 DEF Good, Safe
<1>3. ASSUME NEW i \in DOMAIN sk
      PROVE  /\ sk[i] \in Operand /\ sk[i].p \in DOMAIN H.d
             /\ sk[i].k = "row" => sk[i].p \in Held(cl, sk) /\ Plain(H, sk[i].p)
  <2>1. sk[i] \in Operand
    <3>1. sk \in Seq(Operand)
      BY DEF Safe, Operand
    <3>2. QED
      BY <1>3, <3>1
  <2>2. sk[i].k = "row" => sk[i].p \in Held(cl, sk)
    BY <1>3 DEF Held, RowsOf
  <2>3. sk[i].k = "row" => Plain(H, sk[i].p)
    BY <1>1, <2>2 DEF Good
  <2>4. sk[i].k = "name" => sk[i].p \in DOMAIN H.d
    BY <1>3 DEF Safe, Names
  <2>5. sk[i].k \in {"row", "name"}
    BY <2>1 DEF Operand
  <2>6. QED
    BY <2>1, <2>2, <2>3, <2>4, <2>5 DEF Plain
<1>4. \A c \in Var : cl[c] # Nil => cl[c] \in Declared(cl, Var)
  BY DEF Declared
<1>5. QED
  BY <1>1, <1>2, <1>3, <1>4

(* What is held may change: rows of no store are held, others no longer. *)
LEMMA HoldOthers ==
  ASSUME NEW H, NEW C, NEW V, NEW O, Good(H, C, V, O), NEW E, NEW W, V \subseteq W, W \subseteq E,
         \A r \in E : r \in C \/ (Plain(H, r) /\ Fresh(H, r))
  PROVE  Good(H, E, W, O)
<1>1. \A r \in E : Plain(H, r)
  BY DEF Good
<1>2. \A r \in DOMAIN H.d : Inside(H, H.d[r]) \/ View(H, W, H.d[r])
  BY DEF Good, View
<1>3. ASSUME NEW st \in DOMAIN H.s PROVE Sound(H, E, O, H.s[st])
  <2>1. Sound(H, C, O, H.s[st])
    BY DEF Good
  <2>2. ASSUME NEW i \in DOMAIN H.s[st].e PROVE Elem(H, E, O, H.s[st].e[i])
    BY <2>1, <2>2 DEF Sound, Elem, Fresh
  <2>3. QED
    BY <2>1, <2>2 DEF Sound
<1>4. QED
  BY <1>1, <1>2, <1>3 DEF Good

(* An operation that keeps the bounds of what cells hold. *)
LEMMA FitKept ==
  ASSUME NEW H, NEW cl, NEW sk, Safe(H, cl, sk), NEW G, NEW C, NEW V, NEW O, NEW D, NEW nd, NEW ns,
         Does(H, G, C, V, O, D, nd, ns), NEW c \in Cell, cl[c] # Nil, cl[c] \notin D
  PROVE  Fits(G, c, cl[c])
<1>1. Plain(H, cl[c]) /\ Fits(H, c, cl[c])
  BY HeldIn
<1>2. QED
  BY <1>1 DEF Does, Keeps, Fits, Plain, Inside

(* Names stay names. *)
LEMMA NamesKept ==
  ASSUME NEW H, NEW sk, Names(H, sk), NEW G, NEW D, Keeps(H, G, D)
  PROVE  Names(G, sk)
BY DEF Names, Keeps

(* An operation, with cells and operands as they were. *)
LEMMA Stays ==
  ASSUME NEW H, NEW cl, NEW sk, Safe(H, cl, sk), NEW G, NEW D, NEW nd, NEW ns,
         Does(H, G, Held(cl, sk), Declared(cl, Var), None, D, nd, ns),
         \A c \in Cell : cl[c] # Nil /\ cl[c] \in D => Fits(G, c, cl[c])
  PROVE  Safe(G, cl, sk)
<1>1. \A c \in Cell : cl[c] # Nil => Fits(G, c, cl[c])
  BY FitKept
<1>2. Names(G, sk)
  BY NamesKept DEF Safe, Does
<1>3. QED
  BY <1>1, <1>2 DEF Safe, Does

(* The operands below the one on top, and apart from it. *)
ButTop(sk) == SubSeq(sk, 1, Len(sk) - 1)
Below(cl, sk, rest) ==
  /\ Len(sk) \in DOMAIN sk /\ sk[Len(sk)].p \notin Held(cl, rest)
  /\ Held(cl, rest) \subseteq Held(cl, sk)

(* The operand on top is dropped. *)
LEMMA PopTop ==
  ASSUME NEW H, NEW cl, NEW sk, Safe(H, cl, sk), Len(sk) > 0, NEW rest, rest = ButTop(sk)
  PROVE  Safe(H, cl, rest) /\ Below(cl, sk, rest)
<1>0. PICK n : n = Len(sk)
  OBVIOUS
<1>1. sk \in Seq(Operand) /\ n \in 1 .. n /\ DOMAIN sk = 1 .. n
  <2>1. sk \in Seq(Operand)
    BY DEF Safe, Operand
  <2>2. QED
    BY <1>0, <2>1
<1>2. rest \in Seq(Operand) /\ DOMAIN rest = 1 .. n - 1 /\ \A i \in 1 .. n - 1 : rest[i] = sk[i]
  BY <1>0, <1>1 DEF ButTop
<1>3. Held(cl, rest) \subseteq Held(cl, sk)
  BY <1>1, <1>2 DEF Held, RowsOf
<1>4. Declared(cl, Var) \subseteq Held(cl, rest)
  BY Cells DEF Held, Declared
<1>5. Good(H, Held(cl, rest), Declared(cl, Var), None)
  BY <1>3, <1>4, HoldOthers DEF Safe
<1>6. Names(H, rest) /\ Apart(cl, rest)
  BY <1>1, <1>2 DEF Safe, Names, Apart
<1>7. sk[n].p \notin Held(cl, rest)
  BY <1>1, <1>2 DEF Safe, Apart, Held, RowsOf
<1>8. Safe(H, cl, rest)
  BY <1>2, <1>5, <1>6 DEF Safe, Operand
<1>9. QED
  BY <1>0, <1>1, <1>3, <1>7, <1>8 DEF Below

(* A sequence with one more at its end. *)
LEMMA OneAppended ==
  ASSUME NEW S, NEW s \in Seq(S), NEW x \in S, NEW t, t = Append(s, x)
  PROVE  /\ t \in Seq(S) /\ Len(s) \in Nat /\ DOMAIN s = 1 .. Len(s) /\ DOMAIN t = 1 .. Len(s) + 1
         /\ t[Len(s) + 1] = x /\ \A i \in 1 .. Len(s) : t[i] = s[i]
OBVIOUS

(* A new operand, a row or a name of a part of a variable. *)
LEMMA Pushes ==
  ASSUME NEW H, NEW cl, NEW sk, Safe(H, cl, sk), NEW G, NEW nd, NEW ns,
         Does(H, G, Held(cl, sk), Declared(cl, Var), None, None, nd, ns), NEW x \in Operand,
         x.p \in DOMAIN G.d \ DOMAIN H.d, x.k = "row" => Plain(G, x.p) /\ Fresh(G, x.p),
         x.k = "name" => G.d[x.p].base \in DescAddr, NEW t, t = Append(sk, x)
  PROVE  Safe(G, cl, t)
<1>1. sk \in Seq(Operand) /\ Safe(G, cl, sk)
  <2>1. Safe(G, cl, sk)
    BY Stays DEF None
  <2>2. QED
    BY <2>1 DEF Safe, Operand
<1>2. PICK n : n = Len(sk)
  OBVIOUS
<1>3. /\ t \in Seq(Operand) /\ n \in Nat /\ DOMAIN sk = 1 .. n /\ DOMAIN t = 1 .. n + 1
      /\ t[n + 1] = x /\ \A i \in 1 .. n : t[i] = sk[i]
  BY <1>1, <1>2, OneAppended
<1>4. \A i \in DOMAIN t : i \in 1 .. n \/ i = n + 1
  BY <1>3
<1>5. x.p \notin Held(cl, sk) /\ x.p \notin Declared(cl, Cell) /\ \A i \in 1 .. n : sk[i].p # x.p
  <2>1. \A r \in Held(cl, sk) : r \in DOMAIN H.d
    BY DEF Safe, Good, Plain
  <2>2. \A i \in 1 .. n : sk[i].p \in DOMAIN H.d
    BY <1>3, HeldIn
  <2>3. QED
    BY <2>1, <2>2 DEF Held
<1>6. \A r \in Held(cl, t) : r \in Held(cl, sk) \/ (Plain(G, r) /\ Fresh(G, r))
  <2>1. SUFFICES ASSUME NEW i \in DOMAIN t, t[i].k = "row"
                 PROVE  t[i].p \in Held(cl, sk) \/ (Plain(G, t[i].p) /\ Fresh(G, t[i].p))
    BY DEF Held, RowsOf
  <2>2. CASE i \in 1 .. n
    BY <1>3, <2>1, <2>2 DEF Held, RowsOf
  <2>3. CASE i = n + 1
    BY <1>3, <2>1, <2>3
  <2>4. QED
    BY <1>4, <2>2, <2>3
<1>7. Declared(cl, Var) \subseteq Held(cl, t)
  BY Cells DEF Held, Declared
<1>8. Good(G, Held(cl, t), Declared(cl, Var), None)
  BY <1>1, <1>6, <1>7, HoldOthers DEF Safe
<1>9. Names(G, t)
  <2>1. Names(G, sk)
    BY <1>1 DEF Safe
  <2>2. QED
    BY <1>3, <1>4, <2>1 DEF Names
<1>10. Apart(cl, t)
  <2>1. Apart(cl, sk)
    BY <1>1 DEF Safe
  <2>2. ASSUME NEW i \in DOMAIN t, NEW j \in DOMAIN t, i # j PROVE t[i].p # t[j].p
    BY <1>3, <1>4, <1>5, <2>1, <2>2 DEF Apart
  <2>3. \A i \in DOMAIN t : t[i].p \notin Declared(cl, Cell)
    BY <1>3, <1>4, <1>5, <2>1 DEF Apart
  <2>4. QED
    BY <2>1, <2>2, <2>3 DEF Apart
<1>11. QED
  BY <1>1, <1>3, <1>8, <1>9, <1>10 DEF Safe, Operand

(* A row new to the program is put in a cell, a variable's once. *)
LEMMA Binds ==
  ASSUME NEW H, NEW cl, NEW sk, Safe(H, cl, sk), NEW G, NEW nd, NEW ns,
         Does(H, G, Held(cl, sk), Declared(cl, Var), None, None, nd, ns), NEW c \in Cell,
         c \in Var => cl[c] = Nil, NEW r \in DOMAIN G.d \ DOMAIN H.d, Plain(G, r), Fresh(G, r),
         Fits(G, c, r), NEW cn, cn = [cl EXCEPT ![c] = r]
  PROVE  Safe(G, cn, sk)
<1>1. Safe(G, cl, sk) /\ r \in DescAddr /\ r # Nil
  <2>1. Safe(G, cl, sk)
    BY Stays DEF None
  <2>2. QED
    BY <2>1, Addresses DEF Safe, Good, Shape
<1>2. /\ cl \in [Cell -> DescAddr \cup {Nil}] /\ cn \in [Cell -> DescAddr \cup {Nil}]
      /\ cn[c] = r /\ \A b \in Cell : b # c => cn[b] = cl[b]
  BY <1>1 DEF Safe
<1>3. /\ \A b \in Cell : cl[b] # Nil => cl[b] \in DOMAIN H.d
      /\ \A i \in DOMAIN sk : sk[i].p \in DOMAIN H.d
  BY HeldIn DEF Plain
<1>4. \A q \in Held(cn, sk) : q \in Held(cl, sk) \/ q = r
  BY <1>2 DEF Held, Declared
<1>5. Declared(cl, Var) \subseteq Declared(cn, Var) /\ Declared(cn, Var) \subseteq Held(cn, sk)
  <2>1. Declared(cl, Var) \subseteq Declared(cn, Var)
    BY <1>2, Cells DEF Declared
  <2>2. QED
    BY <2>1, Cells DEF Held, Declared
<1>6. Good(G, Held(cn, sk), Declared(cn, Var), None)
  BY <1>1, <1>4, <1>5, HoldOthers DEF Safe
<1>7. Apart(cn, sk)
  <2>1. Apart(cl, sk)
    BY <1>1 DEF Safe
  <2>2. \A i \in DOMAIN sk : sk[i].p \notin Declared(cn, Cell)
    BY <1>2, <1>3, <2>1 DEF Apart, Declared
  <2>3. ASSUME NEW b \in Cell, NEW d \in Cell, cn[b] = cn[d], cn[b] # Nil PROVE b = d
    BY <1>2, <1>3, <2>1, <2>3 DEF Apart
  <2>4. QED
    BY <2>1, <2>2, <2>3 DEF Apart
<1>8. \A b \in Cell : cn[b] # Nil => Fits(G, b, cn[b])
  BY <1>1, <1>2 DEF Safe
<1>9. QED
  BY <1>1, <1>2, <1>6, <1>7, <1>8 DEF Safe

-----------------------------------------------------------------------------
(* New rows. *)

(* a store of the elements e may be made *)
MayMake(H, C, e, leaf) ==
  /\ e \in Seq(Value) /\ Len(e) \in 0 .. prog.len /\ leaf \in BOOLEAN
  /\ leaf => \A i \in DOMAIN e : leaf_accepts(e[i])
  /\ \A i \in DOMAIN e : Elem(H, C, None, e[i])

(* the new row of the elements e *)
Made(H, G, k, st, e, leaf) ==
  /\ k \in DOMAIN G.d \ DOMAIN H.d /\ st \in DOMAIN G.s \ DOMAIN H.s
  /\ G.d[k] = [base |-> st, off |-> 0, n |-> Len(e), pad2 |-> FALSE]
  /\ G.s[st] = [leaf |-> leaf, rc |-> 1, e |-> e]
  /\ Extends(H, G) /\ Plain(G, k) /\ Fresh(G, k)

(* a store st of scalars, or one that is still to be filled, if it is in P *)
MayFill(P, st, e) == P \in {None, {st}} /\ (st \in P \/ \A i \in DOMAIN e : ~IsRow(e[i]))

(* A new row, all of scalars or of rows unless its store is still to be filled. *)
LEMMA MakeRow ==
  ASSUME NEW H, NEW C, NEW V, Good(H, C, V, None), prog \in Programs, NEW e, NEW leaf,
         MayMake(H, C, e, leaf), FreeD(H) > 0, FreeS(H) > 0, NEW k, k = NextDesc(H),
         NEW st, st = NextStore(H), NEW P, MayFill(P, st, e),
         NEW G, G = NewRow(H, e, leaf)
  PROVE  Made(H, G, k, st, e, leaf) /\ Does(H, G, C, V, P, None, 1, 1)
<1>1. PICK x : x = [leaf |-> leaf, rc |-> 1, e |-> e]
  OBVIOUS
<1>2. PICK y : y = [base |-> st, off |-> 0, n |-> Len(e), pad2 |-> FALSE]
  OBVIOUS
<1>3. PICK K : K = store_alloc(H, x)
  OBVIOUS
<1>4. G = rowd_alloc(K, y)
  BY <1>1, <1>2, <1>3 DEF NewRow
<1>5. /\ e \in Seq(Value) /\ Len(e) \in 0 .. prog.len /\ leaf \in BOOLEAN /\ Len(e) \in Nat
      /\ leaf => \A i \in DOMAIN e : leaf_accepts(e[i])
      /\ \A i \in DOMAIN e : Elem(H, C, None, e[i])
  BY DEF MayMake
<1>6. x \in Store /\ x.e = e /\ x.leaf = leaf
  BY <1>1, <1>5, Sizes DEF Store
<1>7. Sound(H, C, None, x)
  <2>1. Len(e) <= MaxLen + Spare
    <3>1. prog.len \in 1 .. MaxLen /\ MaxLen \in Nat /\ Spare \in Nat
      BY Sizes
    <3>2. QED
      BY <1>5, <3>1
  <2>2. QED
    BY <1>5, <1>6, <2>1 DEF Sound
<1>8. /\ st \in StoreAddr \ DOMAIN H.s /\ DOMAIN K.s = DOMAIN H.s \cup {st} /\ K.s[st] = x
      /\ K.d = H.d /\ \A t \in DOMAIN H.s : K.s[t] = H.s[t]
      /\ Does(H, K, C, V, P, None, 0, 1)
  <2>1. None \subseteq P /\ P \subseteq None \cup {st}
    BY DEF None, MayFill
  <2>2. st \notin P => Scalars(x) \/ Rows(x)
    BY <1>6 DEF Scalars, MayFill
  <2>3. QED
    BY <1>3, <1>6, <1>7, <2>1, <2>2, AddStore
<1>9. Good(K, C, V, P) /\ Shape(H) /\ Shape(K)
  BY <1>8 DEF Does, Good
<1>10. k = NextDesc(K) /\ FreeD(K) > 0
  BY <1>8 DEF NextDesc, FreeD
<1>11. y \in Desc /\ Inside(K, y)
  <2>1. y \in Desc
    BY <1>2, <1>5, <1>8 DEF Desc
  <2>2. Inside(K, y)
    BY <1>2, <1>5, <1>6, <1>8 DEF Inside
  <2>3. QED
    BY <2>1, <2>2
<1>12. /\ k \in DescAddr \ DOMAIN K.d /\ DOMAIN G.d = DOMAIN K.d \cup {k} /\ G.d[k] = y
       /\ G.s = K.s /\ \A r \in DOMAIN K.d : G.d[r] = K.d[r]
       /\ Does(K, G, C, V, P, None, 1, 0)
  BY <1>4, <1>9, <1>10, <1>11, AddDesc
<1>13. Does(H, G, C, V, P, None, 0 + 1, 1 + 0)
  BY <1>8, <1>9, <1>12, DoesBoth
<1>14. Extends(H, G)
  BY <1>8, <1>12 DEF Extends
<1>15. Plain(G, k)
  BY <1>11, <1>12 DEF Plain, Inside
<1>16. Fresh(G, k)
  <2>1. ASSUME NEW t \in DOMAIN G.s, NEW i \in DOMAIN G.s[t].e PROVE G.s[t].e[i] # k
    <3>1. Sound(K, C, P, K.s[t])
      BY <1>9, <1>12, <2>1 DEF Good
    <3>2. Elem(K, C, P, G.s[t].e[i])
      BY <1>12, <2>1, <3>1 DEF Sound
    <3>3. QED
      BY <1>12, <3>2 DEF Elem, Plain, IsRow
  <2>2. QED
    BY <2>1 DEF Fresh
<1>17. Made(H, G, k, st, e, leaf)
  BY <1>1, <1>2, <1>8, <1>12, <1>14, <1>15, <1>16 DEF Made
<1>18. 0 + 1 = 1 /\ 1 + 0 = 1
  OBVIOUS
<1>19. QED
  BY <1>13, <1>17, <1>18

=============================================================================
