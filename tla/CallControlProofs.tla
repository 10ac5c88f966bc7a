-------------------------- MODULE CallControlProofs --------------------------
(****************************************************************************)
(* Theorems about CallControl, for every program that NoReentry and         *)
(* EventsJumpFree hold of: its inductive invariant, what pushing and        *)
(* popping a call, entering a block and landing in one do to each of its    *)
(* parts, and that each step keeps it.                                      *)
(****************************************************************************)
EXTENDS CallControl, FiniteSetTheorems, TLAPS

-----------------------------------------------------------------------------
(* The inductive invariant.  Its parts are stated of a stack of calls a, an environment e,
   saved environments sv, an operand stack s and catches io, so that a return, which the
   program does once or twice in a step, is one lemma. *)

Closure == [fn : Fn, env : Seq(Frames)]
Depths  == [l : Label, e : Nat, s : Nat]
Calls   == [fn : Fn \cup {Prelude}, kind : {"boxed", "plain", "prelude"},
            arg : Closure \cup {NoArg}, base : Nat, blocks : Seq(Depths), checked : BOOLEAN]

Typed(a, e, sv, s, io) ==
  /\ a \in Seq(Calls) /\ Len(a) \in 1 .. MaxActs
  /\ e \in Seq(Frames) /\ sv \in Seq(Seq(Frames)) /\ s \in Seq(1 .. MaxActs)
  /\ io \in Seq([sp0 : Nat, env0 : Nat])

(* which calls are made from which *)
Kinds(a) ==
  /\ a[1].kind = "boxed"
  /\ \A k \in DOMAIN a :
       /\ a[k].kind = "prelude" <=> a[k].fn = Prelude
       /\ a[k].kind = "prelude" => a[k].blocks = <<>> /\ a[k].arg # NoArg
       /\ a[k].kind = "prelude" /\ k < Len(a) => a[k + 1].kind = "boxed"

(* one saved environment for each boxed call but the first, one catch for each procedure *)
Counts(a, sv, io) ==
  /\ Len(sv) = Boxed(a, Len(a)) /\ Len(io) = Catches(a, Len(a))
  /\ \A k \in DOMAIN a : a[k].kind = "prelude" =>
       io[Catches(a, k)] = [sp0 |-> a[k].base, env0 |-> Boxed(a, k)]

(* the operands of the calls and of their blocks lie one above the other *)
Above(a, s, k) ==
  IF k = Len(a) THEN Len(s)
  ELSE IF a[k + 1].kind = "prelude" THEN a[k + 1].base - 1 ELSE a[k + 1].base
HeightsAt(x, h) ==
  /\ x.base <= h
  /\ \A i \in DOMAIN x.blocks :
       /\ x.base <= x.blocks[i].s /\ x.blocks[i].s <= h
       /\ \A j \in 1 .. i : x.blocks[j].s <= x.blocks[i].s
Heights(a, s) == \A k \in DOMAIN a : HeightsAt(a[k], Above(a, s, k))

(* of call k, and c its environment: a block's frame is where the depth it noted says, its
   frames are below those of the calls above, and its blocks' frames follow one another *)
NotedAt(x, k, c) ==
  \A i \in DOMAIN x.blocks :
    LET y == x.blocks[i]
    IN /\ LabelFn[y.l] = x.fn
       /\ y.e + 1 \in DOMAIN c /\ c[y.e + 1] = [a |-> k, b |-> y.l]
       /\ \A j \in 1 .. y.e : c[j].a <= k
       /\ i = Len(x.blocks) => \A j \in DOMAIN c : j > y.e + 1 => c[j].a > k
       /\ \A j \in DOMAIN x.blocks : /\ x.blocks[j].e = y.e + j - i
                                     /\ x.blocks[j].l = y.l => j = i
Noted(a, e, sv) == \A k \in DOMAIN a : NotedAt(a[k], k, Chain(a, e, sv, k))

(* a call's blocks are the only frames it has put on its environment, but for that of its
   parameters *)
PlacedAt(x, k, c) ==
  \A j \in DOMAIN c : c[j].a = k /\ c[j].b # NoFrame =>
    \E i \in DOMAIN x.blocks : x.blocks[i].l = c[j].b /\ x.blocks[i].e + 1 = j
Placed(a, e, sv) == \A k \in DOMAIN a : PlacedAt(a[k], k, Chain(a, e, sv, k))

(* the frames of calls in progress are those of their blocks and parameters; only the
   environment in effect can hold others, while a jump is pending *)
Owned(a, x) ==
  IF x.b = NoFrame THEN a[x.a].kind = "boxed"
  ELSE \E i \in DOMAIN a[x.a].blocks : a[x.a].blocks[i].l = x.b
Live(a, e, sv) ==
  /\ \A j \in DOMAIN e : e[j].a \in 1 .. Len(a) => Owned(a, e[j])
  /\ \A d \in DOMAIN sv : \A j \in DOMAIN sv[d] :
       /\ sv[d][j].a \in 1 .. Len(a) /\ Owned(a, sv[d][j])
       /\ Boxed(a, sv[d][j].a) < d
  /\ \A k \in DOMAIN a : a[k].arg # NoArg =>
       \A j \in DOMAIN a[k].arg.env :
         a[k].arg.env[j].a \in 1 .. k - 1 /\ Owned(a, a[k].arg.env[j])
Fresh(a, e) == \A j \in DOMAIN e : e[j].a \in 1 .. Len(a)

Core(a, e, sv, s, io) ==
  /\ Typed(a, e, sv, s, io) /\ Kinds(a) /\ Counts(a, sv, io) /\ Heights(a, s)
  /\ Noted(a, e, sv) /\ Placed(a, e, sv) /\ Live(a, e, sv)

(* what may come to run inside what *)
Runs(x) == IF x.kind = "prelude" THEN x.arg.fn ELSE x.fn
Within(a) ==
  /\ \A k \in DOMAIN a : a[k].kind # "prelude" /\ a[k].arg # NoArg =>
       \E g \in Fn : a[k].arg.fn \in Text[g].passes
  /\ \A k \in DOMAIN a : \A j \in 1 .. k - 1 :
       a[j].kind # "prelude" => Runs(a[k]) \in Extent(a[j].fn)
Quiet(a) ==
  \A k \in DOMAIN a : ~a[k].checked => \A j \in k .. Len(a) : Runs(a[j]) \in jumpFreeSet

(* a pending jump has a block below to land in, and nothing but tests of the flag on the way *)
Pending(a) ==
  /\ mode = "check" /\ jump_flag \in Label /\ JumpedInto(jump_flag)
  /\ a[Len(a)].kind # "prelude"
  /\ \A k \in DOMAIN a : a[k].checked
  /\ \E k \in DOMAIN a : \E i \in DOMAIN a[k].blocks : a[k].blocks[i].l = jump_flag

ControlInv ==
  /\ Core(acts, env, saved, stack, io_top) /\ Within(acts) /\ Quiet(acts)
  /\ mode \in {"run", "check"}
  /\ IF jump_flag = NoArg THEN Fresh(acts, env) ELSE Pending(acts)
-----------------------------------------------------------------------------
(* Counting the calls in progress. *)

(* A set of positions can be counted. *)
LEMMA PartOfInterval ==
  ASSUME NEW m \in Nat, NEW k \in Nat, NEW T, T \subseteq m .. k
  PROVE  IsFiniteSet(T) /\ Cardinality(T) \in Nat
<1>1. IsFiniteSet(m .. k)
  BY FS_Interval
<1>2. IsFiniteSet(T)
  BY <1>1, FS_Subset
<1>3. QED
  BY <1>2, FS_CardinalityType

(* The count over one more call. *)
LEMMA BoxedNext ==
  ASSUME NEW a, NEW k \in Nat \ {0}
  PROVE  /\ Boxed(a, k) \in Nat
         /\ Boxed(a, k + 1) = Boxed(a, k) + (IF a[k + 1].kind = "boxed" THEN 1 ELSE 0)
<1> DEFINE S(j) == {i \in 2 .. j : a[i].kind = "boxed"}
<1>1. IsFiniteSet(S(k)) /\ Cardinality(S(k)) \in Nat
  BY PartOfInterval
<1>2. S(k + 1) = IF a[k + 1].kind = "boxed" THEN S(k) \cup {k + 1} ELSE S(k)
  OBVIOUS
<1>3. k + 1 \notin S(k)
  OBVIOUS
<1>4. Boxed(a, k) = Cardinality(S(k)) /\ Boxed(a, k + 1) = Cardinality(S(k + 1))
  BY DEF Boxed
<1>5. IsFiniteSet(S(k)) => Cardinality(S(k) \cup {k + 1}) = Cardinality(S(k)) + 1
  BY <1>3, FS_AddElement
<1> HIDE DEF S
<1>6. QED
  BY <1>1, <1>2, <1>4, <1>5

(* the catches among the first k + 1 calls *)
LEMMA CatchesNext ==
  ASSUME NEW a, NEW k \in Nat \ {0}
  PROVE  /\ Catches(a, k) \in Nat
         /\ Catches(a, k + 1) = Catches(a, k) + (IF a[k + 1].kind = "prelude" THEN 1 ELSE 0)
<1> DEFINE S(j) == {i \in 1 .. j : a[i].kind = "prelude"}
<1>1. IsFiniteSet(S(k)) /\ Cardinality(S(k)) \in Nat
  BY PartOfInterval
<1>2. S(k + 1) = IF a[k + 1].kind = "prelude" THEN S(k) \cup {k + 1} ELSE S(k)
  OBVIOUS
<1>3. k + 1 \notin S(k)
  OBVIOUS
<1>4. Catches(a, k) = Cardinality(S(k)) /\ Catches(a, k + 1) = Cardinality(S(k + 1))
  BY DEF Catches
<1>5. IsFiniteSet(S(k)) => Cardinality(S(k) \cup {k + 1}) = Cardinality(S(k)) + 1
  BY <1>3, FS_AddElement
<1> HIDE DEF S
<1>6. QED
  BY <1>1, <1>2, <1>4, <1>5

(* Calls further out have saved no more environments, and passed no more catches. *)
LEMMA CountsGrow ==
  ASSUME NEW a, NEW k \in Nat \ {0}, NEW j \in 1 .. k
  PROVE  Boxed(a, j) <= Boxed(a, k) /\ Catches(a, j) <= Catches(a, k)
<1> DEFINE B(i) == {n \in 2 .. i : a[n].kind = "boxed"}
           C(i) == {n \in 1 .. i : a[n].kind = "prelude"}
<1>1. IsFiniteSet(B(k)) /\ IsFiniteSet(C(k))
  BY PartOfInterval
<1>2. B(j) \in SUBSET B(k) /\ C(j) \in SUBSET C(k)
  OBVIOUS
<1>3. Cardinality(B(j)) <= Cardinality(B(k)) /\ Cardinality(C(j)) <= Cardinality(C(k))
  <2> HIDE DEF B, C
  <2>1. QED
    BY <1>1, <1>2, FS_Subset
<1>4. QED
  BY <1>3 DEF Boxed, Catches

(* A boxed call has saved one environment more than those further out. *)
LEMMA BoxedAbove ==
  ASSUME NEW a, NEW k \in Nat \ {0}, k > 1, a[k].kind = "boxed", NEW j \in 1 .. k - 1
  PROVE  Boxed(a, j) < Boxed(a, k)
<1>1. k - 1 \in Nat \ {0} /\ (k - 1) + 1 = k
  OBVIOUS
<1>2. Boxed(a, k) = Boxed(a, k - 1) + 1 /\ Boxed(a, k - 1) \in Nat
  BY <1>1, BoxedNext
<1>3. Boxed(a, j) <= Boxed(a, k - 1) /\ Boxed(a, j) \in Nat
  BY <1>1, CountsGrow, BoxedNext
<1>4. QED
  BY <1>2, <1>3

(* Only the kinds of the calls count. *)
LEMMA SameCounts ==
  ASSUME NEW a, NEW b, NEW k \in Nat, \A i \in 1 .. k : a[i].kind = b[i].kind
  PROVE  Boxed(a, k) = Boxed(b, k) /\ Catches(a, k) = Catches(b, k)
<1>1. {i \in 2 .. k : a[i].kind = "boxed"} = {i \in 2 .. k : b[i].kind = "boxed"}
  OBVIOUS
<1>2. {i \in 1 .. k : a[i].kind = "prelude"} = {i \in 1 .. k : b[i].kind = "prelude"}
  OBVIOUS
<1>3. QED
  BY <1>1, <1>2 DEF Boxed, Catches

(* Calls are counted up to the last one; the calls in progress have one saved environment
   for each. *)
LEMMA CountsBound ==
  ASSUME NEW a, NEW e, NEW sv, NEW s, NEW io, Core(a, e, sv, s, io)
  PROVE  \A k \in DOMAIN a : /\ Boxed(a, k) \in 0 .. Len(sv)
                             /\ Catches(a, k) \in 0 .. Len(io)
<1>1. /\ Len(a) \in Nat \ {0} /\ DOMAIN a = 1 .. Len(a)
      /\ Len(sv) = Boxed(a, Len(a)) /\ Len(io) = Catches(a, Len(a))
      /\ Len(sv) \in Nat /\ Len(io) \in Nat
  BY Bounds DEF Core, Typed, Counts
<1>2. ASSUME NEW k \in DOMAIN a
      PROVE  Boxed(a, k) \in 0 .. Len(sv) /\ Catches(a, k) \in 0 .. Len(io)
  <2>1. k \in Nat \ {0} /\ k \in 1 .. Len(a)
    BY <1>1
  <2>2. Boxed(a, k) \in Nat /\ Catches(a, k) \in Nat
    BY <2>1, BoxedNext, CatchesNext
  <2>3. Boxed(a, k) <= Boxed(a, Len(a)) /\ Catches(a, k) <= Catches(a, Len(a))
    BY <1>1, <2>1, CountsGrow
  <2>4. QED
    BY <1>1, <2>2, <2>3
<1>3. QED
  BY <1>2

-----------------------------------------------------------------------------
(* Calls. *)

(* t is s with x at its end *)
Longer(s, x, t) ==
  /\ Len(t) = Len(s) + 1 /\ DOMAIN t = 1 .. Len(s) + 1 /\ DOMAIN s = 1 .. Len(s)
  /\ t[Len(s) + 1] = x /\ \A k \in 1 .. Len(s) : t[k] = s[k]

(* Append as Longer *)
LEMMA Appended ==
  ASSUME NEW S, NEW s \in Seq(S), NEW x \in S
  PROVE  Append(s, x) \in Seq(S) /\ Longer(s, x, Append(s, x))
BY DEF Longer

(* One more call in progress: what is counted of the others is as it was. *)
LEMMA Pushed ==
  ASSUME NEW a, Len(a) \in Nat \ {0}, NEW x, NEW b, Longer(a, x, b)
  PROVE  /\ \A k \in 1 .. Len(a) : Boxed(b, k) = Boxed(a, k) /\ Catches(b, k) = Catches(a, k)
         /\ Boxed(b, Len(a) + 1) = Boxed(a, Len(a)) + (IF x.kind = "boxed" THEN 1 ELSE 0)
         /\ Catches(b, Len(a) + 1) = Catches(a, Len(a)) + (IF x.kind = "prelude" THEN 1 ELSE 0)
<1>1. ASSUME NEW k \in 1 .. Len(a)
      PROVE  Boxed(b, k) = Boxed(a, k) /\ Catches(b, k) = Catches(a, k)
  <2>1. \A i \in 1 .. k : b[i].kind = a[i].kind
    BY DEF Longer
  <2>2. k \in Nat
    OBVIOUS
  <2>3. QED
    BY <2>1, <2>2, SameCounts
<1>2. /\ Boxed(b, Len(a) + 1) = Boxed(b, Len(a)) + (IF x.kind = "boxed" THEN 1 ELSE 0)
      /\ Catches(b, Len(a) + 1) = Catches(b, Len(a)) + (IF x.kind = "prelude" THEN 1 ELSE 0)
  BY BoxedNext, CatchesNext DEF Longer
<1>3. QED
  BY <1>1, <1>2

(* an environment a call in progress can hand on: all its frames are of calls in progress *)
Sees(a, c) == \A j \in DOMAIN c : c[j].a \in 1 .. Len(a) /\ Owned(a, c[j])

(* A call of a boxed routine, compiled or from io_call_handler. *)
LEMMA PushBoxed ==
  ASSUME NEW a, NEW e, NEW sv, NEW s, NEW io, Core(a, e, sv, s, io), Fresh(a, e),
         NEW y \in Calls, y.kind = "boxed", y.fn \in Fn, y.blocks = <<>>, y.base = Len(s),
         y.arg # NoArg => Sees(a, y.arg.env),
         NEW c, Sees(a, c), DOMAIN c = 1 .. Len(c), Len(c) \in Nat,
         NEW b, Longer(a, y, b), NEW tv, Longer(sv, e, tv),
         NEW ce, Longer(c, [a |-> Len(a) + 1, b |-> NoFrame], ce),
         Typed(b, ce, tv, s, io)
  PROVE  Core(b, ce, tv, s, io) /\ Fresh(b, ce)
<1>1. /\ Len(a) \in Nat \ {0} /\ Len(b) = Len(a) + 1 /\ DOMAIN a = 1 .. Len(a)
      /\ DOMAIN b = 1 .. Len(a) + 1
      /\ b[Len(a) + 1] = y /\ \A k \in 1 .. Len(a) : b[k] = a[k]
  BY DEF Longer, Core, Typed
<1>2. /\ \A k \in 1 .. Len(a) : Boxed(b, k) = Boxed(a, k) /\ Catches(b, k) = Catches(a, k)
      /\ Boxed(b, Len(a) + 1) = Boxed(a, Len(a)) + 1
      /\ Catches(b, Len(a) + 1) = Catches(a, Len(a))
  <2>1. /\ Boxed(a, Len(a)) \in Nat /\ Catches(a, Len(a)) \in Nat
    BY <1>1, BoxedNext, CatchesNext
  <2>2. /\ \A k \in 1 .. Len(a) : Boxed(b, k) = Boxed(a, k) /\ Catches(b, k) = Catches(a, k)
        /\ Boxed(b, Len(a) + 1) = Boxed(a, Len(a)) + (IF y.kind = "boxed" THEN 1 ELSE 0)
        /\ Catches(b, Len(a) + 1) = Catches(a, Len(a)) + (IF y.kind = "prelude" THEN 1 ELSE 0)
    BY <1>1, Pushed
  <2>3. QED
    BY <2>1, <2>2
<1>3. /\ \A k \in 1 .. Len(a) : Boxed(a, k) \in 0 .. Len(sv) /\ Catches(a, k) \in 0 .. Len(io)
      /\ Len(sv) \in Nat /\ Len(io) \in Nat
  BY <1>1, CountsBound DEF Core, Typed
<1>4. /\ Len(sv) = Boxed(a, Len(a)) /\ Len(io) = Catches(a, Len(a))
  BY DEF Core, Counts
<1>5. /\ Len(tv) = Len(sv) + 1 /\ DOMAIN tv = 1 .. Len(sv) + 1 /\ tv[Len(sv) + 1] = e
      /\ \A d \in 1 .. Len(sv) : tv[d] = sv[d]
  BY DEF Longer
<1>6. Kinds(b)
  BY <1>1, Program, SMTT(60) DEF Core, Kinds
<1>7. Counts(b, tv, io)
  BY <1>1, <1>2, <1>3, <1>4, <1>5 DEF Core, Counts
<1>8. Heights(b, s)
  BY <1>1, SMTT(60) DEF Core, Heights, HeightsAt, Above, Kinds
<1>9. ASSUME NEW k \in 1 .. Len(a) PROVE Chain(b, ce, tv, k) = Chain(a, e, sv, k)
  <2>1. Boxed(b, k) = Boxed(a, k) /\ Boxed(a, k) \in 0 .. Len(sv)
    BY <1>2, <1>3
  <2>2. PICK x : x = Boxed(a, k)
    OBVIOUS
  <2>3. Chain(b, ce, tv, k) = tv[x + 1]
    BY <1>3, <1>5, <2>1, <2>2 DEF Chain
  <2>4. x = Len(sv) \/ x + 1 \in 1 .. Len(sv)
    BY <1>3, <2>1, <2>2
  <2>5. tv[x + 1] = IF x = Len(sv) THEN e ELSE sv[x + 1]
    BY <1>3, <1>5, <2>4
  <2>6. QED
    BY <2>2, <2>3, <2>5 DEF Chain
<1>10. Noted(b, ce, tv)
  <2>1. \A k \in 1 .. Len(a) : NotedAt(b[k], k, Chain(b, ce, tv, k))
    BY <1>1, <1>9 DEF Core, Noted
  <2>2. NotedAt(b[Len(a) + 1], Len(a) + 1, Chain(b, ce, tv, Len(a) + 1))
    BY <1>1 DEF NotedAt
  <2>3. QED
    BY <1>1, <2>1, <2>2 DEF Noted
<1>11. Chain(b, ce, tv, Len(a) + 1) = ce
  BY <1>2, <1>4, <1>5 DEF Chain
<1>12. /\ DOMAIN ce = 1 .. Len(c) + 1
       /\ ce[Len(c) + 1] = [a |-> Len(a) + 1, b |-> NoFrame]
       /\ \A j \in 1 .. Len(c) : ce[j] = c[j]
  BY DEF Longer
<1>13. Placed(b, ce, tv)
  BY <1>1, <1>9, <1>11, <1>12 DEF Core, Placed, PlacedAt, Sees
<1>14. \A z : z.a \in 1 .. Len(a) /\ Owned(a, z) => Owned(b, z) /\ Boxed(b, z.a) = Boxed(a, z.a)
  BY <1>1, <1>2 DEF Owned
<1>15. Live(b, ce, tv)
  <2>1. \A j \in DOMAIN ce : ce[j].a \in 1 .. Len(b) => Owned(b, ce[j])
    <3>1. \A j \in 1 .. Len(c) : Owned(b, ce[j])
      BY <1>12, <1>14 DEF Sees
    <3>2. Owned(b, ce[Len(c) + 1])
      BY <1>1, <1>12 DEF Owned
    <3>3. QED
      BY <1>12, <3>1, <3>2
  <2>2. ASSUME NEW d \in DOMAIN tv, NEW j \in DOMAIN tv[d]
        PROVE  /\ tv[d][j].a \in 1 .. Len(b) /\ Owned(b, tv[d][j])
               /\ Boxed(b, tv[d][j].a) < d
    <3>1. CASE d \in 1 .. Len(sv)
      BY <1>1, <1>5, <1>14, <3>1 DEF Core, Live
    <3>2. CASE d = Len(sv) + 1
      BY <1>1, <1>3, <1>5, <1>14, <3>2 DEF Core, Live, Fresh
    <3>3. QED
      BY <1>5, <3>1, <3>2
  <2>3. ASSUME NEW k \in DOMAIN b, b[k].arg # NoArg, NEW j \in DOMAIN b[k].arg.env
        PROVE  b[k].arg.env[j].a \in 1 .. k - 1 /\ Owned(b, b[k].arg.env[j])
    <3>1. CASE k \in 1 .. Len(a)
      BY <1>1, <1>14, <2>3, <3>1 DEF Core, Live
    <3>2. CASE k = Len(a) + 1
      BY <1>1, <1>14, <2>3, <3>2 DEF Sees
    <3>3. QED
      BY <1>1, <3>1, <3>2
  <2>4. QED
    BY <2>1, <2>2, <2>3 DEF Live
<1>16. Fresh(b, ce)
  BY <1>1, <1>12 DEF Fresh, Sees
<1>17. QED
  BY <1>6, <1>7, <1>8, <1>10, <1>13, <1>15, <1>16 DEF Core

(* A plain call, and a standard procedure with its catch and its argument: the environment
   stays. *)
LEMMA PushHere ==
  ASSUME NEW a, NEW e, NEW sv, NEW s, NEW io, Core(a, e, sv, s, io), Fresh(a, e),
         a[Len(a)].kind # "prelude",
         NEW y \in Calls, y.kind # "boxed", y.blocks = <<>>, y.kind = "prelude" <=> y.fn = Prelude,
         y.arg # NoArg => Sees(a, y.arg.env),
         NEW b, Longer(a, y, b), NEW t, NEW jo, Typed(b, e, sv, t, jo),
         \/ y.kind = "plain" /\ t = s /\ jo = io /\ y.base = Len(s)
         \/ /\ y.kind = "prelude" /\ y.arg # NoArg
            /\ y.base = Len(s) + 1 /\ Len(t) = Len(s) + 1
            /\ Longer(io, [sp0 |-> Len(s) + 1, env0 |-> Len(sv)], jo)
  PROVE  Core(b, e, sv, t, jo) /\ Fresh(b, e)
<1>1. /\ Len(a) \in Nat \ {0} /\ Len(b) = Len(a) + 1 /\ DOMAIN a = 1 .. Len(a)
      /\ DOMAIN b = 1 .. Len(a) + 1
      /\ b[Len(a) + 1] = y /\ \A k \in 1 .. Len(a) : b[k] = a[k]
  BY DEF Longer, Core, Typed
<1>2. /\ \A k \in 1 .. Len(a) : Boxed(b, k) = Boxed(a, k) /\ Catches(b, k) = Catches(a, k)
      /\ Boxed(b, Len(a) + 1) = Boxed(a, Len(a))
      /\ Catches(b, Len(a) + 1) = Catches(a, Len(a)) + (IF y.kind = "prelude" THEN 1 ELSE 0)
  <2>1. /\ Boxed(a, Len(a)) \in Nat /\ Catches(a, Len(a)) \in Nat
    BY <1>1, BoxedNext, CatchesNext
  <2>2. /\ \A k \in 1 .. Len(a) : Boxed(b, k) = Boxed(a, k) /\ Catches(b, k) = Catches(a, k)
        /\ Boxed(b, Len(a) + 1) = Boxed(a, Len(a)) + (IF y.kind = "boxed" THEN 1 ELSE 0)
        /\ Catches(b, Len(a) + 1) = Catches(a, Len(a)) + (IF y.kind = "prelude" THEN 1 ELSE 0)
    BY <1>1, Pushed
  <2>3. QED
    BY <2>1, <2>2
<1>3. /\ \A k \in 1 .. Len(a) : Boxed(a, k) \in 0 .. Len(sv) /\ Catches(a, k) \in 0 .. Len(io)
      /\ Len(sv) \in Nat /\ Len(io) \in Nat /\ Len(s) \in Nat
  BY <1>1, CountsBound DEF Core, Typed
<1>4. /\ Len(sv) = Boxed(a, Len(a)) /\ Len(io) = Catches(a, Len(a))
  BY DEF Core, Counts
<1>5. Kinds(b)
  BY <1>1 DEF Core, Kinds
<1>6. Counts(b, sv, jo)
  <2>1. \A k \in 1 .. Len(a) : a[k].kind = "prelude" =>
          io[Catches(a, k)] = [sp0 |-> a[k].base, env0 |-> Boxed(a, k)] /\ Catches(a, k) # 0
    <3>1. TAKE k \in 1 .. Len(a)
    <3>2. a[k].kind = "prelude" => k > 1
      BY DEF Core, Kinds
    <3>3. a[k].kind = "prelude" => Catches(a, k) = Catches(a, k - 1) + 1 /\ Catches(a, k - 1) \in Nat
      <4>1. SUFFICES ASSUME k > 1 PROVE
              /\ Catches(a, (k - 1) + 1) = Catches(a, k - 1) + (IF a[(k - 1) + 1].kind = "prelude" THEN 1 ELSE 0)
              /\ Catches(a, k - 1) \in Nat
        BY <1>1, <3>2
      <4>2. k - 1 \in Nat \ {0}
        BY <1>1, <4>1
      <4>3. QED
        BY <4>2, CatchesNext
    <3>4. QED
      BY <1>1, <3>3 DEF Core, Counts
  <2>2. CASE y.kind = "plain"
    BY <1>1, <1>2, <1>4, <2>1, <2>2 DEF Counts
  <2>3. CASE y.kind = "prelude"
    <3>1. /\ Len(jo) = Len(io) + 1 /\ \A i \in 1 .. Len(io) : jo[i] = io[i]
          /\ jo[Len(io) + 1] = [sp0 |-> y.base, env0 |-> Len(sv)]
      BY <2>3 DEF Longer
    <3>2. ASSUME NEW k \in 1 .. Len(a), a[k].kind = "prelude"
          PROVE  jo[Catches(a, k)] = io[Catches(a, k)]
      <4>1. Catches(a, k) \in 0 .. Len(io) /\ Catches(a, k) # 0
        BY <1>3, <2>1, <3>2
      <4>2. QED
        BY <1>3, <3>1, <4>1
    <3>3. QED
      BY <1>1, <1>2, <1>4, <2>1, <2>3, <3>1, <3>2 DEF Counts
  <2>4. QED
    BY <2>2, <2>3
<1>7. Heights(b, t)
  <2>1. ASSUME NEW k \in 1 .. Len(a) PROVE HeightsAt(b[k], Above(b, t, k))
    <3>1. HeightsAt(a[k], Above(a, s, k)) /\ b[k] = a[k]
      BY <1>1 DEF Core, Heights
    <3>2. CASE k = Len(a)
      <4>1. k \in Nat /\ Len(b) = k + 1 /\ k # k + 1 /\ b[k + 1] = y
        <5>1. Len(a) \in Nat /\ Len(b) = Len(a) + 1 /\ b[Len(a) + 1] = y
          BY <1>1
        <5>2. QED
          BY <5>1, <3>2
      <4>2. Above(b, t, k) = IF y.kind = "prelude" THEN y.base - 1 ELSE y.base
        BY <4>1 DEF Above
      <4>3. Above(b, t, k) = Len(s)
        BY <1>3, <4>2, SMTT(30)
      <4>4. Above(a, s, k) = Len(s)
        BY <3>2 DEF Above
      <4>5. QED
        BY <3>1, <4>3, <4>4
    <3>3. CASE k # Len(a)
      <4>1. k + 1 \in 1 .. Len(a) /\ k # Len(b)
        <5>1. k \in Nat /\ k >= 1 /\ k <= Len(a) /\ Len(a) \in Nat /\ Len(b) = Len(a) + 1
          BY <1>1
        <5>2. QED
          BY <5>1, <3>3
      <4>2. Above(b, t, k) = Above(a, s, k)
        BY <1>1, <3>3, <4>1 DEF Above
      <4>3. QED
        BY <3>1, <4>2
    <3>4. QED
      BY <3>2, <3>3
  <2>2. Above(b, t, Len(a) + 1) = Len(t) /\ y.base <= Len(t)
    BY <1>1, <1>3 DEF Above
  <2>3. HeightsAt(b[Len(a) + 1], Above(b, t, Len(a) + 1))
    BY <1>1, <2>2 DEF HeightsAt
  <2>4. QED
    BY <1>1, <2>1, <2>3 DEF Heights
<1>8. ASSUME NEW k \in 1 .. Len(a) PROVE Chain(b, e, sv, k) = Chain(a, e, sv, k)
  BY <1>2, <1>3 DEF Chain
<1>9. Chain(b, e, sv, Len(a) + 1) = e
  BY <1>2, <1>4 DEF Chain
<1>10. Noted(b, e, sv)
  <2>1. \A k \in 1 .. Len(a) : NotedAt(b[k], k, Chain(b, e, sv, k))
    BY <1>1, <1>8 DEF Core, Noted
  <2>2. NotedAt(b[Len(a) + 1], Len(a) + 1, Chain(b, e, sv, Len(a) + 1))
    BY <1>1 DEF NotedAt
  <2>3. QED
    BY <1>1, <2>1, <2>2 DEF Noted
<1>11. Placed(b, e, sv)
  <2>1. \A k \in 1 .. Len(a) : PlacedAt(b[k], k, Chain(b, e, sv, k))
    BY <1>1, <1>8 DEF Core, Placed
  <2>2. PlacedAt(b[Len(a) + 1], Len(a) + 1, Chain(b, e, sv, Len(a) + 1))
    BY <1>1, <1>9 DEF PlacedAt, Fresh
  <2>3. QED
    BY <1>1, <2>1, <2>2 DEF Placed
<1>12. \A z : z.a \in 1 .. Len(a) /\ Owned(a, z) => Owned(b, z) /\ Boxed(b, z.a) = Boxed(a, z.a)
  BY <1>1, <1>2 DEF Owned
<1>13. Live(b, e, sv)
  <2>1. \A j \in DOMAIN e : e[j].a \in 1 .. Len(b) => Owned(b, e[j])
    BY <1>12 DEF Core, Live, Fresh
  <2>2. ASSUME NEW d \in DOMAIN sv, NEW j \in DOMAIN sv[d]
        PROVE  /\ sv[d][j].a \in 1 .. Len(b) /\ Owned(b, sv[d][j])
               /\ Boxed(b, sv[d][j].a) < d
    BY <1>1, <1>12 DEF Core, Live
  <2>3. ASSUME NEW k \in DOMAIN b, b[k].arg # NoArg, NEW j \in DOMAIN b[k].arg.env
        PROVE  b[k].arg.env[j].a \in 1 .. k - 1 /\ Owned(b, b[k].arg.env[j])
    <3>1. CASE k \in 1 .. Len(a)
      BY <1>1, <1>12, <2>3, <3>1 DEF Core, Live
    <3>2. CASE k = Len(a) + 1
      BY <1>1, <1>12, <2>3, <3>2 DEF Sees
    <3>3. QED
      BY <1>1, <3>1, <3>2
  <2>4. QED
    BY <2>1, <2>2, <2>3 DEF Live
<1>14. Fresh(b, e)
  BY <1>1 DEF Fresh
<1>15. QED
  BY <1>5, <1>6, <1>7, <1>10, <1>11, <1>13, <1>14 DEF Core


-----------------------------------------------------------------------------
(* Shapes. *)

(* the types of the parts of a state, for the provers that need nothing else of it *)
LEMMA CoreShape ==
  ASSUME NEW a, NEW e, NEW sv, NEW s, NEW io, Core(a, e, sv, s, io)
  PROVE  /\ Len(a) \in Nat \ {0} /\ DOMAIN a = 1 .. Len(a)
         /\ Len(e) \in Nat /\ DOMAIN e = 1 .. Len(e)
         /\ Len(sv) \in Nat /\ DOMAIN sv = 1 .. Len(sv)
         /\ Len(s) \in Nat /\ Len(io) \in Nat /\ DOMAIN io = 1 .. Len(io)
         /\ \A k \in 1 .. Len(a) : a[k] \in Calls
BY DEF Core, Typed

(* the frames of the environment *)
LEMMA EnvFrames ==
  ASSUME NEW a, NEW e, NEW sv, NEW s, NEW io, Core(a, e, sv, s, io)
  PROVE  \A j \in 1 .. Len(e) : e[j] \in Frames /\ e[j].a \in Nat /\ e[j].a > 0
<1>1. e \in Seq(Frames)
  BY DEF Core, Typed
<1>2. \A j \in 1 .. Len(e) : e[j] \in Frames
  BY <1>1
<1>3. \A z \in Frames : z.a \in Nat /\ z.a > 0
  BY Bounds DEF Frames
<1>4. QED
  BY <1>2, <1>3

(* the types of the parts of a call *)
LEMMA CallShape ==
  ASSUME NEW x \in Calls
  PROVE  /\ Len(x.blocks) \in Nat /\ DOMAIN x.blocks = 1 .. Len(x.blocks) /\ x.base \in Nat
         /\ \A i \in 1 .. Len(x.blocks) : /\ x.blocks[i].l \in Label
                                          /\ x.blocks[i].e \in Nat /\ x.blocks[i].s \in Nat
<1>1. x.blocks \in Seq(Depths) /\ x.base \in Nat
  BY DEF Calls
<1>2. /\ Len(x.blocks) \in Nat /\ DOMAIN x.blocks = 1 .. Len(x.blocks)
      /\ \A i \in 1 .. Len(x.blocks) : x.blocks[i] \in Depths
  BY <1>1
<1>3. \A y \in Depths : y.l \in Label /\ y.e \in Nat /\ y.s \in Nat
  BY DEF Depths
<1>4. QED
  BY <1>1, <1>2, <1>3

(* t is the first m elements of s *)
Shorter(s, m, t) ==
  /\ m \in 0 .. Len(s) /\ Len(t) = m /\ DOMAIN t = 1 .. m /\ DOMAIN s = 1 .. Len(s)
  /\ \A k \in 1 .. m : t[k] = s[k]

(* the first m elements of a sequence, as Shorter *)
LEMMA Cut ==
  ASSUME NEW S, NEW s \in Seq(S), NEW m \in 0 .. Len(s)
  PROVE  SubSeq(s, 1, m) \in Seq(S) /\ Shorter(s, m, SubSeq(s, 1, m))
BY DEF Shorter

(* a sequence without its last element, as Longer *)
LEMMA CutLast ==
  ASSUME NEW S, NEW s \in Seq(S), Len(s) > 0
  PROVE  Front1(s) \in Seq(S) /\ Longer(Front1(s), s[Len(s)], s)
<1>1. Len(s) \in Nat /\ DOMAIN s = 1 .. Len(s)
  OBVIOUS
<1>2. Len(s) - 1 \in 0 .. Len(s)
  BY <1>1
<1>3. Front1(s) \in Seq(S) /\ Shorter(s, Len(s) - 1, Front1(s))
  BY <1>2, Cut DEF Front1
<1>4. QED
  BY <1>1, <1>3 DEF Shorter, Longer

-----------------------------------------------------------------------------
(* The blocks of one call, as frames are pushed and dropped. *)

(* y is what block i of a call k of x has noted, c the environment of the call *)
BlockAt(x, k, c, i) ==
  LET y == x.blocks[i]
  IN /\ LabelFn[y.l] = x.fn
     /\ y.e + 1 \in DOMAIN c /\ c[y.e + 1] = [a |-> k, b |-> y.l]
     /\ \A j \in 1 .. y.e : c[j].a <= k
     /\ i = Len(x.blocks) => \A j \in DOMAIN c : j > y.e + 1 => c[j].a > k
     /\ \A j \in DOMAIN x.blocks : /\ x.blocks[j].e = y.e + j - i
                                   /\ x.blocks[j].l = y.l => j = i

(* NotedAt, block by block *)
LEMMA NotedBlocks ==
  ASSUME NEW x, NEW k, NEW c
  PROVE  NotedAt(x, k, c) <=> \A i \in DOMAIN x.blocks : BlockAt(x, k, c, i)
BY DEF NotedAt, BlockAt

(* a frame of a call further in *)
LEMMA NotedLonger ==
  ASSUME NEW x \in Calls, NEW k \in Nat, NEW c, Len(c) \in Nat, NotedAt(x, k, c),
         NEW z, z.a \in Nat, z.a > k, NEW d, Longer(c, z, d)
  PROVE  NotedAt(x, k, d)
<1>1. ASSUME NEW i \in DOMAIN x.blocks PROVE BlockAt(x, k, d, i)
  <2>1. PICK q : q = x.blocks[i].e
    OBVIOUS
  <2>2. q \in Nat
    BY <2>1, CallShape
  <2>3. /\ LabelFn[x.blocks[i].l] = x.fn
        /\ q + 1 \in DOMAIN c /\ c[q + 1] = [a |-> k, b |-> x.blocks[i].l]
        /\ \A j \in 1 .. q : c[j].a <= k
        /\ i = Len(x.blocks) => \A j \in DOMAIN c : j > q + 1 => c[j].a > k
        /\ \A j \in DOMAIN x.blocks : /\ x.blocks[j].e = q + j - i
                                      /\ x.blocks[j].l = x.blocks[i].l => j = i
    BY <2>1, NotedBlocks DEF BlockAt
  <2>4. /\ DOMAIN c = 1 .. Len(c) /\ DOMAIN d = 1 .. Len(c) + 1
        /\ d[Len(c) + 1] = z /\ \A j \in 1 .. Len(c) : d[j] = c[j]
    BY DEF Longer
  <2>5. q + 1 \in DOMAIN d /\ d[q + 1] = [a |-> k, b |-> x.blocks[i].l]
    BY <2>2, <2>3, <2>4
  <2>6. \A j \in 1 .. q : d[j].a <= k
    BY <2>2, <2>3, <2>4
  <2>7. i = Len(x.blocks) => \A j \in DOMAIN d : j > q + 1 => d[j].a > k
    <3>1. i = Len(x.blocks) => \A j \in 1 .. Len(c) : j > q + 1 => c[j].a > k
      BY <2>3, <2>4
    <3>2. d[Len(c) + 1].a > k
      BY <2>4
    <3>3. QED
      BY <2>4, <3>1, <3>2
  <2>8. QED
    BY <2>1, <2>3, <2>5, <2>6, <2>7 DEF BlockAt
<1>2. QED
  BY <1>1, NotedBlocks

(* a frame of another call changes nothing for call k *)
LEMMA PlacedLonger ==
  ASSUME NEW x, NEW k \in Nat, NEW c, Len(c) \in Nat, PlacedAt(x, k, c),
         NEW z, z.a # k, NEW d, Longer(c, z, d)
  PROVE  PlacedAt(x, k, d)
BY DEF PlacedAt, Longer

(* the frames left are those up to the h-th, and block m's is the last of a call further in *)
LEMMA NotedShorter ==
  ASSUME NEW x \in Calls, NEW k \in Nat, NEW c, Len(c) \in Nat, NotedAt(x, k, c),
         NEW h \in Nat, NEW p \in {h, h + 1}, c[p].a \in Nat, c[p].a > k, p > 0,
         NEW d, Shorter(c, h, d)
  PROVE  NotedAt(x, k, d)
<1>1. ASSUME NEW i \in DOMAIN x.blocks PROVE BlockAt(x, k, d, i)
  <2>1. PICK q : q = x.blocks[i].e
    OBVIOUS
  <2>2. q \in Nat
    BY <2>1, CallShape
  <2>3. /\ LabelFn[x.blocks[i].l] = x.fn
        /\ q + 1 \in DOMAIN c /\ c[q + 1] = [a |-> k, b |-> x.blocks[i].l]
        /\ \A j \in 1 .. q : c[j].a <= k
        /\ i = Len(x.blocks) => \A j \in DOMAIN c : j > q + 1 => c[j].a > k
        /\ \A j \in DOMAIN x.blocks : /\ x.blocks[j].e = q + j - i
                                      /\ x.blocks[j].l = x.blocks[i].l => j = i
    BY <2>1, NotedBlocks DEF BlockAt
  <2>4. /\ DOMAIN c = 1 .. Len(c) /\ DOMAIN d = 1 .. h /\ h <= Len(c)
        /\ \A j \in 1 .. h : d[j] = c[j]
    BY DEF Shorter
  <2>5. q + 1 # p
    BY <2>3
  <2>6. ~(p \in 1 .. q)
    BY <2>3
  <2>7. q + 1 \in 1 .. h
    BY <2>2, <2>5, <2>6
  <2>8. q + 1 \in DOMAIN d /\ d[q + 1] = [a |-> k, b |-> x.blocks[i].l]
    BY <2>3, <2>4, <2>7
  <2>9. \A j \in 1 .. q : d[j].a <= k
    BY <2>2, <2>3, <2>4, <2>7
  <2>10. i = Len(x.blocks) => \A j \in DOMAIN d : j > q + 1 => d[j].a > k
    BY <2>2, <2>3, <2>4, SMTT(30)
  <2>11. QED
    BY <2>1, <2>3, <2>8, <2>9, <2>10 DEF BlockAt
<1>2. QED
  BY <1>1, NotedBlocks

(* nor does a frame that goes *)
LEMMA PlacedShorter ==
  ASSUME NEW x, NEW k, NEW c, Len(c) \in Nat, PlacedAt(x, k, c), NEW h, NEW d, Shorter(c, h, d)
  PROVE  PlacedAt(x, k, d)
<1>1. DOMAIN c = 1 .. Len(c) /\ DOMAIN d = 1 .. h /\ h \in 0 .. Len(c) /\ \A j \in 1 .. h : d[j] = c[j]
  BY DEF Shorter
<1>2. \A j \in DOMAIN d : j \in DOMAIN c /\ d[j] = c[j]
  BY <1>1
<1>3. QED
  BY <1>2 DEF PlacedAt

(* the call enters a block *)
LEMMA NotedEntered ==
  ASSUME NEW w \in Calls, NEW x \in Calls, x.fn = w.fn, NEW k \in Nat, NEW c, Len(c) \in Nat,
         NotedAt(w, k, c), \A j \in 1 .. Len(c) : c[j].a \in 1 .. k,
         NEW y \in Depths, y.e = Len(c), LabelFn[y.l] = w.fn,
         \A i \in DOMAIN w.blocks : w.blocks[i].l # y.l, Longer(w.blocks, y, x.blocks),
         NEW d, Longer(c, [a |-> k, b |-> y.l], d)
  PROVE  NotedAt(x, k, d)
<1> DEFINE n == Len(w.blocks)
           E(i) == w.blocks[i].e
           L(i) == w.blocks[i].l
<1>1. n \in Nat /\ \A i \in 1 .. n : E(i) \in Nat
  BY CallShape
<1>2. /\ Len(x.blocks) = n + 1 /\ DOMAIN w.blocks = 1 .. n
      /\ DOMAIN x.blocks = 1 .. n + 1
  BY CallShape DEF Longer
<1>3. /\ \A i \in 1 .. n : x.blocks[i].l = L(i) /\ x.blocks[i].e = E(i)
      /\ x.blocks[n + 1].l = y.l /\ x.blocks[n + 1].e = Len(c)
  BY DEF Longer
<1>4. /\ DOMAIN c = 1 .. Len(c) /\ DOMAIN d = 1 .. Len(c) + 1
      /\ d[Len(c) + 1] = [a |-> k, b |-> y.l] /\ \A j \in 1 .. Len(c) : d[j] = c[j]
  BY DEF Longer
<1>5. \A i \in 1 .. n : LabelFn[L(i)] = w.fn /\ L(i) # y.l
  BY <1>2, NotedBlocks DEF BlockAt
<1>6. \A i \in 1 .. n : E(i) + 1 \in 1 .. Len(c) /\ c[E(i) + 1] = [a |-> k, b |-> L(i)]
  BY <1>2, <1>4, NotedBlocks DEF BlockAt
<1>7. \A i \in 1 .. n : \A j \in 1 .. n : E(j) = E(i) + j - i /\ (L(j) = L(i) => j = i)
  BY <1>2, NotedBlocks DEF BlockAt
<1>8. n > 0 => \A j \in 1 .. Len(c) : j > E(n) + 1 => c[j].a > k
  <2>1. n > 0 => n \in DOMAIN w.blocks
    BY <1>1, <1>2
  <2>2. n > 0 => BlockAt(w, k, c, n)
    BY <2>1, NotedBlocks
  <2>3. QED
    BY <1>4, <2>2 DEF BlockAt
<1>9. \A i \in DOMAIN x.blocks : i \in 1 .. n \/ i = n + 1
  BY <1>1, <1>2
<1> HIDE DEF n, E, L
<1>10. n > 0 => n \in 1 .. n
  BY <1>1
<1>11. n > 0 => Len(c) = E(n) + 1
  <2>1. SUFFICES ASSUME n > 0 PROVE Len(c) = E(n) + 1
    OBVIOUS
  <2>2. E(n) \in Nat /\ E(n) + 1 <= Len(c)
    <3>1. n \in 1 .. n
      BY <1>10, <2>1
    <3>2. E(n) + 1 \in 1 .. Len(c)
      BY <1>6, <3>1
    <3>3. E(n) \in Nat
      BY <1>1, <3>1
    <3>4. QED
      BY <3>2, <3>3
  <2>3. ~(Len(c) > E(n) + 1)
    <3>1. SUFFICES ASSUME Len(c) > E(n) + 1 PROVE FALSE
      OBVIOUS
    <3>2. Len(c) \in 1 .. Len(c)
      BY <2>2
    <3>3. c[Len(c)].a > k /\ c[Len(c)].a \in 1 .. k
      BY <1>8, <2>1, <3>1, <3>2
    <3>4. QED
      BY <3>3
  <2>4. QED
    BY <2>2, <2>3
<1>12. \A i \in 1 .. n : Len(c) = E(i) + (n + 1) - i
  <2>1. TAKE i \in 1 .. n
  <2>2. n > 0 /\ i \in Nat /\ n \in 1 .. n
    BY <1>1
  <2>3. E(n) = E(i) + n - i
    BY <1>7, <2>2
  <2>4. E(i) \in Nat /\ Len(c) = E(n) + 1
    BY <1>1, <1>11, <2>2
  <2>5. QED
    BY <1>1, <2>2, <2>3, <2>4
<1>13. ASSUME NEW i \in 1 .. n PROVE BlockAt(x, k, d, i)
  <2>1. PICK q : q = E(i)
    OBVIOUS
  <2>2. q \in Nat /\ q + 1 \in 1 .. Len(c)
    BY <1>1, <1>6, <2>1
  <2>3. d[q + 1] = [a |-> k, b |-> L(i)] /\ q + 1 \in DOMAIN d
    BY <1>4, <1>6, <2>1, <2>2
  <2>4. \A j \in 1 .. q : d[j].a <= k
    <3>1. \A j \in 1 .. q : j \in 1 .. Len(c)
      BY <2>2
    <3>2. QED
      BY <1>4, <3>1
  <2>5. i # Len(x.blocks)
    BY <1>1, <1>2
  <2>6. ASSUME NEW j \in DOMAIN x.blocks
        PROVE  x.blocks[j].e = q + j - i /\ (x.blocks[j].l = L(i) => j = i)
    <3>1. CASE j \in 1 .. n
      BY <1>3, <1>7, <2>1, <3>1
    <3>2. CASE j = n + 1
      BY <1>3, <1>5, <1>12, <2>1, <3>2
    <3>3. QED
      BY <1>9, <3>1, <3>2
  <2>7. x.blocks[i].l = L(i) /\ x.blocks[i].e = q /\ LabelFn[L(i)] = x.fn
    BY <1>3, <1>5, <2>1
  <2>8. QED
    BY <2>3, <2>4, <2>5, <2>6, <2>7 DEF BlockAt
<1>14. BlockAt(x, k, d, n + 1)
  <2>1. Len(c) + 1 \in DOMAIN d /\ d[Len(c) + 1] = [a |-> k, b |-> y.l]
    BY <1>4
  <2>2. \A j \in 1 .. Len(c) : d[j].a <= k
    BY <1>4
  <2>3. \A j \in DOMAIN d : ~(j > Len(c) + 1)
    BY <1>4
  <2>4. ASSUME NEW j \in DOMAIN x.blocks
        PROVE  x.blocks[j].e = Len(c) + j - (n + 1) /\ (x.blocks[j].l = y.l => j = n + 1)
    <3>1. CASE j \in 1 .. n
      <4>1. x.blocks[j].e = E(j) /\ x.blocks[j].l = L(j) /\ L(j) # y.l
        BY <1>3, <1>5, <3>1
      <4>2. E(j) \in Nat /\ Len(c) = E(j) + (n + 1) - j
        BY <1>1, <1>12, <3>1
      <4>3. E(j) = Len(c) + j - (n + 1)
        BY <1>1, <3>1, <4>2
      <4>4. QED
        BY <4>1, <4>3
    <3>2. CASE j = n + 1
      BY <1>1, <1>3, <3>2
    <3>3. QED
      BY <1>9, <3>1, <3>2
  <2>5. QED
    BY <1>3, <2>1, <2>2, <2>3, <2>4 DEF BlockAt
<1>15. QED
  BY <1>9, <1>13, <1>14, NotedBlocks

(* the frame of a new block is where the block's depth says *)
LEMMA PlacedEntered ==
  ASSUME NEW w \in Calls, NEW x, NEW k, NEW c, Len(c) \in Nat, PlacedAt(w, k, c),
         NEW y, y.e = Len(c), Longer(w.blocks, y, x.blocks),
         NEW d, Longer(c, [a |-> k, b |-> y.l], d)
  PROVE  PlacedAt(x, k, d)
<1> DEFINE n == Len(w.blocks)
<1>1. /\ n \in Nat /\ DOMAIN w.blocks = 1 .. n
      /\ DOMAIN x.blocks = 1 .. n + 1 /\ x.blocks[n + 1] = y
      /\ \A i \in 1 .. n : x.blocks[i] = w.blocks[i]
  BY CallShape DEF Longer
<1>2. /\ DOMAIN c = 1 .. Len(c) /\ DOMAIN d = 1 .. Len(c) + 1
      /\ d[Len(c) + 1] = [a |-> k, b |-> y.l] /\ \A j \in 1 .. Len(c) : d[j] = c[j]
  BY DEF Longer
<1> HIDE DEF n
<1>3. ASSUME NEW j \in 1 .. Len(c), d[j].a = k, d[j].b # NoFrame
      PROVE  \E i \in DOMAIN x.blocks : x.blocks[i].l = d[j].b /\ x.blocks[i].e + 1 = j
  <2>1. c[j].a = k /\ c[j].b # NoFrame /\ d[j] = c[j] /\ j \in DOMAIN c
    BY <1>2, <1>3
  <2>2. PICK i \in 1 .. n : w.blocks[i].l = c[j].b /\ w.blocks[i].e + 1 = j
    BY <1>1, <2>1 DEF PlacedAt
  <2>3. i \in DOMAIN x.blocks /\ x.blocks[i] = w.blocks[i]
    BY <1>1
  <2>4. QED
    BY <2>1, <2>2, <2>3
<1>4. n + 1 \in DOMAIN x.blocks /\ x.blocks[n + 1].l = d[Len(c) + 1].b
      /\ x.blocks[n + 1].e + 1 = Len(c) + 1
  BY <1>1, <1>2, SMTT(60)
<1>5. ASSUME NEW j \in DOMAIN d, d[j].a = k, d[j].b # NoFrame
      PROVE  \E i \in DOMAIN x.blocks : x.blocks[i].l = d[j].b /\ x.blocks[i].e + 1 = j
  <2>1. CASE j \in 1 .. Len(c)
    BY <1>3, <1>5, <2>1
  <2>2. CASE j = Len(c) + 1
    BY <1>4, <2>2
  <2>3. QED
    BY <1>2, <2>1, <2>2
<1>6. QED
  BY <1>5 DEF PlacedAt

(* a new block notes the top of the stack *)
LEMMA HeightsEntered ==
  ASSUME NEW w \in Calls, NEW x, x.base = w.base, NEW h \in Nat, HeightsAt(w, h),
         NEW y, y.s = h, Longer(w.blocks, y, x.blocks)
  PROVE  HeightsAt(x, h)
<1> DEFINE n == Len(w.blocks)
<1>1. /\ n \in Nat /\ DOMAIN w.blocks = 1 .. n
      /\ DOMAIN x.blocks = 1 .. n + 1 /\ x.blocks[n + 1] = y
      /\ \A i \in 1 .. n : x.blocks[i] = w.blocks[i]
  BY CallShape DEF Longer
<1> HIDE DEF n
<1>2. /\ x.base <= h
      /\ \A i \in 1 .. n : /\ x.base <= w.blocks[i].s /\ w.blocks[i].s <= h
                           /\ \A j \in 1 .. i : w.blocks[j].s <= w.blocks[i].s
  BY <1>1 DEF HeightsAt
<1>3. ASSUME NEW i \in 1 .. n
      PROVE  /\ x.base <= x.blocks[i].s /\ x.blocks[i].s <= h
             /\ \A j \in 1 .. i : x.blocks[j].s <= x.blocks[i].s
  <2>1. \A j \in 1 .. i : j \in 1 .. n
    BY <1>1
  <2>2. QED
    BY <1>1, <1>2, <2>1
<1>4. \A j \in 1 .. n + 1 : x.blocks[j].s <= x.blocks[n + 1].s
  <2>1. \A j \in 1 .. n : x.blocks[j].s <= h
    BY <1>1, <1>2
  <2>2. x.blocks[n + 1].s = h
    BY <1>1
  <2>3. \A j \in 1 .. n + 1 : j \in 1 .. n \/ j = n + 1
    BY <1>1
  <2>4. QED
    BY <2>1, <2>2, <2>3
<1>5. QED
  BY <1>1, <1>2, <1>3, <1>4 DEF HeightsAt

(* x is call w left with m of its blocks, and h the depth its environment is cut to *)
CutTo(w, x, m, h) ==
  /\ x.fn = w.fn /\ x.kind = w.kind /\ x.arg = w.arg /\ x.base = w.base
  /\ Shorter(w.blocks, m, x.blocks) /\ Len(w.blocks) > 0
  /\ m > 0 => h = w.blocks[m].e + 1
  /\ m < Len(w.blocks) => h = w.blocks[m + 1].e

(* the blocks kept by a jump or an end of a block keep their frames *)
LEMMA NotedCut ==
  ASSUME NEW w \in Calls, NEW x, NEW m, NEW h, CutTo(w, x, m, h), NEW k \in Nat,
         NEW c, Len(c) \in Nat, NotedAt(w, k, c), NEW d, Shorter(c, h, d)
  PROVE  NotedAt(x, k, d)
<1> DEFINE n == Len(w.blocks)
           E(i) == w.blocks[i].e
           L(i) == w.blocks[i].l
<1>1. n \in Nat /\ \A i \in 1 .. n : E(i) \in Nat
  BY CallShape
<1>2. /\ m \in 0 .. n /\ Len(x.blocks) = m /\ DOMAIN w.blocks = 1 .. n /\ DOMAIN x.blocks = 1 .. m
  BY DEF Shorter, CutTo
<1>3. \A i \in 1 .. m : x.blocks[i].l = L(i) /\ x.blocks[i].e = E(i) /\ i \in 1 .. n
  BY <1>1, <1>2 DEF Shorter, CutTo
<1>4. /\ DOMAIN c = 1 .. Len(c) /\ DOMAIN d = 1 .. h /\ h \in 0 .. Len(c)
      /\ \A j \in 1 .. h : d[j] = c[j] /\ j \in 1 .. Len(c)
  BY DEF Shorter
<1>5. \A i \in 1 .. n : LabelFn[L(i)] = w.fn
  BY <1>2, NotedBlocks DEF BlockAt
<1>6. \A i \in 1 .. n : /\ E(i) + 1 \in 1 .. Len(c) /\ c[E(i) + 1] = [a |-> k, b |-> L(i)]
                        /\ \A j \in 1 .. E(i) : c[j].a <= k
  BY <1>2, <1>4, NotedBlocks DEF BlockAt
<1>7. \A i \in 1 .. n : \A j \in 1 .. n : E(j) = E(i) + j - i /\ (L(j) = L(i) => j = i)
  BY <1>2, NotedBlocks DEF BlockAt
<1>8. m > 0 => h = E(m) + 1
  BY DEF CutTo
<1>9. x.fn = w.fn
  BY DEF CutTo
<1> HIDE DEF n, E, L
<1>10. ASSUME NEW i \in 1 .. m PROVE BlockAt(x, k, d, i)
  <2>1. PICK q : q = E(i)
    OBVIOUS
  <2>2. m > 0 /\ m \in 1 .. n /\ i \in 1 .. n /\ i \in Nat /\ i <= m /\ m \in Nat
    BY <1>1, <1>2
  <2>3. q \in Nat /\ E(m) \in Nat /\ E(m) = q + m - i
    BY <1>1, <1>7, <2>1, <2>2
  <2>4. h = E(m) + 1
    BY <1>8, <2>2
  <2>5. q + 1 \in 1 .. h /\ (i = m => h = q + 1)
    BY <2>2, <2>3, <2>4
  <2>6. d[q + 1] = [a |-> k, b |-> L(i)] /\ q + 1 \in DOMAIN d
    BY <1>4, <1>6, <2>1, <2>2, <2>5
  <2>7. \A j \in 1 .. q : d[j].a <= k
    <3>1. \A j \in 1 .. q : j \in 1 .. h
      BY <1>4, <2>3, <2>5
    <3>2. \A j \in 1 .. q : c[j].a <= k
      BY <1>6, <2>1, <2>2
    <3>3. QED
      BY <1>4, <3>1, <3>2
  <2>8. i = Len(x.blocks) => \A j \in DOMAIN d : ~(j > q + 1)
    BY <1>2, <1>4, <2>5
  <2>9. ASSUME NEW j \in DOMAIN x.blocks
        PROVE  x.blocks[j].e = q + j - i /\ (x.blocks[j].l = L(i) => j = i)
    <3>1. j \in 1 .. m /\ j \in 1 .. n
      BY <1>1, <1>2
    <3>2. x.blocks[j].e = E(j) /\ x.blocks[j].l = L(j)
      BY <1>3, <3>1
    <3>3. E(j) = q + j - i /\ (L(j) = L(i) => j = i)
      BY <1>7, <2>1, <2>2, <3>1
    <3>4. QED
      BY <3>2, <3>3
  <2>10. x.blocks[i].l = L(i) /\ x.blocks[i].e = q /\ LabelFn[L(i)] = x.fn
    BY <1>3, <1>5, <1>9, <2>1, <2>2
  <2>11. QED
    BY <2>6, <2>7, <2>8, <2>9, <2>10 DEF BlockAt
<1>11. QED
  BY <1>2, <1>10, NotedBlocks

(* what is cut off are the frames of the blocks left, and what is above them *)
LEMMA PlacedCut ==
  ASSUME NEW w \in Calls, NEW x, NEW m, NEW h, CutTo(w, x, m, h), NEW k \in Nat,
         NEW c, Len(c) \in Nat, NotedAt(w, k, c), PlacedAt(w, k, c), NEW d, Shorter(c, h, d)
  PROVE  PlacedAt(x, k, d)
<1> DEFINE n == Len(w.blocks)
           E(i) == w.blocks[i].e
           L(i) == w.blocks[i].l
<1>1. n \in Nat /\ \A i \in 1 .. n : E(i) \in Nat
  BY CallShape
<1>2. m \in 0 .. n /\ DOMAIN w.blocks = 1 .. n /\ DOMAIN x.blocks = 1 .. m
  BY DEF Shorter, CutTo
<1>3. \A i \in 1 .. m : x.blocks[i].l = L(i) /\ x.blocks[i].e = E(i)
  BY DEF Shorter, CutTo
<1>4. /\ DOMAIN c = 1 .. Len(c) /\ DOMAIN d = 1 .. h /\ h \in 0 .. Len(c)
      /\ \A j \in 1 .. h : d[j] = c[j] /\ j \in 1 .. Len(c)
  BY DEF Shorter
<1>5. \A i \in 1 .. n : \A j \in 1 .. n : E(j) = E(i) + j - i
  BY <1>2, NotedBlocks DEF BlockAt
<1>6. m < n => h = E(m + 1)
  BY DEF CutTo
<1>7. \A j \in DOMAIN c : c[j].a = k /\ c[j].b # NoFrame => \E i \in 1 .. n : L(i) = c[j].b /\ E(i) + 1 = j
  BY <1>2 DEF PlacedAt
<1> HIDE DEF n, E, L
<1>8. ASSUME NEW j \in DOMAIN d, d[j].a = k, d[j].b # NoFrame
      PROVE  \E i \in DOMAIN x.blocks : x.blocks[i].l = d[j].b /\ x.blocks[i].e + 1 = j
  <2>1. c[j].a = k /\ c[j].b # NoFrame /\ d[j] = c[j] /\ j \in DOMAIN c /\ j \in 1 .. h
    BY <1>4, <1>8
  <2>2. PICK i \in 1 .. n : L(i) = c[j].b /\ E(i) + 1 = j
    BY <1>7, <2>1
  <2>3. i \in 1 .. m
    <3>1. SUFFICES ASSUME i > m PROVE FALSE
      BY <1>1, <1>2
    <3>2. m \in Nat /\ m < n /\ i \in Nat /\ i <= n /\ m + 1 \in 1 .. n
      BY <1>1, <1>2, <3>1
    <3>3. E(i) = E(m + 1) + i - (m + 1) /\ E(i) \in Nat /\ E(m + 1) \in Nat
      BY <1>1, <1>5, <3>2
    <3>4. h = E(m + 1) /\ h \in Nat
      BY <1>6, <3>2, <3>3
    <3>5. E(i) >= h
      BY <3>1, <3>2, <3>3, <3>4
    <3>6. E(i) + 1 <= h
      BY <2>1, <2>2, <3>3, <3>4
    <3>7. QED
      BY <3>3, <3>4, <3>5, <3>6
  <2>4. QED
    BY <1>2, <1>3, <2>1, <2>2, <2>3
<1>9. QED
  BY <1>8 DEF PlacedAt

(* all the frames left are of this call and those further out; the last one kept, or the
   first one dropped, is a block's of this call *)
LEMMA CutFrames ==
  ASSUME NEW w \in Calls, NEW x, NEW m, NEW h, CutTo(w, x, m, h), NEW k \in Nat,
         NEW c, Len(c) \in Nat, DOMAIN c = 1 .. Len(c), NotedAt(w, k, c)
  PROVE  /\ h \in 0 .. Len(c) /\ \A j \in 1 .. h : c[j].a <= k
         /\ \E p \in {h, h + 1} : c[p].a = k /\ p > 0
<1> DEFINE n == Len(w.blocks)
           E(i) == w.blocks[i].e
           L(i) == w.blocks[i].l
<1>1. n \in Nat /\ \A i \in 1 .. n : E(i) \in Nat
  BY CallShape
<1>2. m \in 0 .. n /\ DOMAIN w.blocks = 1 .. n /\ n > 0
  BY DEF Shorter, CutTo
<1>4. \A i \in 1 .. n : /\ E(i) + 1 \in 1 .. Len(c) /\ c[E(i) + 1] = [a |-> k, b |-> L(i)]
                        /\ \A j \in 1 .. E(i) : c[j].a <= k
  BY <1>2, NotedBlocks DEF BlockAt
<1>5. (m > 0 => h = E(m) + 1) /\ (m < n => h = E(m + 1))
  BY DEF CutTo
<1> HIDE DEF n, E, L
<1>6. ASSUME NEW i \in 1 .. n
      PROVE  \E q \in Nat : /\ q = E(i) /\ q + 1 \in 1 .. Len(c) /\ c[q + 1].a = k
                            /\ \A j \in 1 .. q : c[j].a <= k
  <2>1. PICK q \in Nat : q = E(i)
    BY <1>1
  <2>2. q + 1 \in 1 .. Len(c) /\ c[q + 1] = [a |-> k, b |-> L(i)] /\ \A j \in 1 .. q : c[j].a <= k
    BY <1>4, <2>1
  <2>3. QED
    BY <2>1, <2>2
<1>7. CASE m > 0
  <2>1. m \in 1 .. n /\ h = E(m) + 1
    BY <1>1, <1>2, <1>5, <1>7
  <2>2. PICK q \in Nat : /\ q = E(m) /\ q + 1 \in 1 .. Len(c) /\ c[q + 1].a = k
                         /\ \A j \in 1 .. q : c[j].a <= k
    BY <1>6, <2>1
  <2>3. h = q + 1
    BY <2>1, <2>2
  <2>4. \A j \in 1 .. h : c[j].a <= k
    <3>1. TAKE j \in 1 .. h
    <3>2. j \in 1 .. q \/ j = q + 1
      BY <2>3
    <3>3. QED
      BY <2>2, <3>2
  <2>5. h \in 0 .. Len(c) /\ h > 0
    BY <2>2, <2>3
  <2>6. QED
    BY <2>2, <2>3, <2>4, <2>5
<1>8. CASE m = 0
  <2>1. m + 1 \in 1 .. n /\ h = E(m + 1)
    BY <1>1, <1>2, <1>5, <1>8
  <2>2. /\ h \in Nat /\ h + 1 \in 1 .. Len(c) /\ c[h + 1].a = k
        /\ \A j \in 1 .. h : c[j].a <= k
    BY <1>6, <2>1, SMTT(30)
  <2>3. h \in 0 .. Len(c) /\ h + 1 > 0
    BY <2>2
  <2>4. QED
    BY <2>2, <2>3
<1>9. QED
  BY <1>1, <1>2, <1>7, <1>8

-----------------------------------------------------------------------------
(* The call on top: its operands and its blocks. *)

(* b is a with x for its last call w: only its blocks are others *)
Retop(a, w, x, b) ==
  /\ Len(b) = Len(a) /\ DOMAIN b = 1 .. Len(a)
  /\ a[Len(a)] = w /\ b[Len(a)] = x /\ \A k \in 1 .. Len(a) - 1 : b[k] = a[k]
  /\ x.fn = w.fn /\ x.kind = w.kind /\ x.arg = w.arg /\ x.base = w.base
  /\ w.kind # "prelude"

(* what a change of the last call's blocks leaves as it was *)
LEMMA Retopped ==
  ASSUME NEW a, Len(a) \in Nat \ {0}, NEW w, NEW x, NEW b, Retop(a, w, x, b)
  PROVE  /\ Len(b) = Len(a) /\ DOMAIN b = 1 .. Len(a)
         /\ a[Len(a)] = w /\ b[Len(a)] = x /\ w.kind # "prelude"
         /\ \A k \in 1 .. Len(a) : k # Len(a) => b[k] = a[k] /\ k < Len(a) /\ k + 1 \in 1 .. Len(a)
         /\ \A k \in 1 .. Len(a) : /\ b[k].fn = a[k].fn /\ b[k].kind = a[k].kind
                                   /\ b[k].arg = a[k].arg /\ b[k].base = a[k].base
         /\ \A k \in 1 .. Len(a) : Boxed(b, k) = Boxed(a, k) /\ Catches(b, k) = Catches(a, k)
<1>1. /\ Len(b) = Len(a) /\ DOMAIN b = 1 .. Len(a)
      /\ a[Len(a)] = w /\ b[Len(a)] = x /\ w.kind # "prelude"
  BY DEF Retop
<1>2. \A k \in 1 .. Len(a) - 1 : b[k] = a[k]
  BY DEF Retop
<1>3. \A k \in 1 .. Len(a) : k # Len(a) => k \in 1 .. Len(a) - 1 /\ k < Len(a) /\ k + 1 \in 1 .. Len(a)
  OBVIOUS
<1>4. ASSUME NEW k \in 1 .. Len(a)
      PROVE  /\ b[k].fn = a[k].fn /\ b[k].kind = a[k].kind
             /\ b[k].arg = a[k].arg /\ b[k].base = a[k].base
  <2>1. CASE k = Len(a)
    BY <2>1 DEF Retop
  <2>2. CASE k # Len(a)
    BY <1>2, <1>3, <2>2
  <2>3. QED
    BY <2>1, <2>2
<1>5. ASSUME NEW k \in 1 .. Len(a)
      PROVE  Boxed(b, k) = Boxed(a, k) /\ Catches(b, k) = Catches(a, k)
  <2>1. k \in Nat /\ \A i \in 1 .. k : i \in 1 .. Len(a)
    OBVIOUS
  <2>2. \A i \in 1 .. k : b[i].kind = a[i].kind
    BY <1>4, <2>1
  <2>3. QED
    BY <2>1, <2>2, SameCounts
<1>6. QED
  BY <1>1, <1>2, <1>3, <1>4, <1>5

(* Operands come and go above those of the blocks the routine is in. *)
LEMMA Operands ==
  ASSUME NEW a, NEW e, NEW sv, NEW s, NEW io, Core(a, e, sv, s, io),
         NEW t, Typed(a, e, sv, t, io), HeightsAt(a[Len(a)], Len(t))
  PROVE  Core(a, e, sv, t, io)
<1>1. ASSUME NEW k \in DOMAIN a PROVE HeightsAt(a[k], Above(a, t, k))
  <2>1. CASE k = Len(a)
    BY <2>1 DEF Above
  <2>2. CASE k # Len(a)
    <3>1. HeightsAt(a[k], Above(a, s, k))
      BY DEF Core, Heights
    <3>2. Above(a, t, k) = Above(a, s, k)
      BY <2>2 DEF Above
    <3>3. QED
      BY <3>1, <3>2
  <2>3. QED
    BY <2>1, <2>2
<1>2. QED
  BY <1>1 DEF Core, Heights

(* What a change of the last call's blocks leaves as it was. *)
LEMMA Reblocked ==
  ASSUME NEW a, NEW e, NEW sv, NEW s, NEW io, Core(a, e, sv, s, io),
         NEW w, NEW x, NEW b, Retop(a, w, x, b), NEW t, HeightsAt(x, Len(t))
  PROVE  Kinds(b) /\ Counts(b, sv, io) /\ Heights(b, t)
<1>1. Len(a) \in Nat \ {0} /\ DOMAIN a = 1 .. Len(a)
  BY CoreShape
<1>2. /\ Len(b) = Len(a) /\ DOMAIN b = 1 .. Len(a) /\ b[Len(a)] = x /\ x.kind # "prelude"
      /\ 1 \in 1 .. Len(a)
  BY <1>1, Retopped, SMTT(30)
<1>3. \A k \in 1 .. Len(a) : k # Len(a) => b[k] = a[k] /\ k < Len(a) /\ k + 1 \in 1 .. Len(a)
  BY <1>1, Retopped
<1>4. \A k \in 1 .. Len(a) : /\ b[k].fn = a[k].fn /\ b[k].kind = a[k].kind
                             /\ b[k].arg = a[k].arg /\ b[k].base = a[k].base
  BY <1>1, Retopped
<1>5. \A k \in 1 .. Len(a) : Boxed(b, k) = Boxed(a, k) /\ Catches(b, k) = Catches(a, k)
  BY <1>1, Retopped
<1>6. Kinds(b)
  <2>1. b[1].kind = "boxed"
    BY <1>2, <1>4 DEF Core, Kinds
  <2>2. ASSUME NEW k \in 1 .. Len(a)
        PROVE  /\ b[k].kind = "prelude" <=> b[k].fn = Prelude
               /\ b[k].kind = "prelude" => b[k].blocks = <<>> /\ b[k].arg # NoArg
               /\ b[k].kind = "prelude" /\ k < Len(a) => b[k + 1].kind = "boxed"
    <3>1. /\ a[k].kind = "prelude" <=> a[k].fn = Prelude
          /\ a[k].kind = "prelude" => a[k].blocks = <<>> /\ a[k].arg # NoArg
          /\ a[k].kind = "prelude" /\ k < Len(a) => a[k + 1].kind = "boxed"
      BY <1>1 DEF Core, Kinds
    <3>2. CASE k = Len(a)
      BY <1>2, <1>4, <3>1, <3>2
    <3>3. CASE k # Len(a)
      BY <1>3, <1>4, <3>1, <3>3
    <3>4. QED
      BY <3>2, <3>3
  <2>3. QED
    BY <1>2, <2>1, <2>2 DEF Kinds
<1>7. Counts(b, sv, io)
  BY <1>1, <1>2, <1>4, <1>5 DEF Core, Counts
<1>8. Heights(b, t)
  <2>1. ASSUME NEW k \in 1 .. Len(a) PROVE HeightsAt(b[k], Above(b, t, k))
    <3>1. CASE k = Len(a)
      BY <1>2, <3>1 DEF Above
    <3>2. CASE k # Len(a)
      <4>1. HeightsAt(a[k], Above(a, s, k)) /\ b[k] = a[k] /\ k + 1 \in 1 .. Len(a)
        <5>1. HeightsAt(a[k], Above(a, s, k))
          BY <1>1 DEF Core, Heights
        <5>2. QED
          BY <1>3, <3>2, <5>1
      <4>2. Above(b, t, k) = Above(a, s, k)
        BY <1>2, <1>4, <3>2, <4>1, ZenonT(30) DEF Above
      <4>3. QED
        BY <4>1, <4>2
    <3>3. QED
      BY <3>1, <3>2
  <2>2. QED
    BY <1>2, <2>1 DEF Heights
<1>9. QED
  BY <1>6, <1>7, <1>8

(* The last call is in the environment in effect; the saved ones have no frame of it. *)
LEMMA TopChain ==
  ASSUME NEW a, NEW e, NEW sv, NEW s, NEW io, Core(a, e, sv, s, io)
  PROVE  /\ Chain(a, e, sv, Len(a)) = e
         /\ \A d \in DOMAIN sv : \A j \in DOMAIN sv[d] : sv[d][j].a # Len(a)
<1>1. Len(sv) \in Nat /\ DOMAIN sv = 1 .. Len(sv) /\ Len(sv) = Boxed(a, Len(a))
  BY CoreShape DEF Core, Counts
<1>2. ASSUME NEW d \in DOMAIN sv, NEW j \in DOMAIN sv[d] PROVE sv[d][j].a # Len(a)
  <2>1. Boxed(a, sv[d][j].a) < d
    BY DEF Core, Live
  <2>2. ~(Boxed(a, Len(a)) < d)
    BY <1>1
  <2>3. QED
    BY <2>1, <2>2
<1>3. QED
  BY <1>1, <1>2 DEF Chain

(* the environments that stay, and those of the parameters, after a change of the last call *)
LEMMA RestLive ==
  ASSUME NEW a, NEW e, NEW sv, NEW s, NEW io, Core(a, e, sv, s, io),
         NEW w, NEW x, NEW b, Retop(a, w, x, b)
  PROVE  /\ \A z : z.a \in 1 .. Len(a) /\ z.a # Len(a) /\ Owned(a, z) => Owned(b, z)
         /\ \A d \in DOMAIN sv : \A j \in DOMAIN sv[d] :
              /\ sv[d][j].a \in 1 .. Len(b) /\ Owned(b, sv[d][j])
              /\ Boxed(b, sv[d][j].a) < d
         /\ \A k \in DOMAIN b : b[k].arg # NoArg =>
              \A j \in DOMAIN b[k].arg.env :
                b[k].arg.env[j].a \in 1 .. k - 1 /\ Owned(b, b[k].arg.env[j])
<1>1. Len(a) \in Nat \ {0} /\ DOMAIN a = 1 .. Len(a)
  BY CoreShape, SMTT(30)
<1>2. /\ Len(b) = Len(a) /\ DOMAIN b = 1 .. Len(a)
      /\ \A k \in 1 .. Len(a) : k # Len(a) => b[k] = a[k]
  <2>1. Len(b) = Len(a) /\ DOMAIN b = 1 .. Len(a)
    BY SMTT(30) DEF Retop
  <2>2. \A k \in 1 .. Len(a) : k # Len(a) => b[k] = a[k] /\ k < Len(a) /\ k + 1 \in 1 .. Len(a)
    BY <1>1, Retopped
  <2>3. QED
    BY <2>1, <2>2
<1>3. \A k \in 1 .. Len(a) : b[k].arg = a[k].arg
  BY <1>1, Retopped
<1>4. \A k \in 1 .. Len(a) : Boxed(b, k) = Boxed(a, k)
  BY <1>1, Retopped
<1>5. ASSUME NEW z, z.a \in 1 .. Len(a), z.a # Len(a), Owned(a, z) PROVE Owned(b, z)
  <2>1. b[z.a] = a[z.a]
    BY <1>2, <1>5
  <2>2. QED
    BY <1>5, <2>1 DEF Owned
<1>6. ASSUME NEW d \in DOMAIN sv, NEW j \in DOMAIN sv[d]
      PROVE  /\ sv[d][j].a \in 1 .. Len(b) /\ Owned(b, sv[d][j])
             /\ Boxed(b, sv[d][j].a) < d
  <2>1. sv[d][j].a \in 1 .. Len(a) /\ Owned(a, sv[d][j]) /\ Boxed(a, sv[d][j].a) < d
    BY DEF Core, Live
  <2>2. sv[d][j].a # Len(a)
    BY TopChain
  <2>3. QED
    BY <1>2, <1>4, <1>5, <2>1, <2>2
<1>7. ASSUME NEW k \in DOMAIN b, b[k].arg # NoArg, NEW j \in DOMAIN b[k].arg.env
      PROVE  b[k].arg.env[j].a \in 1 .. k - 1 /\ Owned(b, b[k].arg.env[j])
  <2>1. k \in 1 .. Len(a) /\ k \in DOMAIN a /\ b[k].arg = a[k].arg
    BY <1>1, <1>2, <1>3
  <2>2. b[k].arg.env[j].a \in 1 .. k - 1 /\ Owned(a, b[k].arg.env[j])
    BY <1>7, <2>1 DEF Core, Live
  <2>3. b[k].arg.env[j].a \in 1 .. Len(a) /\ b[k].arg.env[j].a # Len(a)
    BY <1>1, <2>1, <2>2
  <2>4. QED
    BY <1>5, <2>2, <2>3
<1>8. QED
  BY <1>5, <1>6, <1>7

(* A block is entered: its frame is pushed, and its depths are noted. *)
LEMMA Entered ==
  ASSUME NEW a, NEW e, NEW sv, NEW s, NEW io, Core(a, e, sv, s, io), Fresh(a, e),
         NEW w, NEW x, NEW b, Retop(a, w, x, b),
         NEW y \in Depths, y.e = Len(e), y.s = Len(s), LabelFn[y.l] = w.fn,
         \A i \in DOMAIN w.blocks : w.blocks[i].l # y.l, Longer(w.blocks, y, x.blocks),
         NEW f, Longer(e, [a |-> Len(a), b |-> y.l], f), Typed(b, f, sv, s, io)
  PROVE  Core(b, f, sv, s, io) /\ Fresh(b, f)
<1>1. /\ Len(a) \in Nat \ {0} /\ DOMAIN a = 1 .. Len(a) /\ Len(e) \in Nat /\ Len(s) \in Nat
      /\ Len(sv) \in Nat /\ Len(a) \in 1 .. Len(a)
  BY CoreShape
<1>2. a[Len(a)] = w /\ b[Len(a)] = x /\ x.fn = w.fn /\ x.base = w.base
      /\ Len(b) = Len(a) /\ DOMAIN b = 1 .. Len(a)
  BY SMTT(30) DEF Retop
<1>3. \A k \in 1 .. Len(a) : k # Len(a) => b[k] = a[k] /\ k < Len(a) /\ k + 1 \in 1 .. Len(a)
  BY <1>1, Retopped
<1>4. \A k \in 1 .. Len(a) : Boxed(b, k) = Boxed(a, k)
  BY <1>1, Retopped
<1>5. w \in Calls /\ x \in Calls
  <2>1. a[Len(a)] \in Calls
    BY <1>1, CoreShape
  <2>2. b \in Seq(Calls)
    BY DEF Typed
  <2>3. b[Len(a)] \in Calls
    BY <1>1, <1>2, <2>2
  <2>4. QED
    BY <1>2, <2>1, <2>3
<1>6. HeightsAt(x, Len(s))
  <2>1. HeightsAt(w, Len(s))
    BY <1>1, <1>2 DEF Core, Heights, Above
  <2>2. QED
    BY <1>1, <1>2, <1>5, <2>1, HeightsEntered
<1>7. Kinds(b) /\ Counts(b, sv, io) /\ Heights(b, s)
  BY <1>6, Reblocked
<1>8. Chain(a, e, sv, Len(a)) = e
  BY TopChain
<1>9. ASSUME NEW k \in 1 .. Len(a)
      PROVE  \/ Chain(a, e, sv, k) = e /\ Chain(b, f, sv, k) = f
             \/ k # Len(a) /\ Chain(b, f, sv, k) = Chain(a, e, sv, k)
  <2>1. Boxed(b, k) = Boxed(a, k) /\ Boxed(a, Len(a)) = Len(sv)
    BY <1>4 DEF Core, Counts
  <2>2. QED
    BY <2>1 DEF Chain
<1>10. Chain(b, f, sv, Len(a)) = f
  BY <1>1, <1>9
<1>11. \A j \in 1 .. Len(e) : e[j].a \in 1 .. Len(a)
  BY <1>1, CoreShape, SMTT(30) DEF Fresh
<1>12. Noted(b, f, sv)
  <2>1. ASSUME NEW k \in 1 .. Len(a), k # Len(a) PROVE NotedAt(b[k], k, Chain(b, f, sv, k))
    <3>1. NotedAt(a[k], k, Chain(a, e, sv, k)) /\ b[k] = a[k] /\ k < Len(a) /\ k \in Nat
      <4>1. NotedAt(a[k], k, Chain(a, e, sv, k))
        BY <1>1 DEF Core, Noted
      <4>2. b[k] = a[k] /\ k < Len(a) /\ k \in Nat
        BY <1>3, <2>1
      <4>3. QED
        BY <4>1, <4>2
    <3>2. a[k] \in Calls
      BY CoreShape
    <3>3. NotedAt(a[k], k, e) => NotedAt(a[k], k, f)
      BY <1>1, <3>1, <3>2, NotedLonger
    <3>4. QED
      BY <1>9, <3>1, <3>3
  <2>2. NotedAt(x, Len(a), f)
    <3>1. NotedAt(w, Len(a), e)
      BY <1>1, <1>2, <1>8 DEF Core, Noted
    <3>2. Len(a) \in Nat
      BY <1>1
    <3>3. QED
      BY <1>1, <1>2, <1>5, <1>11, <3>1, <3>2, NotedEntered
  <2>3. QED
    BY <1>2, <1>10, <2>1, <2>2 DEF Noted
<1>13. Placed(b, f, sv)
  <2>1. ASSUME NEW k \in 1 .. Len(a), k # Len(a) PROVE PlacedAt(b[k], k, Chain(b, f, sv, k))
    <3>1. PlacedAt(a[k], k, Chain(a, e, sv, k)) /\ b[k] = a[k] /\ k \in Nat
      <4>1. PlacedAt(a[k], k, Chain(a, e, sv, k))
        BY <1>1, SMTT(30) DEF Core, Placed
      <4>2. b[k] = a[k] /\ k \in Nat
        BY <1>3, <2>1
      <4>3. QED
        BY <4>1, <4>2
    <3>2. PlacedAt(a[k], k, e) => PlacedAt(a[k], k, f)
      BY <1>1, <2>1, <3>1, PlacedLonger
    <3>3. QED
      BY <1>9, <3>1, <3>2
  <2>2. PlacedAt(x, Len(a), f)
    <3>1. PlacedAt(w, Len(a), e)
      BY <1>1, <1>2, <1>8 DEF Core, Placed
    <3>2. QED
      BY <1>1, <1>5, <3>1, PlacedEntered
  <2>3. QED
    BY <1>2, <1>10, <2>1, <2>2 DEF Placed
<1>14. /\ DOMAIN f = 1 .. Len(e) + 1 /\ f[Len(e) + 1] = [a |-> Len(a), b |-> y.l]
       /\ \A j \in 1 .. Len(e) : f[j] = e[j]
  BY DEF Longer
<1>15. \A j \in DOMAIN f : j \in 1 .. Len(e) \/ j = Len(e) + 1
  BY <1>1, <1>14
<1>16. Fresh(b, f)
  <2>1. \A j \in 1 .. Len(e) : f[j].a \in 1 .. Len(b)
    BY <1>2, <1>11, <1>14
  <2>2. f[Len(e) + 1].a \in 1 .. Len(b)
    BY <1>1, <1>2, <1>14
  <2>3. QED
    BY <1>15, <2>1, <2>2 DEF Fresh
<1>17. Live(b, f, sv)
  <2>1. ASSUME NEW z, z.a = Len(a), Owned(a, z) PROVE Owned(b, z)
    <3>1. x.kind = w.kind
      BY DEF Retop
    <3>2. CASE z.b = NoFrame
      BY <1>2, <2>1, <3>1, <3>2 DEF Owned
    <3>3. CASE z.b # NoFrame
      <4>1. PICK i \in DOMAIN w.blocks : w.blocks[i].l = z.b
        BY <1>2, <2>1, <3>3 DEF Owned
      <4>2. i \in DOMAIN x.blocks /\ x.blocks[i] = w.blocks[i]
        BY <1>5, CallShape DEF Longer
      <4>3. QED
        BY <1>2, <2>1, <3>3, <4>1, <4>2 DEF Owned
    <3>4. QED
      BY <3>2, <3>3
  <2>2. \A z : z.a \in 1 .. Len(a) /\ z.a # Len(a) /\ Owned(a, z) => Owned(b, z)
    BY RestLive
  <2>3. \A j \in 1 .. Len(e) : Owned(b, f[j])
    <3>1. TAKE j \in 1 .. Len(e)
    <3>2. e[j].a \in 1 .. Len(a) /\ Owned(a, e[j]) /\ f[j] = e[j]
      BY <1>1, <1>11, <1>14, CoreShape DEF Core, Live
    <3>3. QED
      BY <2>1, <2>2, <3>2
  <2>4. Owned(b, f[Len(e) + 1])
    <3>1. f[Len(e) + 1].a = Len(a) /\ f[Len(e) + 1].b = y.l /\ y.l # NoFrame
      BY <1>14, Tokens DEF Depths
    <3>2. Len(w.blocks) + 1 \in DOMAIN x.blocks /\ x.blocks[Len(w.blocks) + 1].l = y.l
      BY <1>5, CallShape DEF Longer
    <3>3. QED
      BY <1>2, <3>1, <3>2 DEF Owned
  <2>5. \A j \in DOMAIN f : f[j].a \in 1 .. Len(b) => Owned(b, f[j])
    BY <1>15, <2>3, <2>4
  <2>6. /\ \A d \in DOMAIN sv : \A j \in DOMAIN sv[d] :
              /\ sv[d][j].a \in 1 .. Len(b) /\ Owned(b, sv[d][j])
              /\ Boxed(b, sv[d][j].a) < d
        /\ \A k \in DOMAIN b : b[k].arg # NoArg =>
              \A j \in DOMAIN b[k].arg.env :
                b[k].arg.env[j].a \in 1 .. k - 1 /\ Owned(b, b[k].arg.env[j])
    BY RestLive
  <2>7. QED
    BY <2>5, <2>6 DEF Live
<1>18. QED
  BY <1>7, <1>12, <1>13, <1>16, <1>17 DEF Core

(* Blocks are left, by their ends or by a jump: the environment is cut to the first h
   frames. *)
LEMMA Landed ==
  ASSUME NEW a, NEW e, NEW sv, NEW s, NEW io, Core(a, e, sv, s, io),
         NEW w, NEW x, NEW b, Retop(a, w, x, b),
         NEW m, NEW h, CutTo(w, x, m, h), NEW f, Shorter(e, h, f),
         NEW t, HeightsAt(x, Len(t)), Typed(b, f, sv, t, io)
  PROVE  Core(b, f, sv, t, io) /\ Fresh(b, f)
<1>1. /\ Len(a) \in Nat \ {0} /\ DOMAIN a = 1 .. Len(a) /\ Len(e) \in Nat
      /\ DOMAIN e = 1 .. Len(e) /\ Len(sv) \in Nat /\ Len(a) \in 1 .. Len(a) /\ Len(a) \in Nat
  BY CoreShape
<1>2. a[Len(a)] = w /\ b[Len(a)] = x /\ x.kind = w.kind
      /\ Len(b) = Len(a) /\ DOMAIN b = 1 .. Len(a)
  BY DEF Retop
<1>3. \A k \in 1 .. Len(a) : k # Len(a) => b[k] = a[k] /\ k < Len(a) /\ k + 1 \in 1 .. Len(a)
  BY <1>1, Retopped
<1>4. \A k \in 1 .. Len(a) : Boxed(b, k) = Boxed(a, k)
  BY <1>1, Retopped
<1>5. w \in Calls
  BY <1>1, <1>2, CoreShape
<1>6. Kinds(b) /\ Counts(b, sv, io) /\ Heights(b, t)
  BY Reblocked
<1>7. Chain(a, e, sv, Len(a)) = e
  BY TopChain
<1>8. ASSUME NEW k \in 1 .. Len(a)
      PROVE  \/ Chain(a, e, sv, k) = e /\ Chain(b, f, sv, k) = f
             \/ k # Len(a) /\ Chain(b, f, sv, k) = Chain(a, e, sv, k)
  <2>1. Boxed(b, k) = Boxed(a, k) /\ Boxed(a, Len(a)) = Len(sv)
    BY <1>4 DEF Core, Counts
  <2>2. QED
    BY <2>1 DEF Chain
<1>9. Chain(b, f, sv, Len(a)) = f
  BY <1>1, <1>8
<1>10. NotedAt(w, Len(a), e) /\ PlacedAt(w, Len(a), e)
  BY <1>1, <1>2, <1>7 DEF Core, Noted, Placed
<1>11. h \in 0 .. Len(e) /\ \A j \in 1 .. h : e[j].a <= Len(a)
  BY <1>1, <1>5, <1>10, CutFrames
<1>12. PICK p \in {h, h + 1} : e[p].a = Len(a) /\ p > 0
  BY <1>1, <1>5, <1>10, CutFrames
<1>13. h \in Nat
  BY <1>1, <1>11
<1>14. Noted(b, f, sv)
  <2>1. ASSUME NEW k \in 1 .. Len(a), k # Len(a) PROVE NotedAt(b[k], k, Chain(b, f, sv, k))
    <3>1. NotedAt(a[k], k, Chain(a, e, sv, k)) /\ b[k] = a[k] /\ k < Len(a) /\ k \in Nat
      <4>1. NotedAt(a[k], k, Chain(a, e, sv, k))
        BY <1>1 DEF Core, Noted
      <4>2. b[k] = a[k] /\ k < Len(a) /\ k \in Nat
        BY <1>3, <2>1
      <4>3. QED
        BY <4>1, <4>2
    <3>2. a[k] \in Calls
      BY CoreShape
    <3>3. NotedAt(a[k], k, e) => NotedAt(a[k], k, f)
      BY <1>1, <1>12, <1>13, <3>1, <3>2, NotedShorter, SMTT(30)
    <3>4. QED
      BY <1>8, <3>1, <3>3
  <2>2. NotedAt(x, Len(a), f)
    BY <1>1, <1>5, <1>10, NotedCut
  <2>3. QED
    BY <1>2, <1>9, <2>1, <2>2 DEF Noted
<1>15. PlacedAt(x, Len(a), f)
  BY <1>1, <1>5, <1>10, PlacedCut
<1>16. Placed(b, f, sv)
  <2>1. ASSUME NEW k \in 1 .. Len(a), k # Len(a) PROVE PlacedAt(b[k], k, Chain(b, f, sv, k))
    <3>1. PlacedAt(a[k], k, Chain(a, e, sv, k)) /\ b[k] = a[k]
      BY <1>1, <1>3, <2>1 DEF Core, Placed
    <3>2. PlacedAt(a[k], k, e) => PlacedAt(a[k], k, f)
      BY <1>1, PlacedShorter
    <3>3. QED
      BY <1>8, <3>1, <3>2, SMTT(30)
  <2>2. QED
    BY <1>2, <1>9, <1>15, <2>1 DEF Placed
<1>17. /\ DOMAIN f = 1 .. h /\ \A j \in 1 .. h : f[j] = e[j] /\ j \in 1 .. Len(e)
  <2>1. DOMAIN f = 1 .. h /\ \A j \in 1 .. h : f[j] = e[j]
    BY DEF Shorter
  <2>2. \A j \in 1 .. h : j \in 1 .. Len(e)
    BY <1>1, <1>11
  <2>3. QED
    BY <2>1, <2>2
<1>18. Fresh(b, f)
  <2>1. \A j \in 1 .. Len(e) : e[j].a \in Nat /\ e[j].a > 0
    BY EnvFrames
  <2>2. ASSUME NEW j \in DOMAIN f PROVE f[j].a \in 1 .. Len(b)
    BY <1>1, <1>2, <1>11, <1>17, <2>1
  <2>3. QED
    BY <2>2 DEF Fresh
<1>19. Live(b, f, sv)
  <2>1. ASSUME NEW j \in DOMAIN f PROVE Owned(b, f[j])
    <3>1. f[j] = e[j] /\ j \in DOMAIN e /\ f[j].a \in 1 .. Len(a)
      BY <1>1, <1>2, <1>17, <1>18 DEF Fresh
    <3>2. Owned(a, f[j])
      BY <3>1 DEF Core, Live
    <3>3. CASE f[j].a = Len(a)
      <4>1. CASE f[j].b = NoFrame
        BY <1>2, <3>2, <3>3, <4>1 DEF Owned
      <4>2. CASE f[j].b # NoFrame
        BY <1>2, <1>15, <3>3, <4>2 DEF Owned, PlacedAt
      <4>3. QED
        BY <4>1, <4>2
    <3>4. CASE f[j].a # Len(a)
      BY <3>1, <3>2, <3>4, RestLive
    <3>5. QED
      BY <3>3, <3>4
  <2>2. /\ \A d \in DOMAIN sv : \A j \in DOMAIN sv[d] :
              /\ sv[d][j].a \in 1 .. Len(b) /\ Owned(b, sv[d][j])
              /\ Boxed(b, sv[d][j].a) < d
        /\ \A k \in DOMAIN b : b[k].arg # NoArg =>
              \A j \in DOMAIN b[k].arg.env :
                b[k].arg.env[j].a \in 1 .. k - 1 /\ Owned(b, b[k].arg.env[j])
    BY RestLive
  <2>3. QED
    BY <2>1, <2>2 DEF Live
<1>20. QED
  BY <1>6, <1>14, <1>16, <1>18, <1>19 DEF Core

-----------------------------------------------------------------------------
(* Returns. *)

(* what the end of call y does to the environment, the saved ones and the catches *)
Restored(y, e, sv, io, f, tv, jo) ==
  /\ IF y.kind = "boxed" THEN Longer(tv, f, sv) ELSE f = e /\ tv = sv
  /\ IF y.kind = "prelude" THEN \E c : Longer(jo, c, io) ELSE jo = io

(* the last call goes, with the environment, the saved environments and the catches it found *)
LEMMA Popped ==
  ASSUME NEW a, NEW e, NEW sv, NEW s, NEW io, Core(a, e, sv, s, io),
         NEW y, NEW b, Longer(b, y, a), Len(b) \in Nat \ {0},
         NEW f, NEW tv, NEW jo, Restored(y, e, sv, io, f, tv, jo),
         NEW t, HeightsAt(b[Len(b)], Len(t)), Typed(b, f, tv, t, jo)
  PROVE  /\ Core(b, f, tv, t, jo)
         /\ y.kind = "boxed" \/ (y.blocks = <<>> /\ Fresh(a, e)) => Fresh(b, f)
<1>1. /\ Len(a) = Len(b) + 1 /\ DOMAIN a = 1 .. Len(b) + 1 /\ DOMAIN b = 1 .. Len(b)
      /\ a[Len(b) + 1] = y /\ \A k \in 1 .. Len(b) : a[k] = b[k]
  BY DEF Longer
<1>2. \A k \in 1 .. Len(b) : Boxed(a, k) = Boxed(b, k) /\ Catches(a, k) = Catches(b, k)
  BY Pushed
<1>3. /\ Boxed(a, Len(b) + 1) = Boxed(b, Len(b)) + (IF y.kind = "boxed" THEN 1 ELSE 0)
      /\ Catches(a, Len(b) + 1) = Catches(b, Len(b)) + (IF y.kind = "prelude" THEN 1 ELSE 0)
  BY Pushed
<1>4. /\ Len(b) \in 1 .. Len(b) /\ Len(b) + 1 \in DOMAIN a
      /\ \A k \in 1 .. Len(b) : /\ k \in DOMAIN a /\ k \in Nat \ {0} /\ k # Len(b) + 1
                                /\ k # Len(b) => k + 1 \in 1 .. Len(b)
  BY <1>1
<1>5. \A k \in 1 .. Len(b) : Boxed(b, k) \in Nat /\ Catches(b, k) \in Nat
  BY <1>4, BoxedNext, CatchesNext
<1>6. \A k \in 1 .. Len(b) : Boxed(b, k) <= Boxed(b, Len(b)) /\ Catches(b, k) <= Catches(b, Len(b))
  BY CountsGrow
<1>7. /\ Len(sv) = Boxed(a, Len(b) + 1) /\ Len(io) = Catches(a, Len(b) + 1)
      /\ Len(sv) \in Nat /\ Len(io) \in Nat
  BY <1>1, CoreShape DEF Core, Counts
<1>8. /\ Len(tv) = Boxed(b, Len(b)) /\ Len(tv) \in Nat
      /\ \A d \in 1 .. Len(tv) : d \in DOMAIN sv /\ tv[d] = sv[d]
      /\ DOMAIN tv = 1 .. Len(tv)
      /\ y.kind = "boxed" => /\ Len(sv) = Len(tv) + 1 /\ f = sv[Len(tv) + 1]
                             /\ Len(tv) + 1 \in DOMAIN sv
      /\ y.kind # "boxed" => f = e /\ tv = sv
  <2>1. CASE y.kind = "boxed"
    <3>1. Longer(tv, f, sv)
      BY <2>1 DEF Restored
    <3>2. Len(sv) = Boxed(b, Len(b)) + 1 /\ Boxed(b, Len(b)) \in Nat
      BY <1>3, <1>4, <1>5, <1>7, <2>1
    <3>3. Len(sv) = Len(tv) + 1 /\ Len(tv) \in Nat
      BY <3>1 DEF Longer, Typed
    <3>4. Len(tv) = Boxed(b, Len(b))
      BY <3>2, <3>3
    <3>5. /\ \A d \in 1 .. Len(tv) : d \in DOMAIN sv /\ tv[d] = sv[d]
          /\ DOMAIN tv = 1 .. Len(tv) /\ f = sv[Len(tv) + 1] /\ Len(tv) + 1 \in DOMAIN sv
      BY <3>1, <3>3 DEF Longer
    <3>6. QED
      BY <2>1, <3>3, <3>4, <3>5
  <2>2. CASE y.kind # "boxed"
    <3>1. f = e /\ tv = sv
      BY <2>2 DEF Restored
    <3>2. Len(sv) = Boxed(b, Len(b))
      BY <1>3, <1>4, <1>5, <1>7, <2>2
    <3>3. DOMAIN sv = 1 .. Len(sv)
      BY CoreShape
    <3>4. QED
      BY <1>7, <2>2, <3>1, <3>2, <3>3
  <2>3. QED
    BY <2>1, <2>2
<1>9. /\ Len(jo) = Catches(b, Len(b))
      /\ \A d \in 1 .. Len(jo) : jo[d] = io[d]
  <2>1. CASE y.kind = "prelude"
    <3>1. PICK c : Longer(jo, c, io)
      BY <2>1 DEF Restored
    <3>2. Len(io) = Catches(b, Len(b)) + 1 /\ Catches(b, Len(b)) \in Nat
      BY <1>3, <1>4, <1>5, <1>7, <2>1
    <3>3. Len(io) = Len(jo) + 1 /\ Len(jo) \in Nat
      BY <3>1 DEF Longer, Typed
    <3>4. Len(jo) = Catches(b, Len(b))
      BY <3>2, <3>3
    <3>5. QED
      BY <3>1, <3>4 DEF Longer
  <2>2. CASE y.kind # "prelude"
    <3>1. jo = io
      BY <2>2 DEF Restored
    <3>2. Len(io) = Catches(b, Len(b))
      <4>1. Catches(b, Len(b)) \in Nat
        BY <1>4, <1>5
      <4>2. Catches(a, Len(b) + 1) = Catches(b, Len(b)) + 0
        BY <1>3, <2>2
      <4>3. QED
        BY <1>7, <4>1, <4>2
    <3>3. QED
      BY <3>1, <3>2
  <2>3. QED
    BY <2>1, <2>2
<1>10. ASSUME NEW k \in 1 .. Len(b)
       PROVE  /\ b[k].kind = "prelude" <=> b[k].fn = Prelude
              /\ b[k].kind = "prelude" => b[k].blocks = <<>> /\ b[k].arg # NoArg
              /\ b[k].kind = "prelude" /\ k < Len(b) => b[k + 1].kind = "boxed"
  <2>1. /\ a[k].kind = "prelude" <=> a[k].fn = Prelude
        /\ a[k].kind = "prelude" => a[k].blocks = <<>> /\ a[k].arg # NoArg
        /\ a[k].kind = "prelude" /\ k < Len(a) => a[k + 1].kind = "boxed"
    BY <1>4 DEF Core, Kinds
  <2>2. a[k] = b[k]
    BY <1>1
  <2>3. k < Len(b) => k < Len(a) /\ a[k + 1] = b[k + 1]
    <3>1. k < Len(b) => k + 1 \in 1 .. Len(b) /\ k < Len(b) + 1
      BY <1>4
    <3>2. QED
      BY <1>1, <3>1
  <2>4. QED
    BY <2>1, <2>2, <2>3
<1>11. Kinds(b)
  <2>1. b[1].kind = "boxed"
    <3>1. 1 \in 1 .. Len(b)
      BY <1>4
    <3>2. a[1] = b[1]
      BY <1>1, <3>1
    <3>3. QED
      BY <3>2 DEF Core, Kinds
  <2>2. QED
    BY <1>1, <1>10, <2>1 DEF Kinds
<1>12. Counts(b, tv, jo)
  <2>1. ASSUME NEW k \in 1 .. Len(b), b[k].kind = "prelude"
        PROVE  jo[Catches(b, k)] = [sp0 |-> b[k].base, env0 |-> Boxed(b, k)]
    <3>1. io[Catches(a, k)] = [sp0 |-> a[k].base, env0 |-> Boxed(a, k)]
      BY <1>1, <1>4, <2>1 DEF Core, Counts
    <3>2. io[Catches(b, k)] = [sp0 |-> b[k].base, env0 |-> Boxed(b, k)]
      BY <1>1, <1>2, <3>1
    <3>3. Catches(b, k) # 0
      <4>1. k - 1 \in Nat \ {0} /\ (k - 1) + 1 = k
        <5>1. k # 1
          BY <1>11, <2>1 DEF Kinds
        <5>2. QED
          BY <1>4, <5>1
      <4>2. /\ Catches(b, k - 1) \in Nat
            /\ Catches(b, (k - 1) + 1) = Catches(b, k - 1) + (IF b[(k - 1) + 1].kind = "prelude" THEN 1 ELSE 0)
        BY <4>1, CatchesNext
      <4>3. QED
        BY <2>1, <4>1, <4>2
    <3>4. Catches(b, k) \in 1 .. Len(jo)
      BY <1>4, <1>5, <1>6, <1>9, <3>3
    <3>5. QED
      BY <1>9, <3>2, <3>4
  <2>2. QED
    BY <1>1, <1>8, <1>9, <2>1, SMTT(30) DEF Counts
<1>13. Heights(b, t)
  <2>1. ASSUME NEW k \in 1 .. Len(b) PROVE HeightsAt(b[k], Above(b, t, k))
    <3>1. CASE k = Len(b)
      BY <3>1 DEF Above
    <3>2. CASE k # Len(b)
      <4>1. HeightsAt(a[k], Above(a, s, k)) /\ a[k] = b[k]
        BY <1>1, <1>4, ZenonT(30) DEF Core, Heights
      <4>2. k # Len(a) /\ a[k + 1] = b[k + 1]
        BY <1>1, <1>4, <3>2
      <4>3. Above(b, t, k) = Above(a, s, k)
        BY <3>2, <4>2 DEF Above
      <4>4. QED
        BY <4>1, <4>3
    <3>3. QED
      BY <3>1, <3>2
  <2>2. QED
    BY <1>1, <2>1 DEF Heights
<1>14. ASSUME NEW k \in 1 .. Len(b) PROVE Chain(b, f, tv, k) = Chain(a, e, sv, k)
  <2>1. Boxed(a, k) = Boxed(b, k) /\ Boxed(b, k) \in Nat /\ Boxed(b, k) <= Len(tv)
    BY <1>2, <1>5, <1>6, <1>8
  <2>2. CASE y.kind = "boxed"
    <3>1. /\ Boxed(b, k) # Len(sv)
          /\ Boxed(b, k) # Len(tv) => tv[Boxed(b, k) + 1] = sv[Boxed(b, k) + 1]
          /\ f = sv[Len(tv) + 1]
      BY <1>8, <2>1, <2>2
    <3>2. QED
      BY <2>1, <3>1 DEF Chain
  <2>3. CASE y.kind # "boxed"
    BY <1>8, <2>1, <2>3 DEF Chain
  <2>4. QED
    BY <2>2, <2>3
<1>15. Noted(b, f, tv)
  <2>1. ASSUME NEW k \in 1 .. Len(b) PROVE NotedAt(b[k], k, Chain(b, f, tv, k))
    <3>1. NotedAt(a[k], k, Chain(a, e, sv, k))
      BY <1>4 DEF Core, Noted
    <3>2. QED
      BY <1>1, <1>14, <3>1
  <2>2. QED
    BY <1>1, <2>1 DEF Noted
<1>16. Placed(b, f, tv)
  <2>1. ASSUME NEW k \in 1 .. Len(b) PROVE PlacedAt(b[k], k, Chain(b, f, tv, k))
    <3>1. PlacedAt(a[k], k, Chain(a, e, sv, k))
      BY <1>4 DEF Core, Placed
    <3>2. QED
      BY <1>1, <1>14, <3>1
  <2>2. QED
    BY <1>1, <2>1 DEF Placed
<1>17. ASSUME NEW z, z.a \in 1 .. Len(b), Owned(a, z) PROVE Owned(b, z)
  <2>1. a[z.a] = b[z.a]
    BY <1>1, <1>17
  <2>2. QED
    BY <1>17, <2>1 DEF Owned
<1>18. ASSUME NEW d \in DOMAIN sv, NEW j \in DOMAIN sv[d], d <= Len(tv) + 1
       PROVE  /\ sv[d][j].a \in 1 .. Len(b) /\ Owned(b, sv[d][j])
              /\ Boxed(b, sv[d][j].a) < d
  <2>1. sv[d][j].a \in 1 .. Len(a) /\ Owned(a, sv[d][j]) /\ Boxed(a, sv[d][j].a) < d
    BY DEF Core, Live
  <2>2. sv[d][j].a # Len(a)
    BY TopChain
  <2>3. sv[d][j].a \in 1 .. Len(b)
    BY <1>1, <2>1, <2>2
  <2>4. QED
    BY <1>2, <1>17, <2>1, <2>3
<1>19. ASSUME NEW d \in DOMAIN tv, NEW j \in DOMAIN tv[d]
       PROVE  /\ tv[d][j].a \in 1 .. Len(b) /\ Owned(b, tv[d][j])
              /\ Boxed(b, tv[d][j].a) < d
  <2>1. d \in DOMAIN sv /\ tv[d] = sv[d] /\ d <= Len(tv) + 1
    BY <1>8
  <2>2. QED
    BY <1>18, <2>1
<1>20. y.kind = "boxed" => \A j \in DOMAIN f : f[j].a \in 1 .. Len(b) /\ Owned(b, f[j])
  <2>1. SUFFICES ASSUME y.kind = "boxed", NEW j \in DOMAIN f
        PROVE  f[j].a \in 1 .. Len(b) /\ Owned(b, f[j])
    OBVIOUS
  <2>2. Len(tv) + 1 \in DOMAIN sv /\ f = sv[Len(tv) + 1] /\ Len(tv) + 1 <= Len(tv) + 1
    BY <1>8, <2>1
  <2>3. QED
    BY <1>18, <2>1, <2>2
<1>21. Live(b, f, tv)
  <2>1. \A j \in DOMAIN f : f[j].a \in 1 .. Len(b) => Owned(b, f[j])
    <3>1. CASE y.kind = "boxed"
      BY <1>20, <3>1
    <3>2. CASE y.kind # "boxed"
      <4>1. TAKE j \in DOMAIN f
      <4>2. f = e /\ (f[j].a \in 1 .. Len(b) => f[j].a \in 1 .. Len(a))
        BY <1>1, <1>8, <3>2
      <4>3. f[j].a \in 1 .. Len(b) => Owned(a, f[j])
        BY <4>2 DEF Core, Live
      <4>4. QED
        BY <1>17, <4>3
    <3>3. QED
      BY <3>1, <3>2
  <2>2. ASSUME NEW k \in DOMAIN b, b[k].arg # NoArg, NEW j \in DOMAIN b[k].arg.env
        PROVE  b[k].arg.env[j].a \in 1 .. k - 1 /\ Owned(b, b[k].arg.env[j])
    <3>1. a[k] = b[k] /\ k \in DOMAIN a /\ k \in 1 .. Len(b)
      BY <1>1, <1>4
    <3>2. b[k].arg.env[j].a \in 1 .. k - 1 /\ Owned(a, b[k].arg.env[j])
      BY <2>2, <3>1 DEF Core, Live
    <3>3. b[k].arg.env[j].a \in 1 .. Len(b)
      BY <1>1, <3>1, <3>2
    <3>4. QED
      BY <1>17, <3>2, <3>3
  <2>3. QED
    BY <1>19, <2>1, <2>2 DEF Live
<1>22. ASSUME y.kind # "boxed", y.blocks = <<>>, Fresh(a, e) PROVE Fresh(b, f)
  <2>1. f = e
    BY <1>8, <1>22
  <2>2. ASSUME NEW j \in DOMAIN e PROVE e[j].a \in 1 .. Len(b)
    <3>1. e[j].a \in 1 .. Len(a) /\ Owned(a, e[j])
      BY <1>22 DEF Core, Live, Fresh
    <3>2. e[j].a # Len(b) + 1
      BY <1>1, <1>22, <3>1 DEF Owned
    <3>3. QED
      BY <1>1, <3>1, <3>2
  <2>3. QED
    BY <2>1, <2>2 DEF Fresh
<1>23. y.kind = "boxed" => Fresh(b, f)
  BY <1>20 DEF Fresh
<1>24. QED
  BY <1>11, <1>12, <1>13, <1>15, <1>16, <1>21, <1>22, <1>23 DEF Core

-----------------------------------------------------------------------------
(* What runs inside what. *)

(* the routines that run inside a call start others that do *)
LEMMA ExtentStep ==
  ASSUME NEW f \in Fn, NEW g \in Fn, g = f \/ g \in Extent(f), NEW h \in Fn, h \in Inside(g)
  PROVE  h \in Extent(f)
<1>1. SUFFICES ASSUME NEW S \in SUBSET Fn, Inside(f) \subseteq S, \A i \in S : Inside(i) \subseteq S
      PROVE  h \in S
  BY DEF Extent
<1>2. CASE g = f
  BY <1>1, <1>2
<1>3. CASE g \in Extent(f)
  <2>1. g \in S
    BY <1>1, <1>3 DEF Extent
  <2>2. QED
    BY <1>1, <2>1
<1>4. QED
  BY <1>2, <1>3

(* the routines free of jumps call each other only *)
LEMMA JumpFreeCalls ==
  ASSUME NEW f \in jumpFreeSet
  PROVE  /\ f \in Fn /\ ~Text[f].param /\ \A g \in Text[f].calls : g \in jumpFreeSet
         /\ \A l \in Text[f].gotos : LabelFn[l] = f
<1>1. PICK S \in SUBSET (Fn \ {Main}) : f \in S /\ \A i \in S : ~mayJumpOut(i, S)
  BY DEF jumpFreeSet
<1>2. ~mayJumpOut(f, S)
  BY <1>1
<1>3. \A g \in S : g \in jumpFreeSet
  BY <1>1 DEF jumpFreeSet
<1>4. QED
  BY <1>1, <1>2, <1>3 DEF mayJumpOut

(* Call x, the last one, may make call y: y's routine runs inside whatever x runs inside, and
   is free of jumps if x's is. *)
MayMake(x, y) ==
  /\ y.kind # "prelude" /\ y.arg # NoArg => \E g \in Fn : y.arg.fn \in Text[g].passes
  /\ \A f \in Fn :
       (x.kind # "prelude" /\ f = x.fn) \/ Runs(x) \in Extent(f) => Runs(y) \in Extent(f)
  /\ Runs(x) \in jumpFreeSet => Runs(y) \in jumpFreeSet
  /\ ~y.checked => Runs(y) \in jumpFreeSet

(* a call that may be made keeps to what may run inside what *)
LEMMA PushedWithin ==
  ASSUME NEW a, Len(a) \in Nat \ {0}, Within(a), NEW y, NEW b, Longer(a, y, b),
         \A j \in 1 .. Len(a) : a[j].kind # "prelude" => a[j].fn \in Fn, MayMake(a[Len(a)], y)
  PROVE  Within(b)
<1>1. /\ Len(b) = Len(a) + 1 /\ DOMAIN a = 1 .. Len(a) /\ DOMAIN b = 1 .. Len(a) + 1
      /\ b[Len(a) + 1] = y /\ \A k \in 1 .. Len(a) : b[k] = a[k]
  BY DEF Longer
<1>2. \A k \in DOMAIN b : k \in 1 .. Len(a) \/ k = Len(a) + 1
  BY <1>1
<1>3. ASSUME NEW k \in DOMAIN b, b[k].kind # "prelude", b[k].arg # NoArg
      PROVE  \E g \in Fn : b[k].arg.fn \in Text[g].passes
  <2>1. CASE k \in 1 .. Len(a)
    BY <1>1, <1>3, <2>1 DEF Within
  <2>2. CASE k = Len(a) + 1
    BY <1>1, <1>3, <2>2 DEF MayMake
  <2>3. QED
    BY <1>2, <2>1, <2>2
<1>4. ASSUME NEW k \in DOMAIN b, NEW j \in 1 .. k - 1, b[j].kind # "prelude"
      PROVE  Runs(b[k]) \in Extent(b[j].fn)
  <2>1. CASE k \in 1 .. Len(a)
    <3>1. b[k] = a[k] /\ b[j] = a[j] /\ k \in DOMAIN a
      BY <1>1, <2>1
    <3>2. QED
      BY <1>4, <3>1 DEF Within
  <2>2. CASE k = Len(a) + 1
    <3>1. b[k] = y /\ b[j] = a[j] /\ j \in 1 .. Len(a)
      BY <1>1, <2>2
    <3>2. a[j].fn \in Fn
      BY <1>4, <3>1
    <3>3. CASE j = Len(a)
      BY <1>4, <3>1, <3>2, <3>3 DEF MayMake
    <3>4. CASE j # Len(a)
      <4>1. Len(a) \in DOMAIN a /\ j \in 1 .. Len(a) - 1
        <5>1. Len(a) \in DOMAIN a
          BY <1>1
        <5>2. j \in 1 .. Len(a)
          BY <3>1
        <5>3. QED
          BY <5>1, <5>2, <3>4
      <4>2. Runs(a[Len(a)]) \in Extent(a[j].fn)
        BY <1>4, <3>1, <4>1 DEF Within
      <4>3. QED
        BY <3>1, <3>2, <4>2 DEF MayMake
    <3>5. QED
      BY <3>3, <3>4
  <2>3. QED
    BY <1>2, <2>1, <2>2
<1>5. QED
  BY <1>3, <1>4 DEF Within

(* and, below a call site without a test, to what is free of jumps *)
LEMMA PushedQuiet ==
  ASSUME NEW a, Len(a) \in Nat \ {0}, Quiet(a), NEW y, NEW b, Longer(a, y, b),
         MayMake(a[Len(a)], y)
  PROVE  Quiet(b)
<1>1. /\ Len(b) = Len(a) + 1 /\ DOMAIN a = 1 .. Len(a) /\ DOMAIN b = 1 .. Len(a) + 1
      /\ b[Len(a) + 1] = y /\ \A k \in 1 .. Len(a) : b[k] = a[k]
  BY DEF Longer
<1>2. ASSUME NEW k \in DOMAIN b, ~b[k].checked, NEW j \in k .. Len(b)
      PROVE  Runs(b[j]) \in jumpFreeSet
  <2>1. CASE k \in 1 .. Len(a)
    <3>1. k \in DOMAIN a /\ b[k] = a[k] /\ Len(a) \in k .. Len(a)
      BY <1>1, <2>1
    <3>2. \A i \in k .. Len(a) : Runs(a[i]) \in jumpFreeSet
      BY <1>2, <3>1 DEF Quiet
    <3>3. CASE j = Len(a) + 1
      <4>1. Runs(y) \in jumpFreeSet
        BY <3>1, <3>2 DEF MayMake
      <4>2. QED
        BY <1>1, <3>3, <4>1
    <3>4. CASE j # Len(a) + 1
      <4>1. j \in k .. Len(a) /\ b[j] = a[j]
        BY <1>1, <2>1, <3>4
      <4>2. QED
        BY <3>2, <4>1
    <3>5. QED
      BY <3>3, <3>4
  <2>2. CASE k = Len(a) + 1
    <3>1. b[k] = y /\ b[j] = y
      BY <1>1, <2>2
    <3>2. QED
      BY <1>2, <3>1 DEF MayMake
  <2>3. QED
    BY <1>1, <2>1, <2>2
<1>3. QED
  BY <1>2 DEF Quiet

(* the calls that remain keep to both *)
LEMMA PoppedWithin ==
  ASSUME NEW a, Within(a), Quiet(a), NEW y, NEW b, Longer(b, y, a), Len(b) \in Nat \ {0}
  PROVE  Within(b) /\ Quiet(b)
<1>1. /\ Len(a) = Len(b) + 1 /\ DOMAIN a = 1 .. Len(b) + 1 /\ DOMAIN b = 1 .. Len(b)
      /\ \A k \in 1 .. Len(b) : a[k] = b[k]
  BY DEF Longer
<1>2. \A k \in 1 .. Len(b) : k \in DOMAIN a
  BY <1>1
<1>3. ASSUME NEW k \in DOMAIN b, b[k].kind # "prelude", b[k].arg # NoArg
      PROVE  \E g \in Fn : b[k].arg.fn \in Text[g].passes
  BY <1>1, <1>2, <1>3 DEF Within
<1>4. ASSUME NEW k \in DOMAIN b, NEW j \in 1 .. k - 1, b[j].kind # "prelude"
      PROVE  Runs(b[k]) \in Extent(b[j].fn)
  <2>1. a[k] = b[k] /\ a[j] = b[j] /\ k \in DOMAIN a
    BY <1>1, <1>2
  <2>2. QED
    BY <1>4, <2>1 DEF Within
<1>5. ASSUME NEW k \in DOMAIN b, ~b[k].checked, NEW j \in k .. Len(b)
      PROVE  Runs(b[j]) \in jumpFreeSet
  <2>1. a[k] = b[k] /\ a[j] = b[j] /\ k \in DOMAIN a /\ j \in k .. Len(a)
    BY <1>1, <1>2
  <2>2. QED
    BY <1>5, <2>1 DEF Quiet
<1>6. QED
  BY <1>3, <1>4, <1>5 DEF Within, Quiet

(* blocks are no matter to either *)
LEMMA RetopWithin ==
  ASSUME NEW a, Len(a) \in Nat \ {0}, DOMAIN a = 1 .. Len(a), Within(a), Quiet(a),
         NEW w, NEW x, x.checked = w.checked, NEW b, Retop(a, w, x, b)
  PROVE  Within(b) /\ Quiet(b)
<1>1. Len(b) = Len(a) /\ DOMAIN b = 1 .. Len(a)
  BY DEF Retop
<1>2. \A k \in 1 .. Len(a) : /\ b[k].fn = a[k].fn /\ b[k].kind = a[k].kind
                             /\ b[k].arg = a[k].arg /\ b[k].base = a[k].base
  BY Retopped
<1>3. \A k \in 1 .. Len(a) : Runs(b[k]) = Runs(a[k])
  BY <1>2 DEF Runs
<1>4. \A k \in 1 .. Len(a) : k # Len(a) => b[k] = a[k] /\ k < Len(a) /\ k + 1 \in 1 .. Len(a)
  BY Retopped
<1>5. \A k \in 1 .. Len(a) : b[k].checked = a[k].checked
  <2>1. b[Len(a)].checked = a[Len(a)].checked
    BY DEF Retop
  <2>2. QED
    BY <1>4, <2>1
<1>6. ASSUME NEW k \in DOMAIN b, b[k].kind # "prelude", b[k].arg # NoArg
      PROVE  \E g \in Fn : b[k].arg.fn \in Text[g].passes
  BY <1>1, <1>2, <1>6 DEF Within
<1>7. ASSUME NEW k \in DOMAIN b, NEW j \in 1 .. k - 1, b[j].kind # "prelude"
      PROVE  Runs(b[k]) \in Extent(b[j].fn)
  <2>1. k \in 1 .. Len(a) /\ j \in 1 .. Len(a) /\ k \in DOMAIN a
    BY <1>1
  <2>2. Runs(b[k]) = Runs(a[k]) /\ b[k].arg = a[k].arg /\ b[j].fn = a[j].fn /\ a[j].kind # "prelude"
    BY <1>2, <1>3, <1>7, <2>1
  <2>3. QED
    BY <2>1, <2>2 DEF Within
<1>8. ASSUME NEW k \in DOMAIN b, ~b[k].checked, NEW j \in k .. Len(b)
      PROVE  Runs(b[j]) \in jumpFreeSet
  <2>1. k \in DOMAIN a /\ ~a[k].checked /\ j \in 1 .. Len(a) /\ j \in k .. Len(a)
    BY <1>1, <1>5, <1>8
  <2>2. Runs(a[j]) \in jumpFreeSet
    BY <2>1 DEF Quiet
  <2>3. QED
    BY <1>3, <2>1, <2>2
<1>9. QED
  BY <1>6, <1>7, <1>8 DEF Within, Quiet

-----------------------------------------------------------------------------
(* Operands. *)

(* more operands do not reach into a block *)
LEMMA HeightsMore ==
  ASSUME NEW x \in Calls, NEW h \in Nat, HeightsAt(x, h), NEW g \in Nat, h <= g
  PROVE  HeightsAt(x, g)
<1>1. /\ Len(x.blocks) \in Nat /\ DOMAIN x.blocks = 1 .. Len(x.blocks) /\ x.base \in Nat
      /\ \A i \in 1 .. Len(x.blocks) : x.blocks[i].s \in Nat
  BY CallShape
<1>2. x.base <= g
  BY <1>1 DEF HeightsAt
<1>3. ASSUME NEW i \in DOMAIN x.blocks
      PROVE  /\ x.base <= x.blocks[i].s /\ x.blocks[i].s <= g
             /\ \A j \in 1 .. i : x.blocks[j].s <= x.blocks[i].s
  <2>1. /\ x.base <= x.blocks[i].s /\ x.blocks[i].s <= h
        /\ \A j \in 1 .. i : x.blocks[j].s <= x.blocks[i].s
    BY DEF HeightsAt
  <2>2. x.blocks[i].s \in Nat
    BY <1>1
  <2>3. QED
    BY <2>1, <2>2
<1>4. QED
  BY <1>2, <1>3 DEF HeightsAt

(* down to the depth the innermost block has noted *)
LEMMA HeightsLess ==
  ASSUME NEW x \in Calls, NEW h \in Nat, HeightsAt(x, h), NEW g \in Nat,
         IF x.blocks = <<>> THEN x.base <= g ELSE x.blocks[Len(x.blocks)].s <= g
  PROVE  HeightsAt(x, g)
<1> DEFINE n == Len(x.blocks)
<1>1. /\ n \in Nat /\ DOMAIN x.blocks = 1 .. n /\ x.base \in Nat
      /\ \A i \in 1 .. n : x.blocks[i].s \in Nat
  BY CallShape
<1>2. \A i \in 1 .. n : x.base <= x.blocks[i].s /\ \A j \in 1 .. i : x.blocks[j].s <= x.blocks[i].s
  BY <1>1 DEF HeightsAt
<1>3. x.blocks \in Seq(Depths)
  BY DEF Calls
<1>4. n = 0 <=> x.blocks = <<>>
  BY <1>3
<1>5. n = 0 => x.base <= g
  BY <1>4
<1>6. n # 0 => x.blocks[n].s <= g
  BY <1>4
<1> HIDE DEF n
<1>7. ASSUME NEW i \in 1 .. n PROVE x.blocks[i].s <= g
  <2>1. n \in 1 .. n /\ n # 0 /\ i \in 1 .. n
    BY <1>1
  <2>2. x.blocks[i].s <= x.blocks[n].s /\ x.blocks[n].s <= g
    BY <1>2, <1>6, <2>1
  <2>3. x.blocks[i].s \in Nat /\ x.blocks[n].s \in Nat
    BY <1>1, <2>1
  <2>4. QED
    BY <2>2, <2>3
<1>8. x.base <= g
  <2>1. CASE n = 0
    BY <1>5, <2>1
  <2>2. CASE n # 0
    <3>1. n \in 1 .. n
      BY <1>1, <2>2
    <3>2. x.base <= x.blocks[n].s /\ x.blocks[n].s <= g /\ x.blocks[n].s \in Nat
      BY <1>1, <1>2, <1>6, <2>2, <3>1
    <3>3. QED
      BY <1>1, <3>2
  <2>3. QED
    BY <2>1, <2>2
<1>9. QED
  BY <1>1, <1>2, <1>7, <1>8 DEF HeightsAt

(* with fewer blocks, and down to the depth the last of them has noted *)
LEMMA HeightsCut ==
  ASSUME NEW w \in Calls, NEW h \in Nat, HeightsAt(w, h), NEW x, NEW m, NEW c, CutTo(w, x, m, c),
         NEW g \in Nat, g = h \/ (m > 0 /\ g = w.blocks[m].s)
  PROVE  HeightsAt(x, g)
<1> DEFINE n == Len(w.blocks)
<1>1. /\ n \in Nat /\ DOMAIN w.blocks = 1 .. n /\ w.base \in Nat
      /\ \A i \in 1 .. n : w.blocks[i].s \in Nat
  BY CallShape
<1>2. /\ w.base <= h
      /\ \A i \in 1 .. n : /\ w.base <= w.blocks[i].s /\ w.blocks[i].s <= h
                           /\ \A j \in 1 .. i : w.blocks[j].s <= w.blocks[i].s
  BY <1>1 DEF HeightsAt
<1>3. /\ m \in 0 .. n /\ DOMAIN x.blocks = 1 .. m /\ x.base = w.base
      /\ \A i \in 1 .. m : x.blocks[i] = w.blocks[i]
  BY DEF CutTo, Shorter
<1> HIDE DEF n
<1>4. x.base <= g /\ \A i \in 1 .. m : w.blocks[i].s <= g
  <2>1. CASE g = h
    <3>1. \A i \in 1 .. m : i \in 1 .. n
      BY <1>1, <1>3
    <3>2. QED
      BY <1>2, <1>3, <2>1, <3>1
  <2>2. CASE m > 0 /\ g = w.blocks[m].s
    <3>1. m \in 1 .. n
      BY <1>1, <1>3, <2>2
    <3>2. QED
      BY <1>2, <1>3, <2>2, <3>1
  <2>3. QED
    BY <2>1, <2>2
<1>5. ASSUME NEW i \in 1 .. m
      PROVE  /\ x.base <= x.blocks[i].s /\ x.blocks[i].s <= g
             /\ \A j \in 1 .. i : x.blocks[j].s <= x.blocks[i].s
  <2>1. i \in 1 .. n /\ \A j \in 1 .. i : j \in 1 .. m
    BY <1>1, <1>3
  <2>2. QED
    BY <1>2, <1>3, <1>4, <2>1
<1>6. QED
  BY <1>3, <1>4, <1>5 DEF HeightsAt

(* where the frame of the innermost block is *)
LEMMA LastBlock ==
  ASSUME NEW w \in Calls, NEW k \in Nat, NEW c, Len(c) \in Nat, DOMAIN c = 1 .. Len(c),
         NotedAt(w, k, c), \A j \in 1 .. Len(c) : c[j].a \in 1 .. k, Len(w.blocks) > 0
  PROVE  /\ Len(c) = w.blocks[Len(w.blocks)].e + 1
         /\ Len(w.blocks) > 1 => Len(c) = w.blocks[Len(w.blocks) - 1].e + 2
<1> DEFINE n == Len(w.blocks)
<1>1. n \in Nat /\ DOMAIN w.blocks = 1 .. n /\ \A i \in 1 .. n : w.blocks[i].e \in Nat
  BY CallShape
<1>2. n \in 1 .. n
  BY <1>1
<1>3. BlockAt(w, k, c, n)
  BY <1>1, <1>2, NotedBlocks
<1>4. PICK q \in Nat : q = w.blocks[n].e
  BY <1>1, <1>2
<1>5. q + 1 \in 1 .. Len(c) /\ \A j \in 1 .. Len(c) : j > q + 1 => c[j].a > k
  BY <1>3, <1>4 DEF BlockAt
<1>6. Len(c) = q + 1
  <2>1. SUFFICES ASSUME Len(c) > q + 1 PROVE FALSE
    BY <1>4, <1>5
  <2>2. Len(c) \in 1 .. Len(c)
    BY <1>4, <2>1
  <2>3. c[Len(c)].a > k /\ c[Len(c)].a \in 1 .. k
    BY <1>5, <2>1, <2>2
  <2>4. QED
    BY <2>3
<1>7. \A j \in 1 .. n : w.blocks[j].e = q + j - n
  BY <1>1, <1>3, <1>4 DEF BlockAt
<1>8. n > 1 => Len(c) = w.blocks[n - 1].e + 2
  <2>1. SUFFICES ASSUME n > 1 PROVE Len(c) = w.blocks[n - 1].e + 2
    OBVIOUS
  <2>2. n - 1 \in 1 .. n
    BY <1>1, <2>1
  <2>3. w.blocks[n - 1].e = q + (n - 1) - n
    BY <1>7, <2>2
  <2>4. QED
    BY <1>1, <1>4, <1>6, <2>3
<1>9. QED
  BY <1>4, <1>6, <1>8

-----------------------------------------------------------------------------
(* The steps of the program. *)

(* while the program runs no jump is pending *)
LEMMA Idle ==
  ASSUME ControlInv, mode = "run" \/ jump_flag = NoArg
  PROVE  /\ Core(acts, env, saved, stack, io_top) /\ Within(acts) /\ Quiet(acts)
         /\ jump_flag = NoArg /\ Fresh(acts, env)
<1>1. ~Pending(acts) \/ jump_flag = NoArg
  BY DEF Pending
<1>2. QED
  BY <1>1 DEF ControlInv

(* the invariant, once no jump is pending *)
LEMMA Resumed ==
  ASSUME Core(acts, env, saved, stack, io_top)', Within(acts)', Quiet(acts)',
         Fresh(acts, env)', jump_flag' = NoArg, mode' \in {"run", "check"}
  PROVE  ControlInv'
BY DEF ControlInv

(* the types of the variables *)
LEMMA TypedParts ==
  ASSUME NEW a, NEW e, NEW sv, NEW s, NEW io, Core(a, e, sv, s, io)
  PROVE  /\ a \in Seq(Calls) /\ Len(a) \in 1 .. MaxActs /\ e \in Seq(Frames)
         /\ sv \in Seq(Seq(Frames)) /\ s \in Seq(1 .. MaxActs)
         /\ io \in Seq([sp0 : Nat, env0 : Nat]) /\ a[Len(a)] \in Calls
<1>1. a[Len(a)] \in Calls
  BY CoreShape
<1>2. QED
  BY <1>1 DEF Core, Typed

(* the operand stack is no lower than the last call's base *)
LEMMA TopHeights ==
  ASSUME NEW a, NEW e, NEW sv, NEW s, NEW io, Core(a, e, sv, s, io)
  PROVE  HeightsAt(a[Len(a)], Len(s)) /\ a[Len(a)].base \in Nat /\ a[Len(a)].base <= Len(s)
<1>1. Len(a) \in DOMAIN a /\ a[Len(a)] \in Calls
  BY CoreShape
<1>2. HeightsAt(a[Len(a)], Len(s))
  BY <1>1 DEF Core, Heights, Above
<1>3. QED
  BY <1>1, <1>2, CallShape DEF HeightsAt

(* a call with other blocks *)
LEMMA NewBlocks ==
  ASSUME NEW w \in Calls, NEW bl \in Seq(Depths), NEW x, x = [w EXCEPT !.blocks = bl]
  PROVE  /\ x \in Calls /\ x.blocks = bl /\ x.fn = w.fn /\ x.kind = w.kind
         /\ x.arg = w.arg /\ x.base = w.base /\ x.checked = w.checked
BY DEF Calls

(* the assignment SetTop makes, as Retop *)
LEMMA Retopping ==
  ASSUME NEW a \in Seq(Calls), Len(a) \in Nat \ {0}, NEW x \in Calls,
         x.fn = a[Len(a)].fn, x.kind = a[Len(a)].kind, x.arg = a[Len(a)].arg,
         x.base = a[Len(a)].base, a[Len(a)].kind # "prelude",
         NEW b, b = [a EXCEPT ![Len(a)] = x]
  PROVE  b \in Seq(Calls) /\ Len(b) = Len(a) /\ Retop(a, a[Len(a)], x, b)
<1>1. b \in Seq(Calls) /\ Len(b) = Len(a) /\ DOMAIN b = 1 .. Len(a)
  OBVIOUS
<1>2. b[Len(a)] = x /\ \A k \in 1 .. Len(a) - 1 : b[k] = a[k]
  OBVIOUS
<1>3. QED
  BY <1>1, <1>2 DEF Retop

(* an operand is pushed *)
LEMMA OperandStep ==
  ASSUME ControlInv, Operand
  PROVE  ControlInv'
<1>1. /\ Core(acts, env, saved, stack, io_top) /\ Within(acts) /\ Quiet(acts)
      /\ jump_flag = NoArg /\ Fresh(acts, env)
  BY Idle DEF Operand
<1>2. /\ stack' = Append(stack, Len(acts)) /\ acts' = acts /\ env' = env /\ saved' = saved
      /\ io_top' = io_top /\ jump_flag' = jump_flag /\ mode' = mode
  BY DEF Operand, push, NotControl
<1>3. stack' \in Seq(1 .. MaxActs) /\ Len(stack') = Len(stack) + 1 /\ Len(stack) \in Nat
  BY <1>1, <1>2, TypedParts, Appended DEF Longer
<1>4. HeightsAt(acts[Len(acts)], Len(stack'))
  BY <1>1, <1>3, TopHeights, TypedParts, HeightsMore
<1>5. Typed(acts, env, saved, stack', io_top)
  BY <1>1, <1>3, TypedParts DEF Typed
<1>6. Core(acts, env, saved, stack', io_top)
  BY <1>1, <1>4, <1>5, Operands
<1>7. QED
  BY <1>1, <1>2, <1>6 DEF ControlInv, Fresh, Within, Quiet

(* an operand is dropped: one above those the innermost block found *)
LEMMA DropStep ==
  ASSUME ControlInv, Drop
  PROVE  ControlInv'
<1>1. /\ Core(acts, env, saved, stack, io_top) /\ Within(acts) /\ Quiet(acts)
      /\ jump_flag = NoArg /\ Fresh(acts, env)
  BY Idle DEF Drop
<1>2. /\ stack' = Front1(stack) /\ acts' = acts /\ env' = env /\ saved' = saved
      /\ io_top' = io_top /\ jump_flag' = jump_flag /\ mode' = mode
      /\ Len(stack) > BlockBase
  BY DEF Drop, NotControl
<1>3. /\ acts[Len(acts)] \in Calls /\ stack \in Seq(1 .. MaxActs) /\ Len(stack) \in Nat
      /\ HeightsAt(acts[Len(acts)], Len(stack))
  BY <1>1, TypedParts, TopHeights
<1>4. BlockBase \in Nat
  <2>1. Top.blocks = <<>> \/ Len(Top.blocks) \in 1 .. Len(Top.blocks)
    BY <1>3 DEF Top, Calls
  <2>2. QED
    BY <1>3, <2>1, CallShape DEF Top, BlockBase
<1>5. stack' \in Seq(1 .. MaxActs) /\ Len(stack') = Len(stack) - 1 /\ Len(stack') \in Nat
  <2>1. Len(stack) > 0
    BY <1>2, <1>3, <1>4
  <2>2. Front1(stack) \in Seq(1 .. MaxActs) /\ Longer(Front1(stack), stack[Len(stack)], stack)
    BY <1>3, <2>1, CutLast
  <2>3. Len(Front1(stack)) \in Nat /\ Len(stack) = Len(Front1(stack)) + 1
    BY <2>2 DEF Longer
  <2>4. QED
    BY <1>2, <2>2, <2>3
<1>6. BlockBase <= Len(stack')
  BY <1>2, <1>3, <1>4, <1>5
<1>7. HeightsAt(acts[Len(acts)], Len(stack'))
  BY <1>3, <1>5, <1>6, HeightsLess DEF BlockBase, Top
<1>8. Typed(acts, env, saved, stack', io_top)
  BY <1>1, <1>5, TypedParts DEF Typed
<1>9. Core(acts, env, saved, stack', io_top)
  BY <1>1, <1>7, <1>8, Operands
<1>10. QED
  BY <1>1, <1>2, <1>9 DEF ControlInv, Fresh, Within, Quiet

(* a block is entered: its depths are noted, then its frame pushed *)
LEMMA EnterBlockStep ==
  ASSUME ControlInv, NEW l \in Label, EnterBlock(l)
  PROVE  ControlInv'
<1> DEFINE w == acts[Len(acts)]
           y == [l |-> l, e |-> Len(env), s |-> Len(stack)]
           bl == Append(w.blocks, y)
           x == [w EXCEPT !.blocks = bl]
<1>1. /\ Core(acts, env, saved, stack, io_top) /\ Within(acts) /\ Quiet(acts)
      /\ jump_flag = NoArg /\ Fresh(acts, env)
  BY Idle DEF EnterBlock, Running
<1>2. /\ acts' = [acts EXCEPT ![Len(acts)] = x] /\ env' = Append(env, [a |-> Len(acts), b |-> l])
      /\ saved' = saved /\ stack' = stack /\ io_top' = io_top /\ jump_flag' = jump_flag
      /\ mode' = mode
  BY DEF EnterBlock, SetTop, Top, NotControl
<1>3. /\ LabelFn[l] = w.fn /\ w.kind # "prelude" /\ mode = "run"
      /\ \A i \in DOMAIN w.blocks : w.blocks[i].l # l
  BY DEF EnterBlock, Top, Running
<1>4. /\ w \in Calls /\ env \in Seq(Frames) /\ Len(env) \in Nat /\ Len(stack) \in Nat
      /\ acts \in Seq(Calls) /\ Len(acts) \in Nat \ {0} /\ Len(acts) \in 1 .. MaxActs
      /\ DOMAIN acts = 1 .. Len(acts)
  BY <1>1, TypedParts, CoreShape
<1>5. y \in Depths /\ y.l = l /\ y.e = Len(env) /\ y.s = Len(stack)
  BY <1>4 DEF Depths
<1>6. w.blocks \in Seq(Depths)
  BY <1>4 DEF Calls
<1> HIDE DEF w, y
<1>7. bl \in Seq(Depths) /\ Longer(w.blocks, y, bl)
  BY <1>5, <1>6, Appended
<1> HIDE DEF x, bl
<1>8. /\ x \in Calls /\ x.blocks = bl /\ x.fn = w.fn /\ x.kind = w.kind
      /\ x.arg = w.arg /\ x.base = w.base /\ x.checked = w.checked
  <2>1. x = [w EXCEPT !.blocks = bl]
    BY DEF x
  <2>2. QED
    BY <1>4, <1>7, <2>1, NewBlocks
<1>9. acts' \in Seq(Calls) /\ Len(acts') = Len(acts) /\ Retop(acts, w, x, acts')
  BY <1>2, <1>3, <1>4, <1>8, Retopping DEF w
<1>10. [a |-> Len(acts), b |-> l] \in Frames
  BY <1>4 DEF Frames
<1>11. env' \in Seq(Frames) /\ Longer(env, [a |-> Len(acts), b |-> l], env')
  BY <1>2, <1>4, <1>10, Appended
<1>12. Typed(acts', env', saved, stack, io_top)
  BY <1>1, <1>4, <1>9, <1>11, TypedParts DEF Typed
<1>13. Longer(w.blocks, y, x.blocks)
  BY <1>7, <1>8
<1>14. Longer(env, [a |-> Len(acts), b |-> y.l], env')
  BY <1>5, <1>11
<1>15. Core(acts', env', saved, stack, io_top) /\ Fresh(acts', env')
  BY <1>1, <1>3, <1>5, <1>9, <1>12, <1>13, <1>14, Entered
<1>16. Within(acts') /\ Quiet(acts')
  BY <1>1, <1>4, <1>8, <1>9, RetopWithin
<1>17. QED
  BY <1>1, <1>2, <1>3, <1>15, <1>16 DEF ControlInv, Within, Quiet, Fresh

(* a block is left at its end, with the operands it found *)
LEMMA LeaveBlockStep ==
  ASSUME ControlInv, LeaveBlock
  PROVE  ControlInv'
<1> DEFINE w == acts[Len(acts)]
           bl == Front1(w.blocks)
           x == [w EXCEPT !.blocks = bl]
           n == Len(w.blocks)
<1>1. /\ Core(acts, env, saved, stack, io_top) /\ Within(acts) /\ Quiet(acts)
      /\ jump_flag = NoArg /\ Fresh(acts, env)
  BY Idle DEF LeaveBlock, Running
<1>2. /\ acts' = [acts EXCEPT ![Len(acts)] = x] /\ env' = Front1(env)
      /\ saved' = saved /\ stack' = stack /\ io_top' = io_top /\ jump_flag' = jump_flag
      /\ mode' = mode
  BY DEF LeaveBlock, SetTop, Top, NotControl
<1>3. /\ w.blocks # <<>> /\ w.kind # "prelude" /\ mode = "run"
  BY DEF LeaveBlock, Top, Running
<1>4. /\ w \in Calls /\ env \in Seq(Frames) /\ Len(env) \in Nat /\ Len(stack) \in Nat
      /\ acts \in Seq(Calls) /\ Len(acts) \in Nat \ {0} /\ Len(acts) \in 1 .. MaxActs
      /\ DOMAIN acts = 1 .. Len(acts) /\ DOMAIN env = 1 .. Len(env)
  BY <1>1, TypedParts, CoreShape
<1>5. w.blocks \in Seq(Depths) /\ n \in Nat
  BY <1>4 DEF Calls
<1>6. n > 0
  BY <1>3, <1>5
<1>7. NotedAt(w, Len(acts), env) /\ \A j \in 1 .. Len(env) : env[j].a \in 1 .. Len(acts)
  <2>1. Chain(acts, env, saved, Len(acts)) = env
    BY <1>1, TopChain
  <2>2. Len(acts) \in DOMAIN acts
    BY <1>4
  <2>3. NotedAt(w, Len(acts), Chain(acts, env, saved, Len(acts)))
    BY <1>1, <2>2 DEF Core, Noted
  <2>4. QED
    BY <1>1, <1>4, <2>1, <2>3 DEF Fresh
<1>8. HeightsAt(w, Len(stack))
  BY <1>1, TopHeights
<1> HIDE DEF w
<1>9. bl \in Seq(Depths) /\ Shorter(w.blocks, n - 1, bl)
  <2>1. n - 1 \in 0 .. n
    BY <1>5, <1>6
  <2>2. QED
    BY <1>5, <2>1, Cut DEF Front1
<1>10. Len(env) = w.blocks[n].e + 1 /\ (n > 1 => Len(env) = w.blocks[n - 1].e + 2)
  <2>1. Len(acts) \in Nat
    BY <1>4
  <2>2. QED
    BY <1>4, <1>6, <1>7, <2>1, LastBlock
<1> HIDE DEF x, bl
<1>11. /\ x \in Calls /\ x.blocks = bl /\ x.fn = w.fn /\ x.kind = w.kind
       /\ x.arg = w.arg /\ x.base = w.base /\ x.checked = w.checked
  <2>1. x = [w EXCEPT !.blocks = bl]
    BY DEF x
  <2>2. QED
    BY <1>4, <1>9, <2>1, NewBlocks
<1>12. acts' \in Seq(Calls) /\ Len(acts') = Len(acts) /\ Retop(acts, w, x, acts')
  BY <1>2, <1>3, <1>4, <1>11, Retopping DEF w
<1>13. \A i \in 1 .. n : w.blocks[i].e \in Nat
  BY <1>4, CallShape
<1>14. n \in 1 .. n /\ (n > 1 => n - 1 \in 1 .. n)
  BY <1>5, <1>6
<1>15. PICK h : h = Len(env) - 1
  OBVIOUS
<1>16. h = w.blocks[n].e /\ h \in 0 .. Len(env) /\ (n > 1 => h = w.blocks[n - 1].e + 1)
  <2>1. w.blocks[n].e \in Nat
    BY <1>13, <1>14
  <2>2. n > 1 => w.blocks[n - 1].e \in Nat
    BY <1>13, <1>14
  <2>3. QED
    <3>1. n > 1 => w.blocks[n].e = w.blocks[n - 1].e + 1
      <4>1. PICK p : p = w.blocks[n - 1].e
        OBVIOUS
      <4>2. n > 1 => p \in Nat /\ w.blocks[n].e + 1 = p + 2
        BY <1>10, <2>2, <4>1
      <4>3. PICK q : q = w.blocks[n].e
        OBVIOUS
      <4>4. q \in Nat /\ (n > 1 => p \in Nat /\ q + 1 = p + 2)
        BY <2>1, <4>2, <4>3
      <4>5. n > 1 => q = p + 1
        BY <4>4
      <4>6. QED
        BY <4>1, <4>3, <4>5
    <3>2. Len(env) \in Nat
      BY <1>10, <2>1
    <3>3. h = w.blocks[n].e /\ h \in 0 .. Len(env)
      BY <1>10, <1>15, <2>1, <3>2
    <3>4. QED
      BY <3>1, <3>3
<1>17. CutTo(w, x, n - 1, h)
  <2>1. (n - 1) + 1 = n /\ (n - 1 > 0 => n > 1) /\ n - 1 < n
    BY <1>5
  <2>2. QED
    BY <1>6, <1>9, <1>11, <1>16, <2>1 DEF CutTo
<1>18. env' \in Seq(Frames) /\ Shorter(env, h, env')
  BY <1>2, <1>4, <1>15, <1>16, Cut DEF Front1
<1>19. HeightsAt(x, Len(stack))
  BY <1>4, <1>8, <1>17, HeightsCut
<1>20. Typed(acts', env', saved, stack, io_top)
  BY <1>1, <1>4, <1>12, <1>18, TypedParts DEF Typed
<1>21. Core(acts', env', saved, stack, io_top) /\ Fresh(acts', env')
  BY <1>1, <1>12, <1>17, <1>18, <1>19, <1>20, Landed
<1>22. Within(acts') /\ Quiet(acts')
  BY <1>1, <1>4, <1>11, <1>12, RetopWithin
<1>23. QED
  BY <1>1, <1>2, <1>3, <1>21, <1>22 DEF ControlInv, Within, Quiet, Fresh

(* the code at the label of a block the routine is in *)
LEMMA LandStep ==
  ASSUME Core(acts, env, saved, stack, io_top), Within(acts), Quiet(acts),
         acts[Len(acts)].kind # "prelude",
         NEW l \in Label, \E k \in DOMAIN acts[Len(acts)].blocks : acts[Len(acts)].blocks[k].l = l,
         Land(l), saved' = saved, io_top' = io_top
  PROVE  ControlInv'
<1>1. PICK e \in 0 .. Len(env), s \in 0 .. Len(stack), i \in 1 .. Len(acts[Len(acts)].blocks) + 1 :
        /\ IF i <= Len(acts[Len(acts)].blocks)
           THEN acts[Len(acts)].blocks[i] = [l |-> l, e |-> e, s |-> s]
           ELSE \A j \in DOMAIN acts[Len(acts)].blocks : acts[Len(acts)].blocks[j].l # l
        /\ jump_flag' = NoArg
        /\ env' = Prefix(env, e + 1)
        /\ stack' = Prefix(stack, s)
        /\ acts' = [acts EXCEPT ![Len(acts)] =
             [acts[Len(acts)] EXCEPT !.blocks =
                Append(SubSeq(acts[Len(acts)].blocks, 1, i - 1), [l |-> l, e |-> e, s |-> s])]]
        /\ mode' = "run"
  BY DEF Land, SetTop, Top, FlagAfter, LandDepth
<1> DEFINE w == acts[Len(acts)]
           y == [l |-> l, e |-> e, s |-> s]
           bl == Append(SubSeq(w.blocks, 1, i - 1), y)
           x == [w EXCEPT !.blocks = bl]
           n == Len(w.blocks)
<1>2. /\ w \in Calls /\ env \in Seq(Frames) /\ Len(env) \in Nat /\ Len(stack) \in Nat
      /\ stack \in Seq(1 .. MaxActs)
      /\ acts \in Seq(Calls) /\ Len(acts) \in Nat \ {0} /\ Len(acts) \in 1 .. MaxActs
      /\ DOMAIN acts = 1 .. Len(acts) /\ DOMAIN env = 1 .. Len(env)
  BY TypedParts, CoreShape
<1>3. w.blocks \in Seq(Depths) /\ n \in Nat /\ DOMAIN w.blocks = 1 .. n
  BY <1>2 DEF Calls
<1>4. i \in 1 .. n /\ w.blocks[i] = y
  <2>1. ~(\A j \in DOMAIN w.blocks : w.blocks[j].l # l)
    OBVIOUS
  <2>2. i <= n
    BY <1>1, <2>1
  <2>3. QED
    BY <1>1, <1>3, <2>2
<1>5. NotedAt(w, Len(acts), env)
  <2>1. Chain(acts, env, saved, Len(acts)) = env
    BY TopChain
  <2>2. Len(acts) \in DOMAIN acts
    BY <1>2
  <2>3. NotedAt(w, Len(acts), Chain(acts, env, saved, Len(acts)))
    BY <2>2 DEF Core, Noted
  <2>4. QED
    BY <2>1, <2>3
<1>6. HeightsAt(w, Len(stack)) /\ w.kind # "prelude"
  BY TopHeights
<1>7. acts' = [acts EXCEPT ![Len(acts)] = x] /\ env' = Prefix(env, e + 1) /\ stack' = Prefix(stack, s)
  BY <1>1
<1>8. y \in Depths /\ y.e = e /\ y.s = s
  BY <1>2 DEF Depths
<1> HIDE DEF w, y
<1>9. bl \in Seq(Depths) /\ Shorter(w.blocks, i, bl)
  <2> DEFINE c == SubSeq(w.blocks, 1, i - 1)
  <2>1. i - 1 \in 0 .. n /\ i \in 0 .. n /\ (i - 1) + 1 = i /\ i - 1 \in Nat
    BY <1>3, <1>4
  <2>2. c \in Seq(Depths) /\ Shorter(w.blocks, i - 1, c)
    BY <1>3, <2>1, Cut
  <2> HIDE DEF c
  <2>3. Append(c, y) \in Seq(Depths) /\ Longer(c, y, Append(c, y))
    BY <1>8, <2>2, Appended
  <2>4. Len(c) = i - 1 /\ \A k \in 1 .. i - 1 : c[k] = w.blocks[k]
    BY <2>2 DEF Shorter
  <2>5. /\ Len(Append(c, y)) = i /\ DOMAIN Append(c, y) = 1 .. i
        /\ Append(c, y)[i] = w.blocks[i] /\ \A k \in 1 .. i - 1 : Append(c, y)[k] = w.blocks[k]
    BY <1>4, <2>1, <2>3, <2>4 DEF Longer
  <2>6. \A k \in 1 .. i : k \in 1 .. i - 1 \/ k = i
    BY <2>1
  <2>7. Shorter(w.blocks, i, Append(c, y))
    BY <1>3, <2>1, <2>5, <2>6 DEF Shorter
  <2>8. QED
    BY <2>3, <2>7 DEF c
<1> HIDE DEF x, bl
<1>10. /\ x \in Calls /\ x.blocks = bl /\ x.fn = w.fn /\ x.kind = w.kind
       /\ x.arg = w.arg /\ x.base = w.base /\ x.checked = w.checked
  <2>1. x = [w EXCEPT !.blocks = bl]
    BY DEF x
  <2>2. QED
    BY <1>2, <1>9, <2>1, NewBlocks
<1>11. acts' \in Seq(Calls) /\ Len(acts') = Len(acts) /\ Retop(acts, w, x, acts')
  BY <1>2, <1>6, <1>7, <1>10, Retopping DEF w
<1>12. BlockAt(w, Len(acts), env, i)
  BY <1>3, <1>4, <1>5, NotedBlocks
<1>13. e \in Nat /\ e + 1 \in 0 .. Len(env) /\ w.blocks[i].e = e /\ w.blocks[i].s = s
  <2>1. w.blocks[i].e = e /\ w.blocks[i].s = s
    BY <1>4, <1>8
  <2>2. e + 1 \in 1 .. Len(env)
    BY <1>2, <1>12, <2>1 DEF BlockAt
  <2>3. QED
    BY <1>2, <2>1, <2>2
<1>14. i < n => w.blocks[i + 1].e = e + 1
  <2>1. SUFFICES ASSUME i < n PROVE w.blocks[i + 1].e = e + 1
    OBVIOUS
  <2>2. i + 1 \in DOMAIN w.blocks
    BY <1>3, <1>4, <2>1
  <2>3. w.blocks[i + 1].e = e + (i + 1) - i
    BY <1>12, <1>13, <2>2 DEF BlockAt
  <2>4. QED
    BY <1>4, <1>13, <2>3
<1>15. CutTo(w, x, i, e + 1)
  BY <1>3, <1>4, <1>9, <1>10, <1>13, <1>14 DEF CutTo
<1>16. env' \in Seq(Frames) /\ Shorter(env, e + 1, env')
  <2>1. Prefix(env, e + 1) = SubSeq(env, 1, e + 1)
    BY <1>2, <1>13 DEF Prefix
  <2>2. QED
    BY <1>2, <1>7, <1>13, <2>1, Cut
<1>17. stack' \in Seq(1 .. MaxActs) /\ Len(stack') = s /\ s \in Nat
  <2>1. Prefix(stack, s) = SubSeq(stack, 1, s)
    BY <1>2 DEF Prefix
  <2>2. s \in 0 .. Len(stack) /\ s \in Nat
    BY <1>2
  <2>3. SubSeq(stack, 1, s) \in Seq(1 .. MaxActs) /\ Shorter(stack, s, SubSeq(stack, 1, s))
    BY <1>2, <2>2, Cut
  <2>4. QED
    BY <1>7, <2>1, <2>2, <2>3 DEF Shorter
<1>18. HeightsAt(x, Len(stack'))
  <2>1. i > 0
    BY <1>4
  <2>2. QED
    BY <1>2, <1>6, <1>13, <1>15, <1>17, <2>1, HeightsCut
<1>19. Typed(acts', env', saved, stack', io_top)
  BY <1>2, <1>11, <1>16, <1>17, TypedParts DEF Typed
<1>20. Core(acts', env', saved, stack', io_top) /\ Fresh(acts', env')
  BY <1>11, <1>15, <1>16, <1>18, <1>19, Landed
<1>21. Within(acts') /\ Quiet(acts')
  BY <1>2, <1>10, <1>11, RetopWithin
<1>22. QED
  BY <1>1, <1>20, <1>21 DEF ControlInv, Within, Quiet, Fresh

(* a jump inside a routine is a landing *)
LEMMA GotoStep ==
  ASSUME ControlInv, NEW l \in Label, Goto(l)
  PROVE  ControlInv'
<1>1. Core(acts, env, saved, stack, io_top) /\ Within(acts) /\ Quiet(acts)
  BY DEF ControlInv
<1>2. /\ acts[Len(acts)].kind # "prelude"
      /\ \E k \in DOMAIN acts[Len(acts)].blocks : acts[Len(acts)].blocks[k].l = l
      /\ Land(l) /\ saved' = saved /\ io_top' = io_top
  BY DEF Goto, Running, Top
<1>3. QED
  BY <1>1, <1>2, LandStep

-----------------------------------------------------------------------------
(* Steps that make a call. *)

(* a call that is no standard procedure runs its own routine *)
LEMMA RoutineFn ==
  ASSUME NEW a, NEW e, NEW sv, NEW s, NEW io, Core(a, e, sv, s, io), NEW k \in 1 .. Len(a),
         a[k].kind # "prelude"
  PROVE  a[k].fn \in Fn /\ Runs(a[k]) = a[k].fn
<1>1. k \in DOMAIN a /\ a[k] \in Calls
  BY CoreShape
<1>2. a[k].fn # Prelude
  BY <1>1 DEF Core, Kinds
<1>3. QED
  BY <1>1, <1>2 DEF Calls, Runs

(* the calls the program makes *)
LEMMA Acted ==
  ASSUME NEW f \in Fn \cup {Prelude}, NEW k \in {"boxed", "plain", "prelude"},
         NEW x \in Closure \cup {NoArg}, NEW ck \in BOOLEAN, NEW n \in Nat
  PROVE  Act(f, k, x, ck, n) \in Calls
<1>1. <<>> \in Seq(Depths)
  OBVIOUS
<1>2. QED
  BY <1>1 DEF Act, Calls

(* the environments a call in progress has *)
LEMMA EnvSees ==
  ASSUME NEW a, NEW e, NEW sv, NEW s, NEW io, Core(a, e, sv, s, io), Fresh(a, e)
  PROVE  /\ Sees(a, e)
         /\ \A d \in DOMAIN sv : Sees(a, sv[d])
         /\ \A k \in 1 .. Len(a) : a[k].arg # NoArg => Sees(a, a[k].arg.env)
<1>1. Sees(a, e)
  BY DEF Core, Live, Fresh, Sees
<1>2. \A d \in DOMAIN sv : Sees(a, sv[d])
  BY DEF Core, Live, Sees
<1>3. ASSUME NEW k \in 1 .. Len(a), a[k].arg # NoArg PROVE Sees(a, a[k].arg.env)
  <2>1. k \in DOMAIN a
    BY CoreShape
  <2>2. ASSUME NEW j \in DOMAIN a[k].arg.env
        PROVE  a[k].arg.env[j].a \in 1 .. Len(a) /\ Owned(a, a[k].arg.env[j])
    <3>1. a[k].arg.env[j].a \in 1 .. k - 1 /\ Owned(a, a[k].arg.env[j])
      BY <1>3, <2>1 DEF Core, Live
    <3>2. Len(a) \in Nat
      BY CoreShape
    <3>3. QED
      BY <3>1, <3>2
  <2>3. QED
    BY <2>2 DEF Sees
<1>4. QED
  BY <1>1, <1>2, <1>3

(* the first i frames of an environment *)
LEMMA PrefixSees ==
  ASSUME NEW a, NEW e \in Seq(Frames), Sees(a, e), NEW i \in DOMAIN e
  PROVE  /\ SubSeq(e, 1, i) \in Seq(Frames) /\ Sees(a, SubSeq(e, 1, i))
<1>1. DOMAIN e = 1 .. Len(e) /\ Len(e) \in Nat /\ i \in 0 .. Len(e)
  OBVIOUS
<1>2. SubSeq(e, 1, i) \in Seq(Frames) /\ Shorter(e, i, SubSeq(e, 1, i))
  BY <1>1, Cut
<1> DEFINE c == SubSeq(e, 1, i)
<1> HIDE DEF c
<1>3. c = SubSeq(e, 1, i)
  BY DEF c
<1>4. Shorter(e, i, c)
  BY <1>2, <1>3
<1>5. \A j \in DOMAIN c : j \in DOMAIN e /\ c[j] = e[j]
  BY <1>1, <1>4 DEF Shorter
<1>6. Sees(a, c)
  BY <1>5 DEF Sees
<1>7. QED
  BY <1>2, <1>3, <1>6

(* the routines in sight have environments of calls in progress *)
LEMMA SeenSees ==
  ASSUME Core(acts, env, saved, stack, io_top), Fresh(acts, env), NEW c \in Seen
  PROVE  c \in Closure /\ Sees(acts, c.env)
<1>1. PICK f \in Fn \ {Main}, i \in DOMAIN env : c = [fn |-> f, env |-> SubSeq(env, 1, i)]
  BY DEF Seen
<1>2. env \in Seq(Frames)
  BY TypedParts
<1>3. Sees(acts, env)
  BY EnvSees
<1> DEFINE p == SubSeq(env, 1, i)
<1>4. p \in Seq(Frames) /\ Sees(acts, p)
  BY <1>2, <1>3, PrefixSees
<1>5. c = [fn |-> f, env |-> p]
  BY <1>1
<1> HIDE DEF p
<1>6. QED
  BY <1>4, <1>5 DEF Closure

(* what a routine passes on, calls and gives to files is inside it *)
LEMMA InsideMakes ==
  ASSUME NEW x, x.kind # "prelude", x.fn \in Fn, NEW y, Runs(y) \in Fn, Runs(y) \in Inside(x.fn),
         y.kind # "prelude" /\ y.arg # NoArg => \E g \in Fn : y.arg.fn \in Text[g].passes,
         x.fn \in jumpFreeSet => Runs(y) \in jumpFreeSet,
         ~y.checked => Runs(y) \in jumpFreeSet
  PROVE  MayMake(x, y)
<1>1. Runs(x) = x.fn
  BY DEF Runs
<1>2. ASSUME NEW f \in Fn, f = x.fn \/ x.fn \in Extent(f) PROVE Runs(y) \in Extent(f)
  BY <1>2, ExtentStep
<1>3. QED
  BY <1>1, <1>2 DEF MayMake

(* a boxed call, of a routine in sight or of the parameter *)
LEMMA CallStep ==
  ASSUME ControlInv, call
  PROVE  ControlInv'
<1> DEFINE w == acts[Len(acts)]
<1>1. /\ Core(acts, env, saved, stack, io_top) /\ Within(acts) /\ Quiet(acts)
      /\ jump_flag = NoArg /\ Fresh(acts, env)
  BY Idle DEF call, Running
<1>2. /\ saved' = Append(saved, env) /\ stack' = stack /\ io_top' = io_top
      /\ jump_flag' = jump_flag /\ mode' = mode /\ mode = "run" /\ w.kind # "prelude"
      /\ Len(acts) < MaxActs
  BY DEF call, Running, Top
<1>3. PICK x \in Args, c \in Seen \cup {w.arg} :
        /\ \/ c # w.arg /\ c.fn \in Text[w.fn].calls
           \/ c = w.arg /\ c # NoArg /\ (Text[w.fn].param \/ c.fn \in Text[w.fn].calls)
        /\ acts' = Append(acts, Act(c.fn, "boxed", x, TRUE, Len(stack)))
        /\ env' = Append(c.env, [a |-> Len(acts) + 1, b |-> NoFrame])
  BY DEF call, Top
<1>4. /\ acts \in Seq(Calls) /\ Len(acts) \in Nat \ {0} /\ Len(acts) \in 1 .. MaxActs
      /\ DOMAIN acts = 1 .. Len(acts) /\ Len(acts) \in 1 .. Len(acts) /\ w \in Calls
      /\ env \in Seq(Frames) /\ saved \in Seq(Seq(Frames)) /\ Len(stack) \in Nat
      /\ stack \in Seq(1 .. MaxActs) /\ io_top \in Seq([sp0 : Nat, env0 : Nat])
  BY <1>1, TypedParts, CoreShape
<1>5. w.fn \in Fn
  BY <1>1, <1>2, <1>4, RoutineFn
<1>6. w.arg # NoArg => w.arg \in Closure /\ Sees(acts, w.arg.env)
  <2>1. w.arg \in Closure \cup {NoArg}
    BY <1>4 DEF Calls
  <2>2. w.arg # NoArg => Sees(acts, w.arg.env)
    BY <1>1, <1>4, EnvSees
  <2>3. QED
    BY <2>1, <2>2
<1>7. /\ x \in Closure \cup {NoArg}
      /\ x # NoArg => (Sees(acts, x.env) /\ x.fn \in Text[w.fn].passes)
  <2>1. x = NoArg \/ (x \in Seen /\ x.fn \in Text[w.fn].passes)
    BY DEF Args, Top
  <2>2. QED
    BY <1>1, <2>1, SeenSees
<1>8. c \in Closure /\ Sees(acts, c.env)
  <2>1. c \in Seen \/ (c = w.arg /\ w.arg # NoArg)
    BY <1>3
  <2>2. QED
    BY <1>1, <1>6, <2>1, SeenSees
<1>9. c.fn \in Fn /\ c.env \in Seq(Frames)
  BY <1>8 DEF Closure
<1> DEFINE y == Act(c.fn, "boxed", x, TRUE, Len(stack))
           g == [a |-> Len(acts) + 1, b |-> NoFrame]
<1>10. acts' = Append(acts, y) /\ env' = Append(c.env, g)
  BY <1>3
<1>11. g \in Frames
  BY <1>2, <1>4, Bounds DEF Frames
<1> HIDE DEF w, y
<1>12. /\ y \in Calls /\ y.fn = c.fn /\ y.kind = "boxed" /\ y.arg = x /\ y.base = Len(stack)
       /\ y.blocks = <<>> /\ y.checked
  <2>1. y = Act(c.fn, "boxed", x, TRUE, Len(stack))
    BY DEF y
  <2>2. c.fn \in Fn \cup {Prelude} /\ Len(stack) \in Nat /\ x \in Closure \cup {NoArg}
    BY <1>4, <1>7, <1>9
  <2>3. /\ y.fn = c.fn /\ y.kind = "boxed" /\ y.arg = x /\ y.base = Len(stack)
        /\ y.blocks = <<>> /\ y.checked
    BY <2>1 DEF Act
  <2>4. y \in Calls
    BY <2>1, <2>2, Acted
  <2>5. QED
    BY <2>3, <2>4
<1>13. acts' \in Seq(Calls) /\ Longer(acts, y, acts')
  BY <1>4, <1>10, <1>12, Appended
<1>14. env' \in Seq(Frames) /\ Longer(c.env, g, env')
  BY <1>9, <1>10, <1>11, Appended
<1>15. saved' \in Seq(Seq(Frames)) /\ Longer(saved, env, saved')
  BY <1>2, <1>4, Appended
<1>16. Len(acts') \in 1 .. MaxActs
  <2>1. Len(acts') = Len(acts) + 1
    BY <1>13 DEF Longer
  <2>2. QED
    BY <1>2, <1>4, <2>1, Bounds
<1>17. Typed(acts', env', saved', stack, io_top)
  BY <1>4, <1>13, <1>14, <1>15, <1>16 DEF Typed
<1>18. Core(acts', env', saved', stack, io_top) /\ Fresh(acts', env')
  <2>1. DOMAIN c.env = 1 .. Len(c.env) /\ Len(c.env) \in Nat
    BY <1>9
  <2>2. Longer(c.env, [a |-> Len(acts) + 1, b |-> NoFrame], env')
    BY <1>14
  <2>3. y.arg # NoArg => Sees(acts, y.arg.env)
    BY <1>7, <1>12
  <2>4. y.fn \in Fn
    BY <1>9, <1>12
  <2>5. QED
    BY <1>1, <1>8, <1>12, <1>13, <1>15, <1>17, <2>1, <2>2, <2>3, <2>4, PushBoxed
<1>19. c.fn \in Inside(w.fn)
  <2>1. CASE c.fn \in Text[w.fn].calls
    BY <2>1 DEF Inside
  <2>2. CASE c = w.arg /\ c # NoArg /\ Text[w.fn].param
    <3>1. \E h \in Fn : w.arg.fn \in Text[h].passes
      BY <1>1, <1>2, <1>4, <2>2 DEF Within, w
    <3>2. QED
      BY <2>2, <3>1 DEF Inside
  <2>3. QED
    BY <1>3, <2>1, <2>2
<1>20. w.fn \in jumpFreeSet => c.fn \in jumpFreeSet
  BY <1>3, JumpFreeCalls
<1>21. MayMake(w, y)
  <2>1. Runs(y) = c.fn
    BY <1>12 DEF Runs
  <2>2. y.kind # "prelude" /\ y.arg # NoArg => \E h \in Fn : y.arg.fn \in Text[h].passes
    BY <1>5, <1>7, <1>12
  <2>3. w.kind # "prelude" /\ y.checked
    BY <1>2, <1>12
  <2>4. QED
    BY <1>5, <1>9, <1>19, <1>20, <2>1, <2>2, <2>3, InsideMakes
<1>22. Within(acts') /\ Quiet(acts')
  <2>1. \A j \in 1 .. Len(acts) : acts[j].kind # "prelude" => acts[j].fn \in Fn
    BY <1>1, RoutineFn
  <2>2. MayMake(acts[Len(acts)], y)
    BY <1>21 DEF w
  <2>3. QED
    BY <1>1, <1>4, <1>13, <2>1, <2>2, PushedWithin, PushedQuiet
<1>23. QED
  BY <1>1, <1>2, <1>18, <1>22 DEF ControlInv, Within, Quiet, Fresh

(* a plain call, in the environment in effect *)
LEMMA PlainCallStep ==
  ASSUME ControlInv, NEW f \in Fn, PlainCall(f)
  PROVE  ControlInv'
<1> DEFINE w == acts[Len(acts)]
           y == Act(f, "plain", NoArg, f \notin jumpFreeSet, Len(stack))
<1>1. /\ Core(acts, env, saved, stack, io_top) /\ Within(acts) /\ Quiet(acts)
      /\ jump_flag = NoArg /\ Fresh(acts, env)
  BY Idle DEF PlainCall, Running
<1>2. /\ saved' = saved /\ stack' = stack /\ io_top' = io_top /\ env' = env
      /\ jump_flag' = jump_flag /\ mode' = mode /\ mode = "run" /\ w.kind # "prelude"
      /\ Len(acts) < MaxActs /\ f \in Text[w.fn].calls /\ acts' = Append(acts, y)
  BY DEF PlainCall, Tested, Running, Top, NotControl
<1>3. /\ acts \in Seq(Calls) /\ Len(acts) \in Nat \ {0} /\ Len(acts) \in 1 .. MaxActs
      /\ DOMAIN acts = 1 .. Len(acts) /\ Len(acts) \in 1 .. Len(acts) /\ w \in Calls
      /\ env \in Seq(Frames) /\ saved \in Seq(Seq(Frames)) /\ Len(stack) \in Nat
      /\ stack \in Seq(1 .. MaxActs) /\ io_top \in Seq([sp0 : Nat, env0 : Nat])
  BY <1>1, TypedParts, CoreShape
<1>4. w.fn \in Fn
  BY <1>1, <1>2, <1>3, RoutineFn
<1>5. /\ y.fn = f /\ y.kind = "plain" /\ y.arg = NoArg /\ y.base = Len(stack)
      /\ y.blocks = <<>> /\ (~y.checked => f \in jumpFreeSet)
  BY DEF Act
<1>6. y \in Calls
  <2>1. f \in Fn \cup {Prelude} /\ Len(stack) \in Nat /\ NoArg \in Closure \cup {NoArg}
    BY <1>3
  <2>2. (f \notin jumpFreeSet) \in BOOLEAN
    OBVIOUS
  <2>3. QED
    BY <2>1, <2>2, Acted
<1> HIDE DEF w, y
<1>7. acts' \in Seq(Calls) /\ Longer(acts, y, acts')
  BY <1>2, <1>3, <1>6, Appended
<1>8. Len(acts') \in 1 .. MaxActs
  <2>1. Len(acts') = Len(acts) + 1
    BY <1>7 DEF Longer
  <2>2. QED
    BY <1>2, <1>3, <2>1, Bounds
<1>9. Typed(acts', env, saved, stack, io_top)
  BY <1>3, <1>7, <1>8 DEF Typed
<1>10. Core(acts', env, saved, stack, io_top) /\ Fresh(acts', env)
  <2>1. /\ y.kind # "boxed" /\ y.arg = NoArg /\ (y.kind = "prelude" <=> y.fn = Prelude)
    BY <1>5, Program
  <2>2. acts[Len(acts)].kind # "prelude"
    BY <1>2 DEF w
  <2>3. QED
    BY <1>1, <1>5, <1>6, <1>7, <1>9, <2>1, <2>2, PushHere
<1>11. MayMake(w, y)
  <2>1. Runs(y) = f
    BY <1>5 DEF Runs
  <2>2. f \in Inside(w.fn)
    BY <1>2 DEF Inside
  <2>3. w.fn \in jumpFreeSet => f \in jumpFreeSet
    BY <1>2, JumpFreeCalls
  <2>4. QED
    BY <1>2, <1>4, <1>5, <2>1, <2>2, <2>3, InsideMakes
<1>12. Within(acts') /\ Quiet(acts')
  <2>1. \A j \in 1 .. Len(acts) : acts[j].kind # "prelude" => acts[j].fn \in Fn
    BY <1>1, RoutineFn
  <2>2. MayMake(acts[Len(acts)], y)
    BY <1>11 DEF w
  <2>3. QED
    BY <1>1, <1>3, <1>7, <2>1, <2>2, PushedWithin, PushedQuiet
<1>13. QED
  BY <1>1, <1>2, <1>10, <1>12 DEF ControlInv, Within, Quiet, Fresh

(* a call of a standard procedure, under its catch *)
LEMMA CallBuiltinStep ==
  ASSUME ControlInv, EventsJumpFree, call_builtin
  PROVE  ControlInv'
<1> DEFINE w == acts[Len(acts)]
<1>1. /\ Core(acts, env, saved, stack, io_top) /\ Within(acts) /\ Quiet(acts)
      /\ jump_flag = NoArg /\ Fresh(acts, env)
  BY Idle DEF call_builtin, Running
<1>2. PICK f \in Text[w.fn].events, e \in ToSet(saved) \cup {env} : \E i \in DOMAIN e :
        acts' = Append(acts, Act(Prelude, "prelude", [fn |-> f, env |-> SubSeq(e, 1, i)],
                                 TRUE, Len(stack) + 1))
  BY DEF call_builtin, Top
<1>3. PICK i \in DOMAIN e :
        acts' = Append(acts, Act(Prelude, "prelude", [fn |-> f, env |-> SubSeq(e, 1, i)],
                                 TRUE, Len(stack) + 1))
  BY <1>2
<1>4. /\ saved' = saved /\ env' = env /\ stack' = Append(stack, Len(acts))
      /\ io_top' = Append(io_top, [sp0 |-> Len(stack) + 1, env0 |-> Len(saved)])
      /\ jump_flag' = jump_flag /\ mode' = mode /\ mode = "run" /\ w.kind # "prelude"
      /\ Len(acts) < MaxActs
  BY DEF call_builtin, Running, Top, push
<1>5. /\ acts \in Seq(Calls) /\ Len(acts) \in Nat \ {0} /\ Len(acts) \in 1 .. MaxActs
      /\ DOMAIN acts = 1 .. Len(acts) /\ Len(acts) \in 1 .. Len(acts) /\ w \in Calls
      /\ env \in Seq(Frames) /\ saved \in Seq(Seq(Frames)) /\ Len(stack) \in Nat
      /\ stack \in Seq(1 .. MaxActs) /\ io_top \in Seq([sp0 : Nat, env0 : Nat])
      /\ Len(saved) \in Nat
  BY <1>1, TypedParts, CoreShape
<1>6. w.fn \in Fn
  BY <1>1, <1>4, <1>5, RoutineFn
<1>7. f \in Fn
  <2>1. Text[w.fn].events \subseteq Fn
    BY <1>6, Program
  <2>2. QED
    BY <2>1
<1> DEFINE p == SubSeq(e, 1, i)
           x == [fn |-> f, env |-> p]
           y == Act(Prelude, "prelude", x, TRUE, Len(stack) + 1)
           h == [sp0 |-> Len(stack) + 1, env0 |-> Len(saved)]
<1>8. p \in Seq(Frames) /\ Sees(acts, p)
  <2>1. e = env \/ \E d \in DOMAIN saved : e = saved[d]
    BY DEF ToSet
  <2>2. e \in Seq(Frames) /\ Sees(acts, e)
    BY <1>1, <1>5, <2>1, EnvSees
  <2>3. QED
    BY <2>2, PrefixSees
<1>9. acts' = Append(acts, y)
  BY <1>3
<1> HIDE DEF w, p
<1>10. x \in Closure /\ x # NoArg /\ x.fn = f /\ x.env = p
  BY <1>7, <1>8, Tokens DEF Closure
<1> HIDE DEF x
<1>11. /\ y.fn = Prelude /\ y.kind = "prelude" /\ y.arg = x /\ y.base = Len(stack) + 1
       /\ y.blocks = <<>> /\ y.checked
  BY DEF Act
<1>12. y \in Calls
  <2>1. Prelude \in Fn \cup {Prelude} /\ Len(stack) + 1 \in Nat /\ x \in Closure \cup {NoArg}
    BY <1>5, <1>10
  <2>2. QED
    BY <2>1, Acted
<1> HIDE DEF y
<1>13. acts' \in Seq(Calls) /\ Longer(acts, y, acts')
  BY <1>5, <1>9, <1>12, Appended
<1>14. Len(acts') \in 1 .. MaxActs
  <2>1. Len(acts') = Len(acts) + 1
    BY <1>13 DEF Longer
  <2>2. QED
    BY <1>4, <1>5, <2>1, Bounds
<1>15. stack' \in Seq(1 .. MaxActs) /\ Len(stack') = Len(stack) + 1
  BY <1>4, <1>5, Appended DEF Longer
<1>16. io_top' \in Seq([sp0 : Nat, env0 : Nat]) /\ Longer(io_top, h, io_top')
  <2>1. h \in [sp0 : Nat, env0 : Nat]
    BY <1>5
  <2>2. io_top' = Append(io_top, h)
    BY <1>4
  <2> HIDE DEF h
  <2>3. QED
    BY <1>5, <2>1, <2>2, Appended
<1>17. Typed(acts', env, saved, stack', io_top')
  BY <1>5, <1>13, <1>14, <1>15, <1>16 DEF Typed
<1>18. Core(acts', env, saved, stack', io_top') /\ Fresh(acts', env)
  <2>1. /\ y.kind # "boxed" /\ y.arg # NoArg /\ Sees(acts, y.arg.env)
        /\ (y.kind = "prelude" <=> y.fn = Prelude)
    BY <1>8, <1>10, <1>11
  <2>2. acts[Len(acts)].kind # "prelude"
    BY <1>4 DEF w
  <2>3. Longer(io_top, [sp0 |-> Len(stack) + 1, env0 |-> Len(saved)], io_top')
    BY <1>16
  <2>4. QED
    BY <1>1, <1>11, <1>12, <1>13, <1>15, <1>17, <2>1, <2>2, <2>3, PushHere
<1>19. MayMake(w, y)
  <2>1. Runs(y) = f
    BY <1>10, <1>11 DEF Runs
  <2>2. f \in Inside(w.fn)
    BY <1>2 DEF Inside
  <2>3. w.fn \in jumpFreeSet => f \in jumpFreeSet
    BY <1>2 DEF EventsJumpFree
  <2>4. QED
    BY <1>4, <1>6, <1>7, <1>11, <2>1, <2>2, <2>3, InsideMakes
<1>20. Within(acts') /\ Quiet(acts')
  <2>1. \A j \in 1 .. Len(acts) : acts[j].kind # "prelude" => acts[j].fn \in Fn
    BY <1>1, RoutineFn
  <2>2. MayMake(acts[Len(acts)], y)
    BY <1>19 DEF w
  <2>3. QED
    BY <1>1, <1>5, <1>13, <2>1, <2>2, PushedWithin, PushedQuiet
<1>21. QED
  BY <1>1, <1>4, <1>18, <1>20 DEF ControlInv, Within, Quiet, Fresh

(* the event routine of a standard procedure runs where the procedure runs *)
LEMMA EventStep ==
  ASSUME ControlInv, Event
  PROVE  ControlInv'
<1> DEFINE w == acts[Len(acts)]
           c == w.arg
           y == Act(c.fn, "boxed", NoArg, TRUE, Len(stack))
           g == [a |-> Len(acts) + 1, b |-> NoFrame]
<1>1. /\ Core(acts, env, saved, stack, io_top) /\ Within(acts) /\ Quiet(acts)
      /\ jump_flag = NoArg /\ Fresh(acts, env)
  BY Idle DEF Event
<1>2. /\ saved' = Append(saved, env) /\ stack' = stack /\ io_top' = io_top
      /\ jump_flag' = jump_flag /\ mode' = mode /\ mode = "run" /\ w.kind = "prelude"
      /\ Len(acts) < MaxActs /\ acts' = Append(acts, y) /\ env' = Append(c.env, g)
  BY DEF Event, Top
<1>3. /\ acts \in Seq(Calls) /\ Len(acts) \in Nat \ {0} /\ Len(acts) \in 1 .. MaxActs
      /\ DOMAIN acts = 1 .. Len(acts) /\ Len(acts) \in 1 .. Len(acts) /\ w \in Calls
      /\ env \in Seq(Frames) /\ saved \in Seq(Seq(Frames)) /\ Len(stack) \in Nat
      /\ stack \in Seq(1 .. MaxActs) /\ io_top \in Seq([sp0 : Nat, env0 : Nat])
  BY <1>1, TypedParts, CoreShape
<1>4. c # NoArg
  BY <1>1, <1>2, <1>3 DEF Core, Kinds
<1>5. c \in Closure /\ Sees(acts, c.env)
  <2>1. c \in Closure \cup {NoArg}
    BY <1>3 DEF Calls
  <2>2. Sees(acts, c.env)
    BY <1>1, <1>3, <1>4, EnvSees
  <2>3. QED
    BY <1>4, <2>1, <2>2
<1>6. c.fn \in Fn /\ c.env \in Seq(Frames) /\ Runs(w) = c.fn
  BY <1>2, <1>5 DEF Closure, Runs
<1>7. g \in Frames
  BY <1>2, <1>3, Bounds DEF Frames
<1> HIDE DEF w, c, g
<1>8. /\ y.fn = c.fn /\ y.kind = "boxed" /\ y.arg = NoArg /\ y.base = Len(stack)
      /\ y.blocks = <<>> /\ y.checked
  BY DEF Act
<1>9. y \in Calls
  <2>1. c.fn \in Fn \cup {Prelude} /\ Len(stack) \in Nat /\ NoArg \in Closure \cup {NoArg}
    BY <1>3, <1>6
  <2>2. QED
    BY <2>1, Acted
<1> HIDE DEF y
<1>10. acts' \in Seq(Calls) /\ Longer(acts, y, acts')
  BY <1>2, <1>3, <1>9, Appended
<1>11. env' \in Seq(Frames) /\ Longer(c.env, g, env')
  BY <1>2, <1>6, <1>7, Appended
<1>12. saved' \in Seq(Seq(Frames)) /\ Longer(saved, env, saved')
  BY <1>2, <1>3, Appended
<1>13. Len(acts') \in 1 .. MaxActs
  <2>1. Len(acts') = Len(acts) + 1
    BY <1>10 DEF Longer
  <2>2. QED
    BY <1>2, <1>3, <2>1, Bounds
<1>14. Typed(acts', env', saved', stack, io_top)
  BY <1>3, <1>10, <1>11, <1>12, <1>13 DEF Typed
<1>15. Core(acts', env', saved', stack, io_top) /\ Fresh(acts', env')
  <2>1. DOMAIN c.env = 1 .. Len(c.env) /\ Len(c.env) \in Nat
    BY <1>6
  <2>2. Longer(c.env, [a |-> Len(acts) + 1, b |-> NoFrame], env')
    BY <1>11 DEF g
  <2>3. y.arg = NoArg /\ y.fn \in Fn
    BY <1>6, <1>8
  <2>4. QED
    BY <1>1, <1>5, <1>8, <1>9, <1>10, <1>12, <1>14, <2>1, <2>2, <2>3, PushBoxed
<1>16. MayMake(w, y)
  <2>1. Runs(y) = Runs(w)
    BY <1>6, <1>8 DEF Runs
  <2>2. QED
    BY <1>2, <1>8, <2>1 DEF MayMake
<1>17. Within(acts') /\ Quiet(acts')
  <2>1. \A j \in 1 .. Len(acts) : acts[j].kind # "prelude" => acts[j].fn \in Fn
    BY <1>1, RoutineFn
  <2>2. MayMake(acts[Len(acts)], y)
    BY <1>16 DEF w
  <2>3. QED
    BY <1>1, <1>3, <1>10, <2>1, <2>2, PushedWithin, PushedQuiet
<1>18. QED
  BY <1>1, <1>2, <1>15, <1>17 DEF ControlInv, Within, Quiet, Fresh

-----------------------------------------------------------------------------
(* Returns. *)

(* a natural number that is neither 0 nor 1 *)
LEMMA Several ==
  ASSUME NEW n \in Nat \ {0}, n # 1
  PROVE  n > 1
OBVIOUS

(* two calls or more: the last and the ones below it *)
LEMMA SplitLast ==
  ASSUME NEW S, NEW s \in Seq(S), Len(s) > 1
  PROVE  /\ Front1(s) \in Seq(S) /\ Longer(Front1(s), s[Len(s)], s)
         /\ Len(Front1(s)) = Len(s) - 1 /\ Len(Front1(s)) \in Nat \ {0}
<1>1. Len(s) > 0 /\ Len(s) \in Nat
  OBVIOUS
<1>2. Front1(s) \in Seq(S) /\ Longer(Front1(s), s[Len(s)], s)
  BY <1>1, CutLast
<1>3. Len(s) = Len(Front1(s)) + 1
  BY <1>2 DEF Longer
<1>4. Len(Front1(s)) \in Nat
  BY <1>2
<1>5. QED
  BY <1>2, <1>3, <1>4

(* the last call, y, and the ones below it, b *)
LEMMA Below ==
  ASSUME NEW a, NEW e, NEW sv, NEW s, NEW io, Core(a, e, sv, s, io),
         NEW y, NEW b, Longer(b, y, a), Len(b) \in Nat \ {0}
  PROVE  /\ y \in Calls /\ y = a[Len(a)] /\ b[Len(b)] \in Calls /\ y.base \in 0 .. Len(s)
         /\ y.kind # "prelude" => HeightsAt(b[Len(b)], y.base)
         /\ y.kind = "prelude" => (HeightsAt(b[Len(b)], y.base - 1) /\ y.base > 0)
         /\ y.kind = "boxed" => Len(sv) > 0
         /\ y.kind = "prelude" =>
              (Len(io) > 0 /\ io[Len(io)] = [sp0 |-> y.base, env0 |-> Len(sv)])
         /\ y.kind = "prelude" => (y.blocks = <<>> /\ b[Len(b)].kind # "prelude")
         /\ b[Len(b)].kind = "prelude" => y.kind = "boxed"
<1> DEFINE m == Len(b)
<1>0. /\ Len(a) = m + 1 /\ DOMAIN a = 1 .. m + 1 /\ a[m + 1] = y
      /\ \A k \in 1 .. m : a[k] = b[k]
  BY DEF Longer
<1>a. m \in Nat \ {0}
  OBVIOUS
<1> HIDE DEF m
<1>1. /\ Len(a) = m + 1 /\ a[m + 1] = y /\ a[m] = b[m] /\ m \in 1 .. m
      /\ DOMAIN a = 1 .. m + 1 /\ m \in DOMAIN a /\ m + 1 \in DOMAIN a
      /\ m # Len(a) /\ m < Len(a)
  <2>1. m \in 1 .. m /\ m \in 1 .. m + 1 /\ m + 1 \in 1 .. m + 1 /\ m # m + 1 /\ m < m + 1
    BY <1>a
  <2>2. QED
    BY <1>0, <2>1
<1>2. /\ \A k \in 1 .. Len(a) : a[k] \in Calls
      /\ Len(sv) \in Nat /\ Len(s) \in Nat /\ Len(io) \in Nat /\ Len(a) \in Nat \ {0}
  BY CoreShape
<1>3. y \in Calls /\ y = a[Len(a)] /\ b[m] \in Calls
  BY <1>1, <1>2
<1>4. y.base \in Nat /\ y.base <= Len(s)
  BY <1>1, <1>3, TopHeights
<1>5. b[m].base \in Nat
  BY <1>3, CallShape
<1>6. HeightsAt(a[m], Above(a, s, m))
  BY <1>1 DEF Core, Heights
<1>7. Above(a, s, m) = IF y.kind = "prelude" THEN y.base - 1 ELSE y.base
  BY <1>1 DEF Above
<1>8. HeightsAt(b[m], IF y.kind = "prelude" THEN y.base - 1 ELSE y.base)
  BY <1>1, <1>6, <1>7
<1>9. y.kind # "prelude" => HeightsAt(b[m], y.base)
  BY <1>8
<1>10. y.kind = "prelude" => HeightsAt(b[m], y.base - 1)
  BY <1>8
<1>11. ASSUME y.kind = "prelude" PROVE y.base > 0
  <2>1. b[m].base <= y.base - 1
    BY <1>10, <1>11 DEF HeightsAt
  <2>2. QED
    BY <1>4, <1>5, <2>1
<1>12. Len(sv) = Boxed(a, Len(a)) /\ Len(io) = Catches(a, Len(a))
  BY DEF Core, Counts
<1>13. ASSUME y.kind = "boxed" PROVE Len(sv) > 0
  <2>1. Boxed(a, m + 1) = Boxed(a, m) + 1 /\ Boxed(a, m) \in Nat
    BY <1>1, <1>a, <1>13, BoxedNext
  <2>2. QED
    BY <1>1, <1>12, <2>1
<1>14. ASSUME y.kind = "prelude"
       PROVE  Len(io) > 0 /\ io[Len(io)] = [sp0 |-> y.base, env0 |-> Len(sv)]
  <2>1. Catches(a, m + 1) = Catches(a, m) + 1 /\ Catches(a, m) \in Nat
    BY <1>1, <1>a, <1>14, CatchesNext
  <2>2. io[Catches(a, Len(a))] = [sp0 |-> a[Len(a)].base, env0 |-> Boxed(a, Len(a))]
    BY <1>1, <1>14 DEF Core, Counts
  <2>3. Len(io) > 0
    BY <1>1, <1>12, <2>1
  <2>4. QED
    BY <1>3, <1>12, <2>2, <2>3
<1>15. ASSUME b[m].kind = "prelude" PROVE y.kind = "boxed"
  BY <1>1, <1>15 DEF Core, Kinds
<1>16. y.kind = "prelude" => y.blocks = <<>>
  BY <1>1 DEF Core, Kinds
<1>17. y.base \in 0 .. Len(s)
  BY <1>2, <1>4
<1>18. y.kind = "prelude" => b[m].kind # "prelude"
  BY <1>15
<1>19. QED
  BY <1>3, <1>9, <1>10, <1>11, <1>13, <1>14, <1>15, <1>16, <1>17, <1>18 DEF m

(* only boxed calls are made from a standard procedure *)
LEMMA EventBoxed ==
  ASSUME NEW a, Kinds(a), NEW y, NEW b, Longer(b, y, a), Len(b) \in Nat \ {0},
         b[Len(b)].kind = "prelude"
  PROVE  y.kind = "boxed"
<1>1. /\ DOMAIN a = 1 .. Len(b) + 1 /\ Len(a) = Len(b) + 1 /\ a[Len(b) + 1] = y
      /\ \A k \in 1 .. Len(b) : a[k] = b[k]
  BY DEF Longer
<1>2. Len(b) \in 1 .. Len(b) /\ Len(b) \in 1 .. Len(b) + 1 /\ Len(b) < Len(b) + 1
  OBVIOUS
<1>3. QED
  BY <1>1, <1>2 DEF Kinds

Returned(y, e, sv, f, tv) ==
  IF y.kind = "boxed" THEN f = sv[Len(sv)] /\ tv = Front1(sv) ELSE f = e /\ tv = sv

(* a routine returns, with what it leaves on the operand stack *)
LEMMA ReturnedCore ==
  ASSUME NEW a, NEW e, NEW sv, NEW s, NEW io, Core(a, e, sv, s, io),
         NEW y, NEW b, Longer(b, y, a), Len(b) \in Nat \ {0}, b \in Seq(Calls),
         y.kind # "prelude", NEW f, NEW tv, Returned(y, e, sv, f, tv),
         NEW t \in Seq(1 .. MaxActs), y.base <= Len(t)
  PROVE  /\ Core(b, f, tv, t, io)
         /\ (y.kind = "boxed" \/ (y.blocks = <<>> /\ Fresh(a, e))) => Fresh(b, f)
<1>1. /\ y \in Calls /\ b[Len(b)] \in Calls /\ HeightsAt(b[Len(b)], y.base)
      /\ y.kind = "boxed" => Len(sv) > 0
  BY Below
<1>2. /\ a \in Seq(Calls) /\ Len(a) \in 1 .. MaxActs /\ e \in Seq(Frames)
      /\ sv \in Seq(Seq(Frames)) /\ io \in Seq([sp0 : Nat, env0 : Nat])
  BY TypedParts
<1>3. f \in Seq(Frames) /\ tv \in Seq(Seq(Frames)) /\ Restored(y, e, sv, io, f, tv, io)
  <2>1. CASE y.kind = "boxed"
    <3>1. f = sv[Len(sv)] /\ tv = Front1(sv) /\ Len(sv) > 0
      BY <1>1, <2>1 DEF Returned
    <3>2. Front1(sv) \in Seq(Seq(Frames)) /\ Longer(Front1(sv), sv[Len(sv)], sv)
      BY <1>2, <3>1, CutLast
    <3>3. sv[Len(sv)] \in Seq(Frames)
      BY <1>2, <3>1
    <3>4. QED
      BY <2>1, <3>1, <3>2, <3>3 DEF Restored
  <2>2. CASE y.kind # "boxed"
    BY <1>2, <2>2 DEF Returned, Restored
  <2>3. QED
    BY <2>1, <2>2
<1>4. Len(t) \in Nat /\ y.base \in Nat
  BY <1>1, CallShape
<1>5. HeightsAt(b[Len(b)], Len(t))
  BY <1>1, <1>4, HeightsMore
<1>6. Len(b) \in 1 .. MaxActs
  <2>1. Len(a) = Len(b) + 1
    BY DEF Longer
  <2>2. QED
    BY <1>2, <2>1, Bounds
<1>7. Typed(b, f, tv, t, io)
  BY <1>2, <1>3, <1>6 DEF Typed
<1>8. QED
  BY <1>3, <1>5, <1>7, Popped

(* a standard procedure is left *)
LEMMA ProcedureLeft ==
  ASSUME NEW a, NEW e, NEW sv, NEW s, NEW io, Core(a, e, sv, s, io),
         NEW y, NEW b, Longer(b, y, a), Len(b) \in Nat \ {0}, b \in Seq(Calls),
         y.kind = "prelude", NEW t \in Seq(1 .. MaxActs), Len(t) = y.base - 1
  PROVE  Core(b, e, sv, t, Front1(io)) /\ (Fresh(a, e) => Fresh(b, e))
<1>1. /\ y \in Calls /\ b[Len(b)] \in Calls /\ HeightsAt(b[Len(b)], y.base - 1)
      /\ Len(io) > 0 /\ y.blocks = <<>>
  BY Below
<1>2. /\ a \in Seq(Calls) /\ Len(a) \in 1 .. MaxActs /\ e \in Seq(Frames)
      /\ sv \in Seq(Seq(Frames)) /\ io \in Seq([sp0 : Nat, env0 : Nat])
  BY TypedParts
<1>3. /\ Front1(io) \in Seq([sp0 : Nat, env0 : Nat])
      /\ Longer(Front1(io), io[Len(io)], io)
  BY <1>1, <1>2, CutLast
<1>4. Restored(y, e, sv, io, e, sv, Front1(io))
  BY <1>3 DEF Restored
<1>5. Len(b) \in 1 .. MaxActs
  <2>1. Len(a) = Len(b) + 1
    BY DEF Longer
  <2>2. QED
    BY <1>2, <2>1, Bounds
<1>6. Typed(b, e, sv, t, Front1(io))
  BY <1>2, <1>3, <1>5 DEF Typed
<1>7. HeightsAt(b[Len(b)], Len(t))
  BY <1>1
<1>8. QED
  BY <1>1, <1>4, <1>6, <1>7, Popped

(* io_raise leaves the innermost standard procedure as it was called *)
LEMMA Raised ==
  ASSUME NEW a, NEW e, NEW sv, NEW s, Core(a, e, sv, s, io_top), a[Len(a)].kind = "prelude",
         io_raise(s, sv, e, a)
  PROVE  /\ Core(acts', env', saved', stack', io_top')
         /\ acts' = Front1(a) /\ env' = e /\ mode' = "check"
         /\ Longer(acts', a[Len(a)], a) /\ Len(acts') \in Nat \ {0}
         /\ Fresh(a, e) => Fresh(acts', env')
<1> DEFINE y == a[Len(a)]
           b == Front1(a)
<1>1. a \in Seq(Calls) /\ s \in Seq(1 .. MaxActs) /\ Len(s) \in Nat /\ Len(sv) \in Nat
  BY TypedParts, CoreShape
<1>2. Len(a) > 1
  <2>1. a[1].kind = "boxed"
    BY DEF Core, Kinds
  <2>2. Len(a) # 1 /\ Len(a) \in Nat \ {0}
    BY <2>1, CoreShape
  <2>3. QED
    BY <2>2, Several
<1>3. b \in Seq(Calls) /\ Longer(b, y, a) /\ Len(b) \in Nat \ {0}
  BY <1>1, <1>2, SplitLast
<1>4. y.kind = "prelude"
  OBVIOUS
<1> HIDE DEF b
<1>5. /\ y \in Calls /\ y.base \in 0 .. Len(s) /\ y.base > 0
      /\ io_top[Len(io_top)] = [sp0 |-> y.base, env0 |-> Len(sv)]
  BY <1>3, <1>4, Below
<1>6. /\ io_top' = Front1(io_top) /\ saved' = Prefix(sv, Len(sv))
      /\ env' = (IF Len(sv) < Len(sv) THEN sv[Len(sv) + 1] ELSE e)
      /\ acts' = b /\ stack' = SubSeq(Prefix(s, y.base), 1, y.base - 1) /\ mode' = "check"
  BY <1>5 DEF io_raise, CatchesAfter, b, Front1
<1>7. ~(Len(sv) < Len(sv))
  BY <1>1
<1>8. saved' = sv /\ env' = e
  BY <1>6, <1>7 DEF Prefix
<1>9. stack' \in Seq(1 .. MaxActs) /\ Len(stack') = y.base - 1
  <2>1. Prefix(s, y.base) \in Seq(1 .. MaxActs) /\ Len(Prefix(s, y.base)) = y.base
    <3>1. SubSeq(s, 1, y.base) \in Seq(1 .. MaxActs) /\ Shorter(s, y.base, SubSeq(s, 1, y.base))
      BY <1>1, <1>5, Cut
    <3>2. Len(SubSeq(s, 1, y.base)) = y.base
      BY <3>1 DEF Shorter
    <3>3. CASE y.base < Len(s)
      BY <3>1, <3>2, <3>3 DEF Prefix
    <3>4. CASE ~(y.base < Len(s))
      <4>1. y.base = Len(s)
        BY <1>1, <1>5, <3>4
      <4>2. QED
        BY <1>1, <3>4, <4>1 DEF Prefix
    <3>5. QED
      BY <3>3, <3>4
  <2> DEFINE r == Prefix(s, y.base)
  <2> HIDE DEF r
  <2>2. r \in Seq(1 .. MaxActs) /\ Len(r) = y.base
    BY <2>1 DEF r
  <2>3. y.base - 1 \in 0 .. Len(r)
    BY <1>5, <2>2
  <2>4. SubSeq(r, 1, y.base - 1) \in Seq(1 .. MaxActs) /\ Shorter(r, y.base - 1, SubSeq(r, 1, y.base - 1))
    BY <2>2, <2>3, Cut
  <2>5. QED
    BY <1>6, <2>4 DEF Shorter, r
<1>10. Core(b, e, sv, stack', Front1(io_top)) /\ (Fresh(a, e) => Fresh(b, e))
  BY <1>3, <1>4, <1>9, ProcedureLeft
<1>11. QED
  BY <1>3, <1>6, <1>8, <1>10 DEF b

(* a routine ends *)
LEMMA ReturnStep ==
  ASSUME ControlInv, Return
  PROVE  ControlInv'
<1> DEFINE w == acts[Len(acts)]
<1>1. /\ Core(acts, env, saved, stack, io_top) /\ Within(acts) /\ Quiet(acts)
      /\ jump_flag = NoArg /\ Fresh(acts, env)
  BY Idle DEF Return, Running
<1>2. /\ acts' = Front1(acts) /\ Returned(w, env, saved, env', saved')
      /\ stack' = stack /\ jump_flag' = jump_flag /\ io_top' = io_top /\ Len(acts) > 1
      /\ w.kind # "prelude" /\ w.blocks = <<>> /\ Len(stack) = w.base
  BY DEF Return, Running, Top, Caller, Front1, RestoreEnv, Returned
<1>3. mode' \in {"run", "check"}
  BY DEF Return
<1>4. acts \in Seq(Calls) /\ stack \in Seq(1 .. MaxActs) /\ Len(stack) \in Nat
  BY <1>1, TypedParts
<1>5. acts' \in Seq(Calls) /\ Longer(acts', w, acts) /\ Len(acts') \in Nat \ {0}
  BY <1>2, <1>4, SplitLast
<1> HIDE DEF w
<1>6. w.base <= Len(stack)
  BY <1>2, <1>4
<1>7. Core(acts', env', saved', stack, io_top) /\ Fresh(acts', env')
  BY <1>1, <1>2, <1>4, <1>5, <1>6, ReturnedCore
<1>8. Within(acts') /\ Quiet(acts')
  BY <1>1, <1>5, PoppedWithin
<1>9. QED
  BY <1>1, <1>2, <1>3, <1>7, <1>8 DEF ControlInv, Within, Quiet, Fresh

(* a standard procedure ends *)
LEMMA PreludeReturnStep ==
  ASSUME ControlInv, PreludeReturn
  PROVE  ControlInv'
<1> DEFINE w == acts[Len(acts)]
<1>1. /\ Core(acts, env, saved, stack, io_top) /\ Within(acts) /\ Quiet(acts)
      /\ jump_flag = NoArg /\ Fresh(acts, env)
  BY Idle DEF PreludeReturn
<1>2. /\ acts' = Front1(acts) /\ env' = env /\ saved' = saved
      /\ stack' = SubSeq(stack, 1, w.base - 1) /\ jump_flag' = jump_flag
      /\ io_top' = Front1(io_top) /\ w.kind = "prelude" /\ mode' = "check"
  BY DEF PreludeReturn, Top, Caller, Front1
<1>3. acts \in Seq(Calls) /\ stack \in Seq(1 .. MaxActs) /\ Len(stack) \in Nat
  BY <1>1, TypedParts
<1>4. Len(acts) > 1
  <2>1. acts[1].kind = "boxed"
    BY <1>1 DEF Core, Kinds
  <2>2. Len(acts) # 1 /\ Len(acts) \in Nat \ {0}
    BY <1>1, <1>2, <2>1, CoreShape
  <2>3. QED
    BY <2>2, Several
<1>5. acts' \in Seq(Calls) /\ Longer(acts', w, acts) /\ Len(acts') \in Nat \ {0}
  BY <1>2, <1>3, <1>4, SplitLast
<1> HIDE DEF w
<1>6. w.base \in 0 .. Len(stack) /\ w.base > 0
  BY <1>1, <1>2, <1>5, Below
<1>7. stack' \in Seq(1 .. MaxActs) /\ Len(stack') = w.base - 1
  <2>1. w.base - 1 \in 0 .. Len(stack)
    BY <1>3, <1>6
  <2>2. QED
    <3>1. SubSeq(stack, 1, w.base - 1) \in Seq(1 .. MaxActs)
          /\ Shorter(stack, w.base - 1, SubSeq(stack, 1, w.base - 1))
      BY <1>3, <2>1, Cut
    <3>2. QED
      BY <1>2, <3>1 DEF Shorter
<1>8. Core(acts', env, saved, stack', Front1(io_top)) /\ Fresh(acts', env)
  <2>1. Core(acts, env, saved, stack, io_top) /\ Fresh(acts, env) /\ w.kind = "prelude"
    BY <1>1, <1>2
  <2>2. QED
    BY <1>5, <1>7, <2>1, ProcedureLeft
<1>9. Within(acts') /\ Quiet(acts')
  BY <1>1, <1>5, PoppedWithin
<1>10. QED
  BY <1>1, <1>2, <1>8, <1>9 DEF ControlInv, Within, Quiet, Fresh

(* an event routine mends the end of the file *)
LEMMA MendedStep ==
  ASSUME ControlInv, Mended
  PROVE  ControlInv'
<1> DEFINE w == acts[Len(acts)]
           b == Front1(acts)
           f == saved[Len(saved)]
           tv == Front1(saved)
<1>1. /\ Core(acts, env, saved, stack, io_top) /\ Within(acts) /\ Quiet(acts)
      /\ jump_flag = NoArg /\ Fresh(acts, env)
  BY Idle DEF Mended, Running
<1>2. /\ b[Len(b)].kind = "prelude" /\ io_raise(stack, tv, f, b) /\ jump_flag' = jump_flag
      /\ Len(acts) > 1 /\ w.blocks = <<>> /\ Len(stack) = w.base
  BY DEF Mended, Top, Caller, Front1
<1>3. acts \in Seq(Calls) /\ stack \in Seq(1 .. MaxActs) /\ Len(stack) \in Nat
  BY <1>1, TypedParts
<1>4. b \in Seq(Calls) /\ Longer(b, w, acts) /\ Len(b) \in Nat \ {0}
  BY <1>2, <1>3, SplitLast
<1>5. Returned(w, env, saved, f, tv) \/ w.kind # "boxed"
  BY DEF Returned
<1> HIDE DEF w, b, f, tv
<1>6. w.kind = "boxed"
  <2>1. Core(acts, env, saved, stack, io_top) /\ Longer(b, w, acts) /\ Len(b) \in Nat \ {0}
    BY <1>1, <1>4
  <2>2. b[Len(b)].kind = "prelude"
    BY <1>2
  <2>3. Kinds(acts)
    BY <2>1 DEF Core
  <2>4. QED
    BY <2>1, <2>2, <2>3, EventBoxed
<1>7. w.base <= Len(stack) /\ w.kind # "prelude"
  BY <1>2, <1>3, <1>6
<1>8. Core(b, f, tv, stack, io_top) /\ Fresh(b, f)
  <2>1. Core(acts, env, saved, stack, io_top)
    BY <1>1
  <2>2. Returned(w, env, saved, f, tv)
    BY <1>5, <1>6
  <2>3. QED
    BY <1>3, <1>4, <1>6, <1>7, <2>1, <2>2, ReturnedCore
<1>9. /\ Core(acts', env', saved', stack', io_top') /\ mode' = "check"
      /\ Longer(acts', b[Len(b)], b) /\ Len(acts') \in Nat \ {0}
      /\ Fresh(acts', env')
  BY <1>2, <1>8, Raised
<1>10. Within(b) /\ Quiet(b)
  BY <1>1, <1>4, PoppedWithin
<1>11. Within(acts') /\ Quiet(acts')
  BY <1>9, <1>10, PoppedWithin
<1>12. QED
  BY <1>1, <1>2, <1>9, <1>11 DEF ControlInv, Within, Quiet, Fresh

-----------------------------------------------------------------------------
(* Jumps out of a routine. *)

(* a call is in blocks of its own routine *)
LEMMA BlockFn ==
  ASSUME NEW a, NEW e, NEW sv, NEW s, NEW io, Core(a, e, sv, s, io),
         NEW k \in DOMAIN a, NEW i \in DOMAIN a[k].blocks
  PROVE  LabelFn[a[k].blocks[i].l] = a[k].fn /\ a[k].kind # "prelude"
<1>1. NotedAt(a[k], k, Chain(a, e, sv, k))
  BY DEF Core, Noted
<1>2. LabelFn[a[k].blocks[i].l] = a[k].fn
  BY <1>1 DEF NotedAt
<1>3. a[k].blocks # <<>>
  OBVIOUS
<1>4. a[k].kind # "prelude"
  BY <1>3 DEF Core, Kinds
<1>5. QED
  BY <1>2, <1>4

(* The block a pending jump goes to is still there when the call above has returned, and
   when the procedure it was made from has been left. *)
Target(a, l) == \E k \in DOMAIN a : \E i \in DOMAIN a[k].blocks : a[k].blocks[i].l = l
AllChecked(a) == \A k \in DOMAIN a : a[k].checked

(* a target that is not in the last call is below it *)
LEMMA TargetBelow ==
  ASSUME NEW a, NEW y, NEW b, Longer(b, y, a), Len(b) \in Nat \ {0},
         NEW l, Target(a, l), AllChecked(a),
         \A i \in DOMAIN y.blocks : y.blocks[i].l # l
  PROVE  Target(b, l) /\ AllChecked(b) /\ y.checked
<1> DEFINE m == Len(b)
<1>1. /\ DOMAIN a = 1 .. m + 1 /\ DOMAIN b = 1 .. m /\ a[m + 1] = y
      /\ \A k \in 1 .. m : a[k] = b[k]
  BY DEF Longer
<1>2. m + 1 \in 1 .. m + 1 /\ \A k \in 1 .. m + 1 : k \in 1 .. m \/ k = m + 1
  OBVIOUS
<1>3. \A k \in 1 .. m : k \in 1 .. m + 1
  OBVIOUS
<1> HIDE DEF m
<1>4. Target(b, l)
  BY <1>1, <1>2 DEF Target
<1>5. AllChecked(b) /\ y.checked
  BY <1>1, <1>2, <1>3 DEF AllChecked
<1>6. QED
  BY <1>4, <1>5

(* what follows a return while a jump to l is pending *)
LEMMA Unwound ==
  ASSUME Core(acts, env, saved, stack, io_top), Within(acts), Quiet(acts),
         acts[Len(acts)].kind # "prelude", AllChecked(acts), NEW l \in Label,
         Target(acts, l), JumpedInto(l), LabelFn[l] # acts[Len(acts)].fn,
         jump_flag' = l, ReturnPending
  PROVE  ControlInv'
<1> DEFINE w == acts[Len(acts)]
           b == Front1(acts)
           f == IF w.kind = "boxed" THEN saved[Len(saved)] ELSE env
           tv == IF w.kind = "boxed" THEN Front1(saved) ELSE saved
           t == IF w.kind = "boxed" THEN SubSeq(stack, 1, w.base) ELSE stack
<1>1. /\ acts \in Seq(Calls) /\ Len(acts) \in Nat \ {0} /\ DOMAIN acts = 1 .. Len(acts)
      /\ stack \in Seq(1 .. MaxActs) /\ Len(stack) \in Nat /\ w.base \in Nat
      /\ w.base <= Len(stack) /\ Len(acts) \in DOMAIN acts
  BY TypedParts, CoreShape, TopHeights
<1>2. IF b[Len(b)].kind = "prelude" THEN io_raise(t, tv, f, b)
      ELSE /\ acts' = b /\ stack' = t /\ env' = f /\ saved' = tv
           /\ mode' = (IF w.checked THEN "check" ELSE "run") /\ io_top' = io_top
  BY DEF ReturnPending, Top, Caller, Front1
<1>3. \A i \in DOMAIN w.blocks : w.blocks[i].l # l
  BY <1>1, BlockFn
<1>4. Len(acts) > 1
  <2>1. PICK k \in DOMAIN acts : \E i \in DOMAIN acts[k].blocks : acts[k].blocks[i].l = l
    BY DEF Target
  <2>2. k # Len(acts)
    BY <1>3, <2>1
  <2>3. QED
    BY <1>1, <2>1, <2>2
<1>5. b \in Seq(Calls) /\ Longer(b, w, acts) /\ Len(b) \in Nat \ {0}
  BY <1>1, <1>4, SplitLast
<1>6. Returned(w, env, saved, f, tv) /\ w.kind # "prelude"
  BY DEF Returned
<1>7. t \in Seq(1 .. MaxActs) /\ w.base <= Len(t)
  <2>1. w.base \in 0 .. Len(stack)
    BY <1>1
  <2>2. SubSeq(stack, 1, w.base) \in Seq(1 .. MaxActs) /\ Shorter(stack, w.base, SubSeq(stack, 1, w.base))
    BY <1>1, <2>1, Cut
  <2>3. Len(SubSeq(stack, 1, w.base)) = w.base
    BY <2>2 DEF Shorter
  <2>4. CASE w.kind = "boxed"
    BY <1>1, <2>2, <2>3, <2>4
  <2>5. CASE w.kind # "boxed"
    BY <1>1, <2>5
  <2>6. QED
    BY <2>4, <2>5
<1> HIDE DEF w, b, f, tv, t
<1>8. Core(b, f, tv, t, io_top)
  BY <1>5, <1>6, <1>7, ReturnedCore
<1>9. Within(b) /\ Quiet(b)
  BY <1>5, PoppedWithin
<1>10. Target(b, l) /\ AllChecked(b) /\ w.checked
  BY <1>3, <1>5, TargetBelow
<1>11. CASE b[Len(b)].kind # "prelude"
  <2>1. /\ acts' = b /\ stack' = t /\ env' = f /\ saved' = tv /\ mode' = "check"
        /\ io_top' = io_top
    BY <1>2, <1>10, <1>11
  <2>2. Pending(acts)'
    BY <1>10, <1>11, <2>1 DEF Pending, Target, AllChecked
  <2>3. jump_flag' # NoArg
    BY Tokens
  <2>4. QED
    BY <1>8, <1>9, <2>1, <2>2, <2>3 DEF ControlInv, Within, Quiet
<1>12. CASE b[Len(b)].kind = "prelude"
  <2> DEFINE p == b[Len(b)]
  <2>1. /\ Core(acts', env', saved', stack', io_top') /\ mode' = "check"
        /\ Longer(acts', p, b) /\ Len(acts') \in Nat \ {0}
    <3>1. io_raise(t, tv, f, b)
      BY <1>2, <1>12
    <3>2. QED
      BY <1>8, <1>12, <3>1, Raised
  <2>2. Within(acts') /\ Quiet(acts')
    BY <1>9, <2>1, PoppedWithin
  <2>3. p.blocks = <<>> /\ p.kind = "prelude"
    <3>1. Len(b) \in DOMAIN b
      BY <1>8, CoreShape
    <3>2. QED
      BY <1>8, <1>12, <3>1 DEF Core, Kinds
  <2> HIDE DEF p
  <2>4. acts'[Len(acts')].kind # "prelude"
    <3>1. Kinds(b) /\ p.kind # "boxed"
      BY <1>8, <2>3 DEF Core
    <3>2. QED
      BY <2>1, <3>1, EventBoxed
  <2>5. Target(acts', l) /\ AllChecked(acts')
    <3>1. \A i \in DOMAIN p.blocks : p.blocks[i].l # l
      BY <2>3
    <3>2. QED
      BY <1>10, <2>1, <3>1, TargetBelow
  <2>6. Pending(acts)'
    BY <2>1, <2>4, <2>5 DEF Pending, Target, AllChecked
  <2>7. jump_flag' # NoArg
    BY Tokens
  <2>8. QED
    BY <2>1, <2>2, <2>6, <2>7 DEF ControlInv, Within, Quiet
<1>13. QED
  BY <1>11, <1>12

(* the test of the flag: a pending jump to this routine has its block in this call of it *)
LEMMA CheckStep ==
  ASSUME ControlInv, NoReentry, jumpCheck
  PROVE  ControlInv'
<1> DEFINE w == acts[Len(acts)]
<1>1. CASE jump_flag = NoArg
  <2>1. /\ Core(acts, env, saved, stack, io_top) /\ Within(acts) /\ Quiet(acts)
        /\ Fresh(acts, env)
    BY <1>1, Idle
  <2>2. /\ acts' = acts /\ env' = env /\ saved' = saved /\ stack' = stack
        /\ jump_flag' = jump_flag /\ io_top' = io_top /\ mode' = "run"
    BY <1>1 DEF jumpCheck
  <2>3. QED
    BY <1>1, <2>1, <2>2 DEF ControlInv, Within, Quiet, Fresh
<1>2. CASE jump_flag # NoArg
  <2>1. /\ Core(acts, env, saved, stack, io_top) /\ Within(acts) /\ Quiet(acts)
        /\ Pending(acts)
    BY <1>2 DEF ControlInv
  <2>2. /\ jump_flag \in Label /\ JumpedInto(jump_flag) /\ w.kind # "prelude"
        /\ AllChecked(acts) /\ Target(acts, jump_flag)
    BY <2>1 DEF Pending, AllChecked, Target
  <2>3. DOMAIN acts = 1 .. Len(acts) /\ Len(acts) \in Nat \ {0} /\ Len(acts) \in 1 .. Len(acts)
    BY <2>1, CoreShape
  <2>4. PICK k \in DOMAIN acts : \E i \in DOMAIN acts[k].blocks : acts[k].blocks[i].l = jump_flag
    BY <2>2 DEF Target
  <2>5. LabelFn[jump_flag] = acts[k].fn /\ acts[k].kind # "prelude"
    BY <2>1, <2>4, BlockFn
  <2>6. CASE LabelFn[jump_flag] = w.fn
    <3>1. k = Len(acts)
      <4>1. SUFFICES ASSUME k # Len(acts) PROVE FALSE
        OBVIOUS
      <4>2. k \in 1 .. Len(acts) - 1 /\ Len(acts) \in DOMAIN acts
        BY <2>3, <4>1
      <4>3. Runs(w) \in Extent(acts[k].fn)
        BY <2>1, <2>5, <4>2 DEF Within
      <4>4. Runs(w) = w.fn
        BY <2>2 DEF Runs
      <4>5. QED
        BY <2>2, <2>5, <2>6, <4>3, <4>4 DEF NoReentry
    <3>2. \E j \in DOMAIN w.blocks : w.blocks[j].l = jump_flag
      BY <2>4, <3>1
    <3>3. Land(jump_flag) /\ saved' = saved /\ io_top' = io_top
      BY <1>2, <2>6 DEF jumpCheck, Top
    <3>4. QED
      BY <2>1, <2>2, <3>2, <3>3, LandStep
  <2>7. CASE LabelFn[jump_flag] # w.fn
    <3>1. jump_flag' = jump_flag /\ ReturnPending
      BY <1>2, <2>7 DEF jumpCheck, Top
    <3>2. QED
      BY <2>1, <2>2, <2>7, <3>1, Unwound
  <2>8. QED
    BY <2>6, <2>7
<1>3. QED
  BY <1>1, <1>2

(* a jump is made only where every call below tests the flag, and to a block that is there *)
LEMMA RaiseJumpStep ==
  ASSUME ControlInv, NEW l \in Label, raise_jump(l)
  PROVE  ControlInv'
<1> DEFINE w == acts[Len(acts)]
<1>1. /\ Core(acts, env, saved, stack, io_top) /\ Within(acts) /\ Quiet(acts)
      /\ jump_flag = NoArg /\ Fresh(acts, env)
  BY Idle DEF raise_jump, Running
<1>2. /\ w.kind # "prelude" /\ l \in Text[w.fn].gotos /\ LabelFn[l] # w.fn
      /\ jump_flag' = l /\ ReturnPending
  BY DEF raise_jump, Running, Top
<1>3. PICK i \in DOMAIN env : env[i].b = l
  BY DEF raise_jump
<1>4. /\ DOMAIN acts = 1 .. Len(acts) /\ Len(acts) \in Nat \ {0}
      /\ Len(acts) \in 1 .. Len(acts)
  BY <1>1, CoreShape
<1>5. w.fn \in Fn /\ Runs(w) = w.fn
  BY <1>1, <1>2, <1>4, RoutineFn
<1>6. AllChecked(acts)
  <2>1. SUFFICES ASSUME NEW k \in DOMAIN acts, ~acts[k].checked PROVE FALSE
    BY DEF AllChecked
  <2>2. Len(acts) \in k .. Len(acts)
    BY <1>4
  <2>3. Runs(w) \in jumpFreeSet
    BY <1>1, <2>1, <2>2 DEF Quiet
  <2>4. QED
    BY <1>2, <1>5, <2>3, JumpFreeCalls
<1>7. Target(acts, l)
  <2>1. env[i].a \in 1 .. Len(acts)
    BY <1>1 DEF Fresh
  <2>2. Owned(acts, env[i])
    BY <1>1, <2>1 DEF Core, Live
  <2>3. l # NoFrame
    BY Tokens
  <2>4. QED
    BY <1>3, <1>4, <2>1, <2>2, <2>3 DEF Owned, Target
<1>8. JumpedInto(l)
  BY <1>2, <1>5 DEF JumpedInto
<1>9. QED
  BY <1>1, <1>2, <1>6, <1>7, <1>8, Unwound

-----------------------------------------------------------------------------
(* The invariant holds. *)

(* the invariant holds of the initial state *)
LEMMA InitInv ==
  ASSUME Init
  PROVE  ControlInv
<1> DEFINE y == [fn |-> Main, kind |-> "boxed", arg |-> NoArg, base |-> 0, blocks |-> <<>>,
                 checked |-> TRUE]
           g == [a |-> 1, b |-> NoFrame]
<1>1. /\ acts = <<y>> /\ env = <<g>> /\ saved = <<>> /\ stack = <<>> /\ io_top = <<>>
      /\ jump_flag = NoArg /\ mode = "run"
  BY DEF Init
<1>2. y \in Calls /\ y.kind = "boxed" /\ y.arg = NoArg /\ y.blocks = <<>> /\ y.base = 0
      /\ y.fn = Main /\ y.checked
  <2>1. <<>> \in Seq(Depths)
    OBVIOUS
  <2>2. QED
    BY <2>1, Program DEF Calls
<1>3. g \in Frames /\ g.a = 1 /\ g.b = NoFrame
  BY Bounds DEF Frames
<1> HIDE DEF y, g
<1>4. /\ Len(acts) = 1 /\ DOMAIN acts = {1} /\ acts[1] = y /\ acts \in Seq(Calls)
      /\ Len(env) = 1 /\ DOMAIN env = {1} /\ env[1] = g /\ env \in Seq(Frames)
  BY <1>1, <1>2, <1>3
<1>5. Boxed(acts, 1) = 0 /\ Catches(acts, 1) = 0
  <2>1. {i \in 2 .. 1 : acts[i].kind = "boxed"} = {}
    OBVIOUS
  <2>2. {i \in 1 .. 1 : acts[i].kind = "prelude"} = {}
    BY <1>2, <1>4
  <2>3. Cardinality({}) = 0
    BY FS_EmptySet
  <2>4. QED
    BY <2>1, <2>2, <2>3 DEF Boxed, Catches
<1>6. /\ Len(saved) = 0 /\ DOMAIN saved = {} /\ saved \in Seq(Seq(Frames))
      /\ Len(stack) = 0 /\ stack \in Seq(1 .. MaxActs)
      /\ Len(io_top) = 0 /\ io_top \in Seq([sp0 : Nat, env0 : Nat])
  BY <1>1
<1>7. Typed(acts, env, saved, stack, io_top)
  BY <1>4, <1>6, Bounds DEF Typed
<1>8. Kinds(acts)
  BY <1>2, <1>4, Program DEF Kinds
<1>9. Counts(acts, saved, io_top)
  BY <1>2, <1>4, <1>5, <1>6 DEF Counts
<1>10. Heights(acts, stack)
  BY <1>2, <1>4, <1>6 DEF Heights, HeightsAt, Above
<1>11. Noted(acts, env, saved)
  BY <1>2, <1>4 DEF Noted, NotedAt
<1>12. Placed(acts, env, saved)
  <2>1. Chain(acts, env, saved, 1) = env
    BY <1>5, <1>6 DEF Chain
  <2>2. QED
    BY <1>3, <1>4, <2>1 DEF Placed, PlacedAt
<1>13. Live(acts, env, saved) /\ Fresh(acts, env)
  <2>1. Owned(acts, g)
    BY <1>2, <1>3, <1>4 DEF Owned
  <2>2. QED
    BY <1>2, <1>3, <1>4, <1>6, <2>1 DEF Live, Fresh
<1>14. Within(acts) /\ Quiet(acts)
  BY <1>2, <1>4 DEF Within, Quiet
<1>15. QED
  BY <1>1, <1>7, <1>8, <1>9, <1>10, <1>11, <1>12, <1>13, <1>14 DEF ControlInv, Core

(* and every step keeps it *)
LEMMA NextInv ==
  ASSUME NoReentry, EventsJumpFree, ControlInv, [Next]_vars
  PROVE  ControlInv'
<1>1. CASE Operand
  BY <1>1, OperandStep
<1>2. CASE Drop
  BY <1>2, DropStep
<1>3. CASE LeaveBlock
  BY <1>3, LeaveBlockStep
<1>4. CASE call
  BY <1>4, CallStep
<1>5. CASE call_builtin
  BY <1>5, CallBuiltinStep
<1>6. CASE Event
  BY <1>6, EventStep
<1>7. CASE Return
  BY <1>7, ReturnStep
<1>8. CASE PreludeReturn
  BY <1>8, PreludeReturnStep
<1>9. CASE Mended
  BY <1>9, MendedStep
<1>10. CASE jumpCheck
  BY <1>10, CheckStep
<1>11. ASSUME NEW l \in Label, EnterBlock(l) PROVE ControlInv'
  BY <1>11, EnterBlockStep
<1>12. ASSUME NEW l \in Label, Goto(l) PROVE ControlInv'
  BY <1>12, GotoStep
<1>13. ASSUME NEW l \in Label, raise_jump(l) PROVE ControlInv'
  BY <1>13, RaiseJumpStep
<1>14. ASSUME NEW f \in Fn, PlainCall(f) PROVE ControlInv'
  BY <1>14, PlainCallStep
<1>15. CASE UNCHANGED vars
  BY <1>15 DEF vars, ControlInv, Within, Quiet, Fresh, Pending
<1>16. QED
  BY <1>1, <1>2, <1>3, <1>4, <1>5, <1>6, <1>7, <1>8, <1>9, <1>10, <1>11, <1>12, <1>13, <1>14,
     <1>15 DEF Next

(* The state of calls, environments, operands, catches and jumps keeps the shape the parts of
   ControlInv give it (A68/Lower.lean; csrc/rt.c; csrc/io.c, io_raise). *)
THEOREM ControlInvariant ==
  ASSUME NoReentry, EventsJumpFree
  PROVE  Spec => []ControlInv
<1>1. Init => ControlInv
  BY InitInv
<1>2. ControlInv /\ [Next]_vars => ControlInv'
  BY NextInv
<1>3. QED
  BY <1>1, <1>2, PTL DEF Spec

(* Between the return a jump is pending after and its landing, no step but the tests of the
   flag: a call that does not test it is never one a jump can come back to. *)
THEOREM JumpsAreSeen ==
  ASSUME NoReentry, EventsJumpFree
  PROVE  Spec => []NothingWhilePending
<1>1. ControlInv => NothingWhilePending
  BY DEF ControlInv, Pending, NothingWhilePending
<1>2. QED
  BY <1>1, ControlInvariant, PTL

(* The catches in force are those of the standard procedures in progress, with the depths of
   their calls: io_raise never goes to one that is over. *)
THEOREM CatchesAreOpen ==
  ASSUME NoReentry, EventsJumpFree
  PROVE  Spec => []CatchesNested
<1>1. ControlInv => CatchesNested
  BY DEF ControlInv, Core, Counts, CatchesNested
<1>2. QED
  BY <1>1, ControlInvariant, PTL

-----------------------------------------------------------------------------
(* A call's operands begin where those of the calls below it were; so what a block has noted
   of the stack is still there. *)

Stacked(a) == \A k \in DOMAIN a : \A j \in 1 .. k : a[j].base <= a[k].base

(* b has the calls of a, or some of them, and perhaps one more from depth h *)
Grown(a, h, b) ==
  \A k \in DOMAIN b : \/ k \in DOMAIN a /\ b[k].base = a[k].base
                      \/ k = Len(a) + 1 /\ h <= b[k].base

(* a stack that grows only from the top of the operands stays Stacked *)
LEMMA StackedGrown ==
  ASSUME NEW a \in Seq(Calls), Len(a) \in Nat \ {0}, Stacked(a), NEW h \in Nat, a[Len(a)].base <= h,
         NEW b \in Seq(Calls), Grown(a, h, b)
  PROVE  Stacked(b)
<1>1. /\ DOMAIN a = 1 .. Len(a) /\ DOMAIN b = 1 .. Len(b) /\ Len(b) \in Nat
      /\ \A k \in DOMAIN a : a[k].base \in Nat
      /\ \A k \in DOMAIN b : b[k].base \in Nat
  <2>1. /\ DOMAIN a = 1 .. Len(a) /\ DOMAIN b = 1 .. Len(b) /\ Len(b) \in Nat
        /\ \A k \in DOMAIN a : a[k] \in Calls
        /\ \A k \in DOMAIN b : b[k] \in Calls
    OBVIOUS
  <2>2. QED
    BY <2>1, CallShape
<1>2. SUFFICES ASSUME NEW k \in DOMAIN b, NEW j \in 1 .. k PROVE b[j].base <= b[k].base
  BY DEF Stacked
<1>3. j \in DOMAIN b /\ j <= k
  BY <1>1, <1>2
<1>4. Len(a) \in DOMAIN a
  BY <1>1
<1>5. CASE k \in DOMAIN a /\ b[k].base = a[k].base
  <2>1. j \in DOMAIN a /\ j # Len(a) + 1
    BY <1>1, <1>2, <1>5
  <2>2. b[j].base = a[j].base
    BY <1>3, <2>1 DEF Grown
  <2>3. a[j].base <= a[k].base
    BY <1>2, <1>5 DEF Stacked
  <2>4. QED
    BY <1>5, <2>2, <2>3
<1>6. CASE k = Len(a) + 1 /\ h <= b[k].base
  <2>1. CASE j = k
    BY <1>1, <2>1
  <2>2. CASE j # k
    <3>1. j \in 1 .. Len(a) /\ j # Len(a) + 1
      BY <1>1, <1>3, <1>6, <2>2
    <3>2. b[j].base = a[j].base
      BY <1>3, <3>1 DEF Grown
    <3>3. a[j].base <= a[Len(a)].base
      BY <1>4, <3>1 DEF Stacked
    <3>4. /\ a[j].base \in Nat /\ a[Len(a)].base \in Nat /\ b[k].base \in Nat
      BY <1>1, <1>4, <3>1
    <3>5. QED
      BY <1>6, <3>2, <3>3, <3>4
  <2>3. QED
    BY <2>1, <2>2
<1>7. QED
  BY <1>5, <1>6 DEF Grown

(* a change of blocks *)
LEMMA GrownTop ==
  ASSUME NEW a \in Seq(Calls), Len(a) \in Nat \ {0}, NEW bl, NEW h
  PROVE  Grown(a, h, [a EXCEPT ![Len(a)] = [a[Len(a)] EXCEPT !.blocks = bl]])
<1> DEFINE x == [a[Len(a)] EXCEPT !.blocks = bl]
<1>1. x.base = a[Len(a)].base
  BY DEF Calls
<1> HIDE DEF x
<1>2. [a EXCEPT ![Len(a)] = x].base = [a EXCEPT ![Len(a)] = x].base
  OBVIOUS
<1> DEFINE b == [a EXCEPT ![Len(a)] = x]
<1>3. DOMAIN b = DOMAIN a /\ \A k \in DOMAIN a : b[k] = IF k = Len(a) THEN x ELSE a[k]
  OBVIOUS
<1> HIDE DEF b
<1>4. Grown(a, h, b)
  BY <1>1, <1>3 DEF Grown
<1>5. QED
  BY <1>4 DEF b, x

(* a call *)
LEMMA GrownPush ==
  ASSUME NEW a \in Seq(Calls), NEW h, NEW f, NEW k, NEW x, NEW ck, NEW n, h <= n
  PROVE  Grown(a, h, Append(a, Act(f, k, x, ck, n)))
<1> DEFINE y == Act(f, k, x, ck, n)
<1>1. y.base = n
  BY DEF Act
<1> HIDE DEF y
<1> DEFINE b == Append(a, y)
<1>2. /\ DOMAIN b = 1 .. Len(a) + 1 /\ DOMAIN a = 1 .. Len(a) /\ Len(a) \in Nat
      /\ b[Len(a) + 1] = y /\ \A j \in 1 .. Len(a) : b[j] = a[j]
  OBVIOUS
<1> HIDE DEF b
<1>3. \A j \in DOMAIN b : j \in DOMAIN a \/ j = Len(a) + 1
  BY <1>2
<1>4. Grown(a, h, b)
  BY <1>1, <1>2, <1>3 DEF Grown
<1>5. QED
  BY <1>4 DEF b, y

(* a return *)
LEMMA GrownFront ==
  ASSUME NEW a \in Seq(Calls), Len(a) \in Nat \ {0}, NEW h
  PROVE  Front1(a) \in Seq(Calls) /\ Grown(a, h, Front1(a))
<1>1. Len(a) > 0
  OBVIOUS
<1>2. Front1(a) \in Seq(Calls) /\ Longer(Front1(a), a[Len(a)], a)
  BY <1>1, CutLast
<1>3. \A k \in DOMAIN Front1(a) : k \in DOMAIN a /\ Front1(a)[k] = a[k]
  BY <1>2 DEF Longer
<1>4. QED
  BY <1>2, <1>3 DEF Grown

(* a return that leaves a standard procedure too *)
LEMMA GrownFrontTwice ==
  ASSUME NEW a \in Seq(Calls), Len(a) \in Nat \ {0}, NEW h
  PROVE  Grown(a, h, Front1(Front1(a)))
<1> DEFINE b == Front1(a)
<1>1. Len(a) > 0
  OBVIOUS
<1>2. b \in Seq(Calls) /\ Longer(b, a[Len(a)], a)
  BY <1>1, CutLast
<1> HIDE DEF b
<1>a. b \in Seq(Calls) /\ Len(b) \in Nat /\ \A k \in DOMAIN b : k \in DOMAIN a /\ b[k] = a[k]
  BY <1>2 DEF Longer
<1>3. \A k \in DOMAIN Front1(b) : k \in DOMAIN b /\ Front1(b)[k] = b[k]
  <2>1. CASE Len(b) = 0
    <3>1. DOMAIN SubSeq(b, 1, Len(b) - 1) = 1 .. Len(b) - 1
      BY <1>a
    <3>2. 1 .. Len(b) - 1 = {}
      BY <2>1
    <3>3. QED
      BY <3>1, <3>2 DEF Front1
  <2>2. CASE Len(b) > 0
    <3>1. Longer(Front1(b), b[Len(b)], b)
      BY <1>a, <2>2, CutLast
    <3>2. QED
      BY <3>1 DEF Longer
  <2>3. QED
    BY <1>a, <2>1, <2>2
<1>4. Grown(a, h, Front1(b))
  BY <1>a, <1>3 DEF Grown
<1>5. QED
  BY <1>4 DEF b

(* every step is one of these *)
LEMMA NextGrows ==
  ASSUME ControlInv, Next
  PROVE  Grown(acts, Len(stack), acts')
<1>1. /\ acts \in Seq(Calls) /\ Len(acts) \in Nat \ {0} /\ Len(stack) \in Nat
      /\ Len(stack) <= Len(stack) + 1 /\ Len(stack) <= Len(stack)
  <2>1. Core(acts, env, saved, stack, io_top)
    BY DEF ControlInv
  <2>2. acts \in Seq(Calls) /\ Len(acts) \in Nat \ {0} /\ Len(stack) \in Nat
    BY <2>1, TypedParts, CoreShape
  <2>3. QED
    BY <2>2
<1>2. CASE acts' = acts
  BY <1>2 DEF Grown
<1>3. ASSUME NEW bl, acts' = [acts EXCEPT ![Len(acts)] = [acts[Len(acts)] EXCEPT !.blocks = bl]]
      PROVE  Grown(acts, Len(stack), acts')
  BY <1>1, <1>3, GrownTop
<1>4. CASE acts' = Front1(acts)
  BY <1>1, <1>4, GrownFront
<1>5. CASE acts' = Front1(Front1(acts))
  BY <1>1, <1>5, GrownFrontTwice
<1>6. CASE Operand \/ Drop
  BY <1>2, <1>6 DEF Operand, Drop
<1>7. CASE LeaveBlock
  BY <1>3, <1>7 DEF LeaveBlock, SetTop, Top
<1>8. CASE call
  BY <1>1, <1>8, GrownPush DEF call
<1>9. CASE call_builtin
  BY <1>1, <1>9, GrownPush DEF call_builtin
<1>10. CASE Event
  BY <1>1, <1>10, GrownPush DEF Event
<1>11. CASE Return \/ PreludeReturn
  BY <1>4, <1>11 DEF Return, PreludeReturn, Caller, Front1
<1>12. CASE Mended
  <2>1. acts' = Front1(Front1(acts))
    BY <1>12 DEF Mended, io_raise, Caller, Front1
  <2>2. QED
    BY <1>5, <2>1
<1>13. CASE ReturnPending
  <2>1. acts' = Front1(acts) \/ acts' = Front1(Front1(acts))
    BY <1>13 DEF ReturnPending, io_raise, Caller, Front1
  <2>2. QED
    BY <1>4, <1>5, <2>1
<1>14. ASSUME NEW l, Land(l) PROVE Grown(acts, Len(stack), acts')
  BY <1>3, <1>14 DEF Land, SetTop, Top
<1>15. CASE jumpCheck
  BY <1>2, <1>13, <1>14, <1>15 DEF jumpCheck
<1>16. ASSUME NEW l \in Label, EnterBlock(l) \/ Goto(l) \/ raise_jump(l)
       PROVE  Grown(acts, Len(stack), acts')
  <2>1. CASE EnterBlock(l)
    BY <1>3, <2>1 DEF EnterBlock, SetTop, Top
  <2>2. CASE Goto(l)
    BY <1>14, <2>2 DEF Goto
  <2>3. CASE raise_jump(l)
    BY <1>13, <2>3 DEF raise_jump
  <2>4. QED
    BY <1>16, <2>1, <2>2, <2>3
<1>17. ASSUME NEW f \in Fn, PlainCall(f) PROVE Grown(acts, Len(stack), acts')
  BY <1>1, <1>17, GrownPush DEF PlainCall
<1>18. QED
  BY <1>6, <1>7, <1>8, <1>9, <1>10, <1>11, <1>12, <1>15, <1>16, <1>17 DEF Next

(* so every step keeps it *)
LEMMA NextStacked ==
  ASSUME ControlInv, ControlInv', Stacked(acts), [Next]_vars
  PROVE  Stacked(acts')
<1>1. CASE UNCHANGED vars
  BY <1>1 DEF vars
<1>2. CASE Next
  <2>1. Core(acts, env, saved, stack, io_top) /\ Core(acts', env', saved', stack', io_top')
    BY DEF ControlInv
  <2>2. /\ acts \in Seq(Calls) /\ Len(acts) \in Nat \ {0} /\ Len(stack) \in Nat
        /\ acts[Len(acts)].base <= Len(stack)
    BY <2>1, TypedParts, CoreShape, TopHeights
  <2>3. acts' \in Seq(Calls)
    BY <2>1, TypedParts
  <2>4. Grown(acts, Len(stack), acts')
    BY <1>2, NextGrows
  <2>5. QED
    BY <2>2, <2>3, <2>4, StackedGrown
<1>3. QED
  BY <1>1, <1>2

(* the frames of call k and of the calls below are at least those up to its block's *)
LEMMA EnvLength ==
  ASSUME Core(acts, env, saved, stack, io_top), NEW k \in DOMAIN acts,
         NEW i \in DOMAIN acts[k].blocks
  PROVE  /\ Len(EnvOf(k)) \in Nat /\ acts[k].blocks[i].e \in 0 .. Len(EnvOf(k)) - 1
<1> DEFINE c == Chain(acts, env, saved, k)
           h == acts[k].blocks[i].e
           T == {j \in DOMAIN c : c[j].a <= k}
<1>1. k \in 1 .. Len(acts) /\ Len(acts) \in Nat /\ acts[k] \in Calls
  BY CoreShape
<1>2. h \in Nat
  BY <1>1, CallShape
<1>3. h + 1 \in DOMAIN c /\ c[h + 1] = [a |-> k, b |-> acts[k].blocks[i].l]
      /\ \A j \in 1 .. h : c[j].a <= k
  BY DEF Core, Noted, NotedAt
<1>4. c \in Seq(Frames)
  <2>1. Boxed(acts, k) \in 0 .. Len(saved) /\ env \in Seq(Frames) /\ saved \in Seq(Seq(Frames))
    BY CountsBound, TypedParts
  <2>2. CASE Boxed(acts, k) = Len(saved)
    BY <2>1, <2>2 DEF Chain
  <2>3. CASE Boxed(acts, k) # Len(saved)
    <3>1. Boxed(acts, k) + 1 \in 1 .. Len(saved)
      BY <2>1, <2>3
    <3>2. saved[Boxed(acts, k) + 1] \in Seq(Frames)
      BY <2>1, <3>1
    <3>3. QED
      BY <2>3, <3>2 DEF Chain
  <2>4. QED
    BY <2>2, <2>3
<1> HIDE DEF c, h
<1>5. DOMAIN c = 1 .. Len(c) /\ Len(c) \in Nat
  BY <1>4
<1>6. 1 .. h + 1 \subseteq T
  <2>1. c[h + 1].a <= k
    BY <1>1, <1>3
  <2>2. \A j \in 1 .. h + 1 : j \in 1 .. Len(c) /\ (j \in 1 .. h \/ j = h + 1)
    BY <1>2, <1>3, <1>5
  <2>3. QED
    BY <1>3, <1>5, <2>1, <2>2
<1>7. IsFiniteSet(T) /\ Cardinality(T) \in Nat
  <2>1. T \subseteq 1 .. Len(c)
    BY <1>5
  <2>2. QED
    BY <1>5, <2>1, PartOfInterval
<1>8. Cardinality(1 .. h + 1) <= Cardinality(T)
  BY <1>6, <1>7, FS_Subset
<1>9. Cardinality(1 .. h + 1) = h + 1
  <2>1. h + 1 \in Nat
    BY <1>2
  <2>2. Cardinality(1 .. h + 1) = IF 1 > h + 1 THEN 0 ELSE (h + 1) - 1 + 1
    BY <2>1, FS_Interval
  <2>3. QED
    BY <1>2, <2>2
<1>10. CASE k = Len(acts)
  <2>1. EnvOf(k) = env /\ c = env
    BY <1>10, TopChain DEF EnvOf, c
  <2>2. h + 1 \in 1 .. Len(env) /\ Len(env) \in Nat
    BY <1>3, <1>5, <2>1
  <2>3. QED
    BY <1>2, <2>1, <2>2 DEF h
<1>11. CASE k # Len(acts)
  <2>1. EnvOf(k) = SubSeq(c, 1, Cardinality(T))
    BY <1>11 DEF EnvOf, c
  <2>2. Len(EnvOf(k)) = Cardinality(T)
    BY <1>7, <2>1
  <2>3. QED
    BY <1>2, <1>7, <1>8, <1>9, <2>2 DEF h
<1>12. QED
  BY <1>10, <1>11

(* the elements of a sequence over S are in S *)
LEMMA RangeOf ==
  ASSUME NEW S, NEW s \in Seq(S)
  PROVE  ToSet(s) \subseteq S
BY DEF ToSet

(* the invariant and Stacked give the shape of the state *)
LEMMA Shaped ==
  ASSUME ControlInv, Stacked(acts)
  PROVE  TypeOK
<1>1. Core(acts, env, saved, stack, io_top)
  BY DEF ControlInv
<1>2. /\ DOMAIN acts = 1 .. Len(acts) /\ Len(acts) \in Nat \ {0} /\ Len(stack) \in Nat
      /\ \A k \in DOMAIN acts : acts[k] \in Calls
      /\ env \in Seq(Frames) /\ saved \in Seq(Seq(Frames)) /\ stack \in Seq(1 .. MaxActs)
      /\ io_top \in Seq([sp0 : Nat, env0 : Nat])
  BY <1>1, TypedParts, CoreShape
<1>3. ASSUME NEW k \in DOMAIN acts
      PROVE  /\ acts[k].fn \in Fn \cup {Prelude} /\ acts[k].kind \in {"boxed", "plain", "prelude"}
             /\ Routine(acts[k].arg) /\ acts[k].base \in Nat /\ acts[k].checked \in BOOLEAN
  <2>1. /\ acts[k].fn \in Fn \cup {Prelude} /\ acts[k].kind \in {"boxed", "plain", "prelude"}
        /\ acts[k].base \in Nat /\ acts[k].checked \in BOOLEAN
        /\ acts[k].arg \in Closure \cup {NoArg}
    BY <1>2 DEF Calls
  <2>2. \A x \in Closure : x.fn \in Fn /\ x.env \in Seq(Frames)
    BY DEF Closure
  <2>3. \A p \in Seq(Frames) : ToSet(p) \subseteq Frames
    BY DEF ToSet
  <2>4. QED
    BY <2>1, <2>2, <2>3 DEF Routine
<1>4. ASSUME NEW k \in DOMAIN acts, NEW i \in DOMAIN acts[k].blocks
      PROVE  acts[k].blocks[i] \in [l : Label, e : 0 .. Len(EnvOf(k)) - 1, s : acts[k].base .. Len(stack)]
  <2> DEFINE y == acts[k].blocks[i]
  <2>1. y \in Depths
    BY <1>2 DEF Calls
  <2>2. y.e \in 0 .. Len(EnvOf(k)) - 1
    BY <1>1, EnvLength
  <2>3. acts[k].base <= y.s /\ y.s <= Above(acts, stack, k)
    BY <1>1 DEF Core, Heights, HeightsAt
  <2>4. \A j \in DOMAIN acts : acts[j].base \in Nat /\ acts[j].base <= Len(stack)
    <3>1. acts[Len(acts)].base <= Len(stack)
      BY <1>1, TopHeights
    <3>2. \A j \in DOMAIN acts : acts[j].base \in Nat
      BY <1>2 DEF Calls
    <3>4. Len(acts) \in DOMAIN acts
      BY <1>2
    <3>3. \A j \in DOMAIN acts : acts[j].base <= acts[Len(acts)].base
      BY <1>2, <3>4 DEF Stacked
    <3>5. ASSUME NEW j \in DOMAIN acts PROVE acts[j].base <= Len(stack)
      <4>1. acts[j].base \in Nat /\ acts[Len(acts)].base \in Nat /\ acts[j].base <= acts[Len(acts)].base
        BY <3>2, <3>3, <3>4
      <4>2. QED
        BY <1>2, <3>1, <4>1
    <3>6. QED
      BY <3>2, <3>5
  <2>5. y.s \in Nat /\ acts[k].base \in Nat
    BY <2>1, <2>4 DEF Depths
  <2>6. y.s <= Len(stack)
    <3>1. CASE k = Len(acts)
      BY <2>3, <3>1 DEF Above
    <3>2. CASE k # Len(acts)
      <4>1. k + 1 \in DOMAIN acts
        BY <1>2, <3>2
      <4>2. acts[k + 1].base \in Nat /\ acts[k + 1].base <= Len(stack)
        BY <2>4, <4>1
      <4>3. y.s <= IF acts[k + 1].kind = "prelude" THEN acts[k + 1].base - 1 ELSE acts[k + 1].base
        BY <2>3, <3>2 DEF Above
      <4>4. QED
        <5>1. PICK b : b = acts[k + 1].base
          OBVIOUS
        <5>2. b \in Nat /\ b <= Len(stack) /\ (y.s <= b - 1 \/ y.s <= b) /\ Len(stack) \in Nat
          BY <1>2, <4>2, <4>3, <5>1
        <5>3. QED
          BY <2>5, <5>2
    <3>3. QED
      BY <3>1, <3>2
  <2> HIDE DEF y
  <2>7. y.s \in acts[k].base .. Len(stack)
    BY <1>2, <2>3, <2>5, <2>6
  <2>8. y \in [l : Label, e : 0 .. Len(EnvOf(k)) - 1, s : acts[k].base .. Len(stack)]
    BY <2>1, <2>2, <2>7 DEF Depths
  <2>9. QED
    BY <2>8 DEF y
<1>5. ToSet(env) \subseteq Frames /\ \A j \in DOMAIN saved : ToSet(saved[j]) \subseteq Frames
  <2>1. \A j \in DOMAIN saved : saved[j] \in Seq(Frames)
    BY <1>2
  <2>2. QED
    BY <1>2, <2>1, RangeOf
<1>6. ToSet(stack) \subseteq 1 .. MaxActs
  BY <1>2, RangeOf
<1>7. jump_flag \in Label \cup {NoArg} /\ mode \in {"run", "check"}
  BY DEF ControlInv, Pending
<1>8. \A j \in DOMAIN io_top : io_top[j] \in [sp0 : Nat, env0 : Nat]
  <2>1. ToSet(io_top) \subseteq [sp0 : Nat, env0 : Nat]
    BY <1>2, RangeOf
  <2>2. QED
    BY <2>1 DEF ToSet
<1>9. QED
  BY <1>3, <1>4, <1>5, <1>6, <1>7, <1>8 DEF TypeOK

(* The depths a block has noted lie inside the environment and the operands of its call
   (A68/Lower.lean, lowerBlock). *)
THEOREM DepthsStand ==
  ASSUME NoReentry, EventsJumpFree
  PROVE  Spec => []TypeOK
<1>1. Init => ControlInv /\ Stacked(acts)
  <2>1. SUFFICES ASSUME Init PROVE Stacked(acts)
    BY InitInv
  <2>2. DOMAIN acts = {1} /\ acts[1].base = 0
    BY <2>1 DEF Init
  <2>3. QED
    BY <2>2 DEF Stacked
<1>2. ControlInv /\ Stacked(acts) /\ [Next]_vars => ControlInv' /\ Stacked(acts)'
  BY NextInv, NextStacked
<1>3. ControlInv /\ Stacked(acts) => TypeOK
  BY Shaped
<1>4. QED
  BY <1>1, <1>2, <1>3, PTL DEF Spec
=============================================================================
