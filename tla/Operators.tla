------------------------------- MODULE Operators -------------------------------
(***************************************************************************)
(* The operators of the standard prelude on integers, LONG REALs, bits,    *)
(* truth values, characters and rows, as the C runtime computes them: the  *)
(* fast path of csrc/rt.c for the common modes (native_dyop and its        *)
(* relatives), and the general path of csrc/ops.c behind it, with the      *)
(* integers of any size of module BigInt and the reals of MultiPrecision   *)
(* under LONG and LONG LONG modes.                                         *)
(*                                                                         *)
(* Sizes.  A machine word is two limbs and an INT or BITS has the width of *)
(* one, as in the code (64 and 32 bits).  Abstractions: the texts of error *)
(* messages; the short REAL, COMPL, BYTES and ** of LONG REALs.            *)
(***************************************************************************)
EXTENDS MultiPrecision

CONSTANTS
  LongDigits,  \* decimal digits of a LONG INT and of a LONG LONG INT: 49 and 84
  Width,       \* [0 .. 2 -> bits of a BITS]: 32, 162 and 279
  WB,          \* limbs a BITS is computed in: 12
  MaxChar,     \* 255
  Literals,    \* denotations and values of other variables, [m |-> mode, v |-> value]
  Formulas     \* bound: formulas evaluated

ASSUME Sizes == /\ Width[0] = LimbBits /\ \A n \in 0 .. 2 : Width[n] <= WB * LimbBits
                /\ Formulas \in Nat

VARIABLES
  cell,   \* the variable: [m |-> mode, v |-> value]
  stack,  \* the operands of the formula under evaluation
  op,     \* the operator to apply, "none" between formulas
  done    \* formulas evaluated

vars == <<cell, stack, op, done>>

A68_MAXINT == 2 ^ (LimbBits - 1) - 1
Mode(k, n) == [k |-> k, len |-> n]

Tagged(t, v) == [tag |-> t, v |-> v]
mk_int(i)  == Tagged("int", i)
mk_bits(u) == Tagged("bits", u)
mk_bool(p) == Tagged("bool", p)
mk_char(c) == Tagged("char", c)
mk_row(l, e) == Tagged("row", [l |-> l, e |-> e])
Undef == Tagged("undef", 0)
Died  == Tagged("died", 0)     \* the program ended with an error
Garbled == Tagged("garbled", 0)  \* a number's text with a minus sign among its digits: not followed

-----------------------------------------------------------------------------
(* integers *)

big_of(v) == IF v.tag = "int" THEN big_from_i64(v.v) ELSE big_from_dec(v.v)
Unfitted(b) == Tagged("bigint", big_to_dec(b))    \* slip: a number that fits a word stays long
val_of_big(b) == IF big_fits_i64(b) THEN mk_int(big_to_i64(b)) ELSE Tagged("bigint", big_to_dec(b))

max_int_of(n) == IF n <= 0 THEN big_from_i64(A68_MAXINT)
                 ELSE big_sub(big_pow10(LongDigits[n]), big_from_i64(1))
over_limit(r, n) == big_cmp(big_abs(r), max_int_of(n)) > 0
int_range(r, n) ==
  IF n <= 0 THEN (IF r \in -A68_MAXINT .. A68_MAXINT THEN mk_int(r) ELSE Died)
  ELSE IF over_limit(big_from_i64(r), n) THEN Died ELSE mk_int(r)

Cmp == {"=", "/=", "<", "<=", ">", ">="}
cmp_result(o, c) ==
  CASE o = "=" -> c = 0 [] o = "/=" -> c # 0 [] o = "<" -> c < 0
    [] o = "<=" -> c <= 0 [] o = ">" -> c > 0 [] o = ">=" -> c >= 0
Order(x, y) == IF x < y THEN -1 ELSE IF x > y THEN 1 ELSE 0

in_range(r, n) == IF over_limit(r, n) THEN Died ELSE val_of_big(r)
long_int_dyadic(o, n, x, y) ==
  LET Positive(rem) == IF big_sign(rem) < 0 THEN big_add(rem, big_abs(y)) ELSE rem
  IN CASE o \in {"+", "-", "*"} ->
            in_range(CASE o = "+" -> big_add(x, y) [] o = "-" -> big_sub(x, y) [] o = "*" -> big_mul(x, y), n)
       [] o \in {"%", "%*"} /\ big_is_zero(y) -> Died
       [] o \in {"%", "%*"} /\ ~big_is_zero(y) ->
            val_of_big(IF o = "%" THEN big_divmod(x, y).q ELSE Positive(big_divmod(x, big_abs(y)).rem))
       [] o \in Cmp -> mk_bool(cmp_result(o, big_cmp(x, y)))

(* by repeated multiplication, left as soon as the range is *)
long_int_pow(n, x, k) ==
  LET one == big_from_i64(1)
      Times(q, i) == IF over_limit(q, n) \/ (i > 1 /\ big_cmp(big_abs(x), one) <= 0) THEN q
                     ELSE big_mul(q, big_abs(x))
      WithSign(r) == IF big_sign(x) < 0 /\ k % 2 = 1 THEN big_neg(r) ELSE r
  IN IF k < 0 THEN IF big_cmp(x, one) = 0 THEN mk_int(1)
                   ELSE IF big_cmp(x, big_neg(one)) = 0 THEN mk_int(IF k % 2 = 0 THEN 1 ELSE -1)
                   ELSE Died
     ELSE in_range(WithSign(FoldLeft(Times, one, UpTo(k))), n)

(* square and multiply: p the product so far, mm the square; NoRoom once one leaves the range *)
NoRoom == A68_MAXINT + 1
Within(x) == IF x \in -A68_MAXINT .. A68_MAXINT THEN x ELSE NoRoom
SquareLate(n, i) == 2 ^ i <= n          \* slip: one square more than is multiplied in
Squares(n, i) == 2 ^ (i + 1) <= n
pow_int(m, n) ==
  LET Step(x, i) ==
        IF NoRoom \in {x.p, x.mm} \/ 2 ^ i > (IF i = 0 THEN 1 ELSE n) THEN x
        ELSE [p  |-> IF (n \div 2 ^ i) % 2 = 1 THEN Within(x.p * x.mm) ELSE x.p,
              mm |-> IF Squares(n, i) THEN Within(x.mm * x.mm) ELSE x.mm]
      last == FoldLeft(Step, [p |-> 1, mm |-> m], [i \in 1 .. LimbBits |-> i - 1])
  IN CASE n < 0 -> Died
       [] n >= 0 /\ m = 0 -> mk_int(IF n = 0 THEN 1 ELSE 0)
       [] n >= 0 /\ m = 1 -> mk_int(1)
       [] n >= 0 /\ m = -1 -> mk_int(IF n % 2 = 0 THEN 1 ELSE -1)
       [] OTHER -> IF NoRoom \in {last.p, last.mm} THEN Died ELSE mk_int(last.p)

(* mp_to_int32: the digits of |v|, from the least, with weights that wrap at 32 bits *)
wrap32(i) == LET h == A68_MAXINT + 1 IN ((i + h) % (2 * h)) - h
digits_to_int32(x) ==
  LET Add(s, d, term) ==
        [ok |-> d <= Quot(A68_MAXINT, s.w) /\ s.sum <= A68_MAXINT - term,
         sum |-> s.sum + term, w |-> wrap32(s.w * Radix)]
      Step(s, d) == IF ~s.ok \/ s.w = 0 THEN [s EXCEPT !.ok = FALSE] ELSE Add(s, d, wrap32(d * s.w))
      ds == CHOOSE n \in 1 .. 16 : Magnitude(x) < Radix ^ n /\ (n = 1 \/ Magnitude(x) >= Radix ^ (n - 1))
  IN FoldLeft(Step, [ok |-> TRUE, sum |-> 0, w |-> 1], [j \in 1 .. ds |-> (Magnitude(x) \div Radix ^ (j - 1)) % Radix])
shorten_long_int(v) ==
  LET Result32(x, z) == IF z.ok THEN mk_int(IF x < 0 THEN -z.sum ELSE z.sum) ELSE Died
      Shortened(x) == Result32(x, digits_to_int32(x))
  IN Shortened(ValueOf(big_of(v)))

-----------------------------------------------------------------------------
(* LONG REALs (csrc/mprt.c) *)

Real(z) == IF z = Bad THEN Died ELSE Tagged("mp", z)
long_int_of(z) ==
  CASE z = Bad -> Died
    [] z # Bad /\ Ragged(z) -> Garbled
    [] OTHER -> val_of_big(WholePart(z))
Defined(z) == IF z.st = "nan" THEN Died ELSE Real(z)
Finite(z)  == IF z.st = "num" THEN Real(z) ELSE Died
mp_dyadic(o, x, y) ==
  CASE o = "+" -> Real(mp_add(x, y))
    [] o = "-" -> Real(mp_sub(x, y))
    [] o = "*" -> Finite(mp_mul(x, y))
    [] o = "/" -> Defined(mp_div(x, y))
    [] o \in Cmp -> IF {x.st, y.st} = {"num"} /\ mp_sub(x, y) = Bad THEN Died ELSE mk_bool(mp_compare(o, x, y))
mp_monadic(o, n, x) ==
  CASE o = "+" -> Real(x)
    [] o = "-" -> Real(mp_minus(x))
    [] o = "ABS" -> Real(mp_abs(x))
    [] o = "SIGN" -> mk_int(Order(x.d[1], 0))
    [] o = "ENTIER" -> long_int_of(mp_entier(x))
    [] o = "ROUND" -> long_int_of(mp_round(x))
    [] o = "SHORTEN" -> Real(mp_shorten(x, MpDigits[n - 1]))

-----------------------------------------------------------------------------
(* bits: a BITS of any width is computed as the set of its bits, 0 the least *)

wb_of_big(b) ==
  {i \in 0 .. WB * LimbBits - 1 : (At(b.limb, (i \div LimbBits) + 1) \div 2 ^ (i % LimbBits)) % 2 = 1}
wb_of_word(u) == {i \in 0 .. 2 * LimbBits - 1 : (u \div 2 ^ i) % 2 = 1}
wb_of_val(v) == IF v.tag = "bits" THEN wb_of_word(v.v) ELSE wb_of_big(big_of(v))
WordOf(s) == FoldLeft(LAMBDA u, i : IF i - 1 \in s THEN u + 2 ^ (i - 1) ELSE u, 0, UpTo(2 * LimbBits))
big_of_wb(s) ==
  FoldRight(LAMBDA i, r : big_add(big_mul(r, [neg |-> FALSE, limb |-> <<0, 1>>]),
                                  big_from_i64(WordOf({b \in 0 .. LimbBits - 1 : (i - 1) * LimbBits + b \in s}))),
            UpTo(WB), big_from_i64(0))
val_of_wb(s) == IF \A i \in s : i < 2 * LimbBits THEN mk_bits(WordOf(s))
                ELSE Tagged("bigbits", big_to_dec(big_of_wb(s)))
wb_mask(w) == 0 .. w - 1
wb_shl(s, k) == {i + k : i \in s} \cap 0 .. WB * LimbBits - 1
wb_exceeds(s, w) == \E i \in s : i >= w

-----------------------------------------------------------------------------
(* rows: from l, of elements e *)

Elems(v) == v.v.e
row_of_values(es) == mk_row(1, es)
row_concat(a, b) == row_of_values(Elems(a) \o Elems(b))
row_repeat(a, k) == row_of_values(FlattenSeq([i \in 1 .. (IF k > 0 THEN k ELSE 0) |-> Elems(a)]))

compare_chars(a, b) ==
  LET n == IF Len(Elems(a)) < Len(Elems(b)) THEN Len(Elems(a)) ELSE Len(Elems(b))
      d == SelectInSeq(UpTo(n), LAMBDA i : Elems(a)[i].v # Elems(b)[i].v)
  IN IF d = 0 THEN Order(Len(Elems(a)), Len(Elems(b))) ELSE Order(Elems(a)[d].v, Elems(b)[d].v)
AllChars(v) == Undef \notin ToSet(Elems(v))

(* of scalars: the same tag and the same value or text, so equal integers are only found
   equal when they are represented alike *)
values_equal(a, b) == a = b /\ a # Undef
rows_equal(a, b) == /\ Len(Elems(a)) = Len(Elems(b))
                    /\ \A i \in DOMAIN Elems(a) : values_equal(Elems(a)[i], Elems(b)[i])

row_bound(o, k, v) ==
  CASE k # 1 -> Died [] o = "LWB" -> mk_int(v.v.l) [] OTHER -> mk_int(v.v.l + Len(Elems(v)) - 1)

-----------------------------------------------------------------------------
(* The general path: one operator per arm of the dispatch on modes.  Undefined operands have
   ended the program. *)

int_int(o, n, a, b) ==
  LET x == a.v
      y == b.v
      m == Magnitude(y)
  IN CASE n >= 1 /\ o = "**" -> long_int_pow(n, big_of(a), b.v)
       [] n >= 1 /\ o # "**" -> long_int_dyadic(o, n, big_of(a), big_of(b))
       [] n = 0 /\ o \in {"+", "-", "*"} ->
            int_range(word(CASE o = "+" -> x + y [] o = "-" -> x - y [] o = "*" -> x * y), n)
       [] n = 0 /\ o \in {"%", "%*"} /\ y = 0 -> Died
       [] n = 0 /\ o = "%" /\ y # 0 -> mk_int(Quot(x, y))
       [] n = 0 /\ o = "%*" /\ y # 0 -> mk_int(IF Rem(x, m) < 0 THEN Rem(x, m) + m ELSE Rem(x, m))
       [] n = 0 /\ o = "**" -> pow_int(x, y)
       [] OTHER -> mk_bool(cmp_result(o, Order(x, y)))

bits_bits(o, n, a, b) ==
  LET x == wb_of_val(a)
      y == wb_of_val(b)
  IN CASE o \in {"AND", "OR", "XOR"} ->
            val_of_wb(CASE o = "AND" -> x \cap y
                        [] o = "OR"  -> (x \cup y) \cap wb_mask(Width[n])
                        [] o = "XOR" -> ((x \ y) \cup (y \ x)) \cap wb_mask(Width[n]))
       [] o \in {"=", "/="} -> mk_bool((x = y) = (o = "="))
       [] o \in {"<=", ">="} -> mk_bool(x \cap y = IF o = "<=" THEN x ELSE y)

ShiftUnmasked(o, n, a, b) ==            \* slip: bits shifted out at the top stay
  IF Magnitude(b.v) > Width[n] THEN Died
  ELSE val_of_wb(wb_shl(wb_of_val(a), IF o = "SHL" THEN b.v ELSE -b.v))
bits_int(o, n, a, b) ==
  LET s == IF o = "SHL" THEN b.v ELSE -b.v
      r == wb_shl(wb_of_val(a), s)
  IN IF Magnitude(b.v) > Width[n] THEN Died
     ELSE val_of_wb(IF s >= 0 THEN r \cap wb_mask(Width[n]) ELSE r)

int_bits(k, n, b) ==
  IF k \in 1 .. Width[n] THEN mk_bool(Width[n] - k \in wb_of_val(b)) ELSE Died

bool_bool(o, x, y) ==
  mk_bool(CASE o = "AND" -> x /\ y [] o = "OR" -> x \/ y [] o = "XOR" -> x # y
            [] o = "=" -> x = y [] o = "/=" -> x # y)

row_row(o, a, b) ==
  CASE o = "+" -> row_concat(a, b)
    [] o \in Cmp -> IF AllChars(a) /\ AllChars(b) THEN mk_bool(cmp_result(o, compare_chars(a, b))) ELSE Died

ops_dyadic(o, m1, m2, a, b) ==
  LET kk == <<m1.k, m2.k>>
  IN CASE Undef \in {a, b} -> Died
       [] kk = <<"INT", "INT">>   -> int_int(o, m1.len, a, b)
       [] m1.k = "INT" /\ o \in {"LWB", "UPB"} -> row_bound(o, a.v, b)
       [] kk = <<"INT", "STRING">> /\ o = "*" -> row_repeat(b, a.v)
       [] kk = <<"INT", "BITS">>  -> int_bits(a.v, m2.len, b)
       [] kk = <<"BITS", "BITS">> -> bits_bits(o, m1.len, a, b)
       [] kk = <<"BITS", "INT">>  -> bits_int(o, m1.len, a, b)
       [] kk = <<"BOOL", "BOOL">> -> bool_bool(o, a.v, b.v)
       [] kk = <<"CHAR", "CHAR">> -> mk_bool(cmp_result(o, Order(a.v, b.v)))
       [] kk = <<"STRING", "STRING">> -> row_row(o, a, b)
       [] kk = <<"STRING", "INT">> -> row_repeat(a, b.v)
       [] kk = <<"REAL", "REAL">> -> mp_dyadic(o, a.v, b.v)
       [] kk = <<"ROW", "ROW">>   -> mk_bool(IF o = "=" THEN rows_equal(a, b) ELSE ~rows_equal(a, b))

(* x +:= e and its relatives: the value to store *)
Base(o) == CASE o \in {"+:=", "+=:"} -> "+" [] o = "-:=" -> "-" [] o = "*:=" -> "*" [] o = "%:=" -> "%" [] o = "%*:=" -> "%*" [] o = "/:=" -> "/"
assigning(o, m, cur, b) ==
  CASE Undef \in {cur, b} -> Died
    [] m.k = "INT" -> int_int(Base(o), m.len, cur, b)
    [] m.k = "REAL" -> mp_dyadic(Base(o), cur.v, b.v)
    [] m.k = "BITS" -> bits_bits(IF o = "&:=" THEN "AND" ELSE "OR", m.len, cur, b)
    [] m.k = "STRING" -> IF o = "*:=" THEN row_repeat(cur, b.v)
                         ELSE IF o = "+:=" THEN row_concat(cur, b) ELSE row_concat(b, cur)

int_1(o, n, v) ==
  LET long == v.tag = "bigint"
      b == big_of(v)
  IN CASE o = "-" -> IF long THEN val_of_big(big_neg(b)) ELSE int_range(word(-v.v), n)
       [] o = "+" -> v
       [] o = "ABS" -> IF long THEN val_of_big(big_abs(b)) ELSE mk_int(word(Magnitude(v.v)))
       [] o = "SIGN" -> mk_int(IF long THEN big_sign(b) ELSE Order(v.v, 0))
       [] o = "ODD" -> mk_bool((IF long THEN Last(v.v.d) ELSE v.v) % 2 # 0)
       [] o = "REPR" -> IF v.v \in 0 .. MaxChar THEN mk_char(v.v) ELSE Died
       [] o = "BIN" -> IF big_sign(b) < 0 \/ wb_exceeds(wb_of_big(b), Width[n]) THEN Died ELSE val_of_wb(wb_of_big(b))
       [] o = "SHORTEN" /\ n = 1 -> shorten_long_int(v)
       [] o = "SHORTEN" /\ n > 1 -> in_range(b, n - 1)

bits_1(o, n, v) ==
  LET s == wb_of_val(v)
  IN CASE o = "ABS" /\ v.tag = "bits" -> mk_int(IF n <= 0 /\ v.v > A68_MAXINT THEN v.v - B ELSE word(v.v))
       [] o = "ABS" /\ v.tag # "bits" -> val_of_big(big_of(v))
       [] o = "NOT" -> val_of_wb((wb_mask(Width[n]) \ s) \cup (s \ wb_mask(Width[n])))
       [] o = "SHORTEN" -> val_of_wb(s \cap wb_mask(Width[n - 1]))

bool_1(o, x) == IF o = "NOT" THEN mk_bool(~x) ELSE mk_int(IF x THEN 1 ELSE 0)
row_1(o, v) == IF o = "ELEMS" THEN mk_int(Len(Elems(v))) ELSE row_bound(o, 1, v)

ops_monadic(o, m, v) ==
  CASE v = Undef -> Died
    [] m.k = "INT"  -> int_1(o, m.len, v)
    [] m.k = "BITS" -> bits_1(o, m.len, v)
    [] m.k = "REAL" -> mp_monadic(o, m.len, v.v)
    [] m.k = "CHAR" -> mk_int(v.v)
    [] m.k = "BOOL" -> bool_1(o, v.v)
    [] m.k \in {"STRING", "ROW"} -> row_1(o, v)

(* the coercions: LENG, an INT as a REAL, and a BITS as the row of its truth values, highest first *)
row_of_bools(v, n) ==
  row_of_values([i \in 1 .. Width[n] |-> mk_bool(Width[n] - i \in wb_of_val(v))])
ops_widen(o, m, v) ==
  LET ak == B - v.v      \* what the INT of the same bits is below zero
  IN CASE v = Undef -> Died
       [] o = "BOOLS" -> row_of_bools(v, m.len)
       [] o = "REAL" -> Real(mp_of_int(ValueOf(big_of(v)), MpDigits[m.len]))
       [] m.k = "REAL" -> Real(mp_len(v.v, MpDigits[m.len + 1]))
       [] m.k = "BITS" /\ o = "LENG" /\ m.len = 0 /\ v.v > A68_MAXINT ->
            mk_bits(v.v % (IF ak < Radix THEN Radix ELSE Radix * Radix))
       [] OTHER -> v

-----------------------------------------------------------------------------
(* The fast path: Unanswered leaves the operands to the general one. *)
Unanswered == Tagged("unanswered", 0)

RemainderOfSign(o, x, y) ==             \* slip: the remainder keeps the sign of x
  CASE o = "+" -> int_range(word(x + y), 0) [] o = "-" -> int_range(word(x - y), 0)
    [] o = "*" -> int_range(word(x * y), 0)
    [] o \in {"%", "%*"} -> IF y = 0 THEN Died ELSE mk_int(IF o = "%" THEN Quot(x, y) ELSE Rem(x, Magnitude(y)))
    [] o = "**" -> pow_int(x, y)
    [] OTHER -> mk_bool(cmp_result(o, Order(x, y)))
native_int(o, x, y) ==
  LET r == Rem(x, Magnitude(y))
  IN CASE o = "+" -> int_range(word(x + y), 0) [] o = "-" -> int_range(word(x - y), 0)
       [] o = "*" -> int_range(word(x * y), 0)
       [] o \in {"%", "%*"} /\ y = 0 -> Died
       [] o = "%" /\ y # 0 -> mk_int(Quot(x, y))
       [] o = "%*" /\ y # 0 -> mk_int(IF r < 0 THEN r + Magnitude(y) ELSE r)
       [] o = "**" -> pow_int(x, y)
       [] OTHER -> mk_bool(cmp_result(o, Order(x, y)))

native_bits(o, x, y) ==
  LET s == wb_of_word(x)
      t == wb_of_word(y)
      mask == wb_of_word(B - 1)
  IN CASE o = "AND" -> mk_bits(WordOf(s \cap t))
       [] o = "OR"  -> mk_bits(WordOf((s \cup t) \cap mask))
       [] o = "XOR" -> mk_bits(WordOf(((s \ t) \cup (t \ s)) \cap mask))
       [] o = "="   -> mk_bool(x = y)
       [] o = "/="  -> mk_bool(x # y)
       [] o = "<="  -> mk_bool(s \cap t = s)
       [] o = ">="  -> mk_bool(s \cap t = t)

native_shift(o, x, k) ==
  LET sh == IF o = "SHL" THEN k ELSE -k
  IN IF Magnitude(k) > LimbBits THEN Died
     ELSE mk_bits(IF sh >= 0 THEN ((x * 2 ^ sh) % (B * B)) % B ELSE x \div 2 ^ (-sh))

native_elem(k, y) ==
  IF k \notin 1 .. LimbBits THEN Died ELSE mk_bool((y \div 2 ^ (LimbBits - k)) % 2 = 1)

(* a store whose elements are all of one kind is a leaf; the first element decides *)
LeafOfChars(v) == Elems(v) = <<>> \/ Elems(v)[1].tag = "char"
native_string(o, a, b) ==
  IF ~(AllChars(a) /\ AllChars(b)) THEN Died
  ELSE IF o = "+" THEN mk_row(1, Elems(a) \o Elems(b))
  ELSE mk_bool(cmp_result(o, compare_chars(a, b)))

native_dyop(o, m1, m2, a, b) ==
  LET mm == <<m1, m2>>
      kk == <<m1.k, m2.k>>
      N  == [k \in {"INT", "BITS"} |-> Mode(k, 0)]
  IN CASE Undef \in {a, b} -> Unanswered
       [] mm = <<N["INT"], N["INT"]>>   -> native_int(o, a.v, b.v)
       [] kk = <<"BOOL", "BOOL">>       -> bool_bool(o, a.v, b.v)
       [] kk = <<"CHAR", "CHAR">>       -> mk_bool(cmp_result(o, Order(a.v, b.v)))
       [] kk = <<"STRING", "STRING">> /\ LeafOfChars(a) /\ LeafOfChars(b) -> native_string(o, a, b)
       [] m1 = N["INT"] /\ o \in {"LWB", "UPB"} -> row_bound(o, a.v, b)
       [] mm = <<N["BITS"], N["BITS"]>> -> native_bits(o, a.v, b.v)
       [] mm = <<N["BITS"], N["INT"]>>  -> native_shift(o, a.v, b.v)
       [] mm = <<N["INT"], N["BITS"]>>  -> native_elem(a.v, b.v)
       [] OTHER -> Unanswered

(* `s +:= t` extends the variable's row in place when its lower bound is 1 *)
native_assign_op(o, m, cur, b) ==
  CASE m.k = "STRING" /\ o = "+:=" /\ cur.tag = "row" /\ b.tag = "row" /\ cur.v.l = 1 ->
         mk_row(1, Elems(cur) \o Elems(b))
    [] m = Mode("INT", 0) /\ Undef \notin {cur, b} -> native_int(Base(o), cur.v, b.v)
    [] OTHER -> Unanswered

native_int_1(o, x) ==
  CASE o = "-" -> int_range(word(-x), 0)
    [] o = "+" -> mk_int(x)
    [] o = "ABS" -> mk_int(word(Magnitude(x)))
    [] o = "SIGN" -> mk_int(Order(x, 0))
    [] o = "ODD" -> mk_bool(x % 2 # 0)
    [] o = "REPR" -> IF x \in 0 .. MaxChar THEN mk_char(x) ELSE Died
    [] o = "BIN" -> IF x \in 0 .. B - 1 THEN mk_bits(x) ELSE Died

native_bits_1(o, x) ==
  LET s == wb_of_word(x)
  IN IF o = "NOT" THEN mk_bits(WordOf((wb_mask(LimbBits) \ s) \cup (s \ wb_mask(LimbBits))))
     ELSE mk_int(IF x > A68_MAXINT THEN x - B ELSE x)

native_monop(o, m, v) ==
  CASE v = Undef -> Unanswered
    [] m = Mode("INT", 0)  -> native_int_1(o, v.v)
    [] m = Mode("BITS", 0) -> native_bits_1(o, v.v)
    [] m.k = "BOOL" -> bool_1(o, v.v)
    [] m.k = "CHAR" -> mk_int(v.v)
    [] m.k \in {"STRING", "ROW"} -> row_1(o, v)
    [] OTHER -> Unanswered

-----------------------------------------------------------------------------
(* The program: formulas of the variable and denotations, each assigned to the variable.
   The modes are those the elaborator accepts (A68/Elab.lean). *)

Bitwise == {"AND", "OR", "XOR", "=", "/=", "<=", ">="}
\* the operators declared for two operands, which are widened to the longer mode
builtinDyadic(m1, m2) ==
  LET kk == <<m1.k, m2.k>>
  IN CASE kk = <<"INT", "INT">> -> {"+", "-", "*", "%", "%*"} \cup Cmp \cup (IF m2.len = 0 THEN {"**"} ELSE {})
       [] kk = <<"REAL", "REAL">> /\ m1 = m2 -> {"+", "-", "*", "/"} \cup Cmp
       [] kk = <<"BITS", "BITS">> -> Bitwise
       [] kk = <<"BOOL", "BOOL">> -> {"AND", "OR", "XOR", "=", "/="}
       [] kk = <<"CHAR", "CHAR">> -> Cmp
       [] kk = <<"STRING", "STRING">> -> Cmp \cup {"+"}
       [] kk = <<"ROW", "ROW">> -> {"=", "/="}
       [] kk = <<"BITS", "INT">> /\ m2.len = 0 -> {"SHL", "SHR"}
       [] kk = <<"INT", "BITS">> /\ m1.len = 0 -> {"ELEM"}
       [] kk = <<"STRING", "INT">> /\ m2.len = 0 -> {"*"}
       [] kk = <<"INT", "STRING">> /\ m1.len = 0 -> {"*", "LWB", "UPB"}
       [] kk = <<"INT", "ROW">> /\ m1.len = 0 -> {"LWB", "UPB"}
       [] OTHER -> {}
builtinAssigning(m1, m2) ==
  CASE m1.k = "INT" /\ m2.k = "INT" /\ m2.len <= m1.len -> {"+:=", "-:=", "*:=", "%:=", "%*:="}
    [] m1.k = "REAL" /\ m2 = m1 -> {"+:=", "-:=", "*:=", "/:="}
    [] m1.k = "BITS" /\ m2 = m1 -> {"&:=", "|:="}
    [] m1.k = "STRING" /\ m2.k = "STRING" -> {"+:=", "+=:"}
    [] m1.k = "STRING" /\ m2 = Mode("INT", 0) -> {"*:="}
    [] OTHER -> {}
builtinMonadic(m) ==
  CASE m.k = "INT" -> {"-", "+", "ABS", "SIGN", "ODD", "BIN"} \cup (IF m.len = 0 THEN {"REPR"} ELSE {"SHORTEN"})
    [] m.k = "BITS" -> {"ABS", "NOT"} \cup (IF m.len > 0 THEN {"SHORTEN"} ELSE {})
    [] m.k = "REAL" -> {"-", "+", "ABS", "SIGN", "ENTIER", "ROUND"} \cup (IF m.len > 1 THEN {"SHORTEN"} ELSE {})
    [] m.k = "BOOL" -> {"ABS", "NOT"}
    [] m.k = "CHAR" -> {"ABS"}
    [] m.k \in {"STRING", "ROW"} -> {"LWB", "UPB", "ELEMS"}
Widenings(m) == (IF m.k \in {"INT", "BITS", "REAL"} /\ m.len < 2 THEN {"LENG"} ELSE {})
                \cup (IF m.k = "INT" /\ m.len > 0 THEN {"REAL"} ELSE {})
                \cup (IF m.k = "BITS" THEN {"BOOLS"} ELSE {})

Lower(m) == Mode(m.k, m.len - 1)
Result(o, m) ==                     \* of the operator o, whose first operand has mode m
  CASE o \in Cmp \cup {"ODD", "ELEM"} -> Mode("BOOL", 0)
    [] o \in {"SIGN", "LWB", "UPB", "ELEMS"} -> Mode("INT", 0)
    [] o = "ABS" /\ m.k # "REAL" -> Mode("INT", IF m.k \in {"INT", "BITS"} THEN m.len ELSE 0)
    [] o \in {"ENTIER", "ROUND"} -> Mode("INT", m.len)
    [] o = "REAL" -> Mode("REAL", m.len)
    [] o = "REPR" -> Mode("CHAR", 0)
    [] o = "BIN" -> Mode("BITS", m.len)
    [] o = "LENG" -> Mode(m.k, m.len + 1)
    [] o = "SHORTEN" -> Lower(m)
    [] o = "BOOLS" -> Mode("ROW", 0)
    [] OTHER -> m
Joined(a, b, o) ==                  \* the operands as the operator sees them
  IF a.m.k = b.m.k /\ a.m.k \in {"INT", "BITS"} /\ o # "**"
  THEN LET m == Mode(a.m.k, IF a.m.len > b.m.len THEN a.m.len ELSE b.m.len) IN <<[a EXCEPT !.m = m], [b EXCEPT !.m = m]>>
  ELSE <<a, b>>

Assignations == {"+:=", "-:=", "*:=", "%:=", "%*:=", "/:=", "&:=", "|:=", "+=:"}

Init == cell \in Literals /\ stack = <<>> /\ op = "none" /\ done = 0

fetch ==
  /\ op = "none" /\ done < Formulas /\ cell.v \notin {Died, Garbled}
  /\ cell.v.tag = "row" => Len(Elems(cell.v)) <= A68_MAXINT    \* bound: an INT counts a row
  /\ \/ op' \in builtinMonadic(cell.m) \cup Widenings(cell.m) /\ stack' = <<cell>>
     \/ \E b \in Literals \cup {cell} :
          \/ op' \in builtinDyadic(cell.m, b.m) /\ stack' = Joined(cell, b, op')
          \/ op' \in builtinDyadic(b.m, cell.m) /\ stack' = Joined(b, cell, op')
          \/ op' \in builtinAssigning(cell.m, b.m) /\ stack' = IF op' = "+=:" THEN <<b, cell>> ELSE <<cell, b>>
  /\ UNCHANGED <<cell, done>>

deliver(v, m) ==
  /\ cell' = [m |-> m, v |-> v]
  /\ op' = "none" /\ stack' = <<>> /\ done' = done + 1

\* a fast path's answer, or else the general one's
answer(fast, general) == IF fast = Unanswered THEN general ELSE fast

dyop ==
  /\ Len(stack) = 2 /\ op \notin Assignations
  /\ LET a == stack[1]
         b == stack[2]
     IN deliver(answer(native_dyop(op, a.m, b.m, a.v, b.v), ops_dyadic(op, a.m, b.m, a.v, b.v)),
                Result(op, IF op = "*" /\ b.m.k = "STRING" THEN b.m ELSE a.m))

assign_op ==
  LET name == IF op = "+=:" THEN stack[2] ELSE stack[1]     \* value PLUSTO name
      b    == IF op = "+=:" THEN stack[1] ELSE stack[2]
  IN /\ op \in Assignations
     /\ deliver(answer(native_assign_op(op, name.m, name.v, b.v), assigning(op, name.m, name.v, b.v)), name.m)

monop ==
  /\ Len(stack) = 1 /\ op \notin {"LENG", "REAL", "BOOLS"}
  /\ deliver(answer(native_monop(op, stack[1].m, stack[1].v), ops_monadic(op, stack[1].m, stack[1].v)),
             Result(op, stack[1].m))

widen ==
  /\ op \in {"LENG", "REAL", "BOOLS"}
  /\ deliver(ops_widen(op, stack[1].m, stack[1].v), Result(op, stack[1].m))

Next == fetch \/ dyop \/ assign_op \/ monop \/ widen
Spec == Init /\ [][Next]_vars

-----------------------------------------------------------------------------
(* properties *)

NumberOf(t) == (IF t.neg THEN -1 ELSE 1) * FoldLeft(LAMBDA n, c : 10 * n + c, 0, t.d)
BitsOf(i) == {b \in 0 .. Width[2] - 1 : (i \div 2 ^ b) % 2 = 1}
ScalarMeaning(v) ==
  CASE v.tag = "bigint"  -> [tag |-> "int", v |-> NumberOf(v.v)]
    [] v.tag = "bits"    -> [tag |-> "bits", v |-> BitsOf(v.v)]
    [] v.tag = "bigbits" -> [tag |-> "bits", v |-> BitsOf(NumberOf(v.v))]
    [] v.tag = "mp"      -> [tag |-> "real", v |-> [st |-> v.v.st, m |-> Mantissa(v.v), e |-> Scale(v.v)]]
    [] OTHER -> v
Meaning(v) ==
  IF v.tag = "row" THEN [tag |-> "row", v |-> [l |-> v.v.l, e |-> [i \in DOMAIN Elems(v) |-> ScalarMeaning(Elems(v)[i])]]]
  ELSE ScalarMeaning(v)
LargestOf == [n \in 0 .. 2 |-> ValueOf(max_int_of(n))]
Abs == INSTANCE Arithmetic
         WITH cell <- [m |-> cell.m, v |-> Meaning(cell.v)],
              stack <- [i \in DOMAIN stack |-> [m |-> stack[i].m, v |-> Meaning(stack[i].v)]],
              Largest <- LargestOf

\* Steps where the runtime is known to part from A68/Interp.lean, or both from arithmetic: -
\* and ABS of the least word as a LONG INT, ABS of a LONG BITS with the top bit of a word, the
\* fast + of strings with undefined characters, and whole parts of an unnormalised quotient.
Diverges ==
  LET m == stack[1].m
      v == stack[1].v
  IN op # "none" /\ op' = "none" /\
     \/ Len(stack) = 1 /\ op \in {"-", "ABS"} /\ m.k = "INT" /\ m.len > 0 /\ v = mk_int(-WordHalf)
     \/ op = "ABS" /\ m.k = "BITS" /\ m.len > 0 /\ v.tag = "bits" /\ v.v >= WordHalf
     \/ op = "+" /\ m.k = "STRING" /\ ~(AllChars(v) /\ AllChars(stack[2].v))
     \/ op \in {"ENTIER", "ROUND"} /\ Ragged(v.v)

(* Every formula gives the value, or ends the program, as the arithmetic of whole integers,
   sets of bits and sequences says: no word wraps unseen, no carry, borrow or quotient digit
   is lost, whichever representation the operands are in. *)
ImplementsArithmetic == Abs!Init /\ [][Diverges \/ Abs!Next]_(Abs!vars)

(* Where the fast path of rt.c answers, it answers what ops.c would have; only strings with
   undefined characters are told apart. *)
PathsAgree ==
  LET a == stack[1]
      b == stack[2]
      fast == CASE Len(stack) = 1 -> native_monop(op, a.m, a.v)
                [] op \in Assignations -> IF op = "+=:" THEN Unanswered ELSE native_assign_op(op, a.m, a.v, b.v)
                [] OTHER -> native_dyop(op, a.m, b.m, a.v, b.v)
      general == CASE Len(stack) = 1 -> ops_monadic(op, a.m, a.v)
                   [] op \in Assignations -> assigning(op, a.m, a.v, b.v)
                   [] OTHER -> ops_dyadic(op, a.m, b.m, a.v, b.v)
  IN \/ op \in {"none", "LENG", "REAL", "BOOLS"}
     \/ fast \in {Unanswered, general}
     \/ op = "+" /\ ~(AllChars(a.v) /\ AllChars(b.v))

(* Values have one representation each: a number is kept as text only when no word holds it,
   without leading zeros or a negative zero, and is within the range of its mode; comparison
   of rows by representation relies on it.  ABS of a BITS makes the one INT out of range, and
   ABS or % of that one more; ROUND and ENTIER pass the range of a LONG INT by up to two. *)
NumbersCanonical ==
  LET v == cell.v
      n == cell.m.len
      b == big_of(v)
      past == over_limit(big_sub(big_abs(b), big_from_i64(2)), n)
  IN /\ v.tag = "int" /\ n = 0 => v.v \in -(A68_MAXINT + 1) .. A68_MAXINT + 1
     /\ v.tag = "int" /\ n > 0 => v.v \in -WordHalf .. WordHalf - 1 /\ ~past
     /\ v.tag = "bits" => v.v \in 0 .. (B * B) - 1 /\ ~wb_exceeds(wb_of_val(v), Width[n])
     /\ v.tag = "bigint" => ~big_fits_i64(b) /\ ~past
     /\ v.tag = "bigbits" => Len(b.limb) > 2 /\ ~wb_exceeds(wb_of_val(v), Width[n])
     /\ v.tag \in {"bigint", "bigbits"} => Canonical(b) /\ v.v.d[1] # 0

(* A LONG REAL keeps its normal form through every operation, but for the last digit of a
   quotient: no digit outside the radix, no leading zero (a number that begins with one is
   taken for zero), the exponent within bounds. *)
RealsNormal == cell.v.tag = "mp" => Normal(cell.v.v)

(* What mp.h:10-11 says of the representation: only the first digit carries the sign.  The
   conversions to text write every digit as it is. *)
OnlyFirstSigned == cell.v.tag = "mp" => ~Ragged(cell.v.v)

(* OVER and MOD of LONG INTs were computed on reals with guard digits; the whole-number
   operations used now give the same (comment of longIntDyadic, A68/Interp.lean). *)
OverExact ==
  LET x == ValueOf(big_of(stack[1].v))
      y == ValueOf(big_of(stack[2].v))
      n == MpDigits[stack[1].m.len]
      u == mp_of_int(x, n)
      v == mp_of_int(y, n)
  IN op = "%" /\ stack[1].m.len > 0 /\ Undef \notin {stack[1].v, stack[2].v} /\ y # 0 /\ Bad \notin {u, v} =>
       LET q == mp_over(u, v)
           r == mp_mod(u, v)
       IN /\ q # Bad => ValueOf(WholePart(q)) = Quot(x, y)
          /\ r # Bad => ValueOf(WholePart(r)) = Rem(x, y)

(* The decimal text of a number of several chunks reads back as the number. *)
Wide == INSTANCE BigInt WITH LimbBits <- 7, Chunk <- 2
DecimalRoundTrip ==
  cell.v.tag \in {"int", "bigint"} =>
    LET v == ValueOf(big_of(cell.v))
        Sq == Wide!big_mul(Wide!big_from_i64(v), Wide!big_from_i64(IF Magnitude(v) < 100 THEN 10 * v ELSE 1))
        t  == Wide!big_to_dec(Sq)
    IN /\ Wide!big_from_dec(t) = Sq /\ Wide!ValueOf(Sq) = v * (IF Magnitude(v) < 100 THEN 10 * v ELSE 1)
       /\ t.d[1] # 0 \/ t.d = <<0>>
=============================================================================
