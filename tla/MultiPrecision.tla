---------------------------- MODULE MultiPrecision ----------------------------
(***************************************************************************)
(* LONG REAL and LONG LONG REAL (csrc/mp.c): a status, an exponent and     *)
(* digits of a large radix, the first of which carries the sign; a number  *)
(* is d[1].d[2]d[3]... times Radix^ex.                                     *)
(*                                                                         *)
(* The digits are doubles that hold integers; here they are integers, as   *)
(* long as the sums stay exact (Oflow).  The double rounding of the        *)
(* numerator of a quotient estimate is left out.  An operation that fails  *)
(* is Bad.  Infinities and NaN are a status: their digits are stale.       *)
(***************************************************************************)
EXTENDS BigInt

CONSTANTS
  Radix,     \* of a digit: 10^7 in the code
  MpDigits,  \* digits of a LONG REAL and of a LONG LONG REAL: 7 and 12
  MaxExpo,   \* 142857
  Oflow      \* steps between two normalisations of a product or quotient: 44 and 29

ASSUME Precision == Radix % 2 = 0 /\ Radix > 2 /\ MaxExpo \in Nat /\ Oflow \in Nat \ {0}

HalfRadix == Radix \div 2
OneGuard == 1       \* slip: OVER and MOD with one digit more than the operands have
Guards == 2

Mp(st, ex, d) == [st |-> st, ex |-> ex, d |-> d]
Bad == Mp("bad", 0, <<>>)
Zeros(n) == [k \in 1 .. n |-> 0]
lit(digs, u, e) == Mp("num", e, <<u>> \o Zeros(digs - 1))
mp_zero(digs) == lit(digs, 0, 0)
Status(st, z) == [z EXCEPT !.st = st]
negate1(z) == [z EXCEPT !.d[1] = -@]
Signed(z, neg) == IF z # Bad /\ neg THEN negate1(z) ELSE z
adig(x) == [x.d EXCEPT ![1] = Magnitude(@)]
is_inf(z) == z.st \in {"pinf", "minf"}
is_zero(z) == z.d[1] = 0
mp_len(x, digs) == [x EXCEPT !.d = @ \o Zeros(digs - Len(@))]

\* C's truncating / and %
Quot(x, y) == (IF (x < 0) = (y < 0) THEN 1 ELSE -1) * (Magnitude(x) \div Magnitude(y))
Rem(x, y)  == x - y * Quot(x, y)

check_exp(z) ==
  IF z.st = "num" /\ (Magnitude(z.ex) > MaxExpo \/ (Magnitude(z.ex) = MaxExpo /\ Magnitude(z.d[1]) > 1)) THEN Bad ELSE z

-----------------------------------------------------------------------------
(* A scratch number w has positions 1 .. Len(w), the first for what is carried out of the
   sum; its digits may be negative or too large until they are normalised. *)

UnevenCarry(w, j) ==                    \* slip: a negative digit borrows one too few
  [w EXCEPT ![j] = Rem(@, Radix), ![j - 1] = @ + Quot(w[j], Radix)]
carry_at(w, j) == [w EXCEPT ![j] = @ % Radix, ![j - 1] = @ + (w[j] \div Radix)]
norm_digits(w, k, last) == FoldLeft(carry_at, w, [i \in 1 .. (IF last < k THEN 0 ELSE last + 1 - k) |-> last + 1 - i])

(* to digs digits; a half-way digit adds one to an odd digit and two to an even one *)
LastKept(w, digs) == IF w[1] = 0 THEN digs + 2 ELSE digs + 1
Raised(w, last) ==
  IF w[last] < HalfRadix THEN w
  ELSE [w EXCEPT ![last - 1] = @ + IF w[last] = HalfRadix /\ @ % 2 = 0 THEN 2 ELSE 1]
Settled(w, last) == IF w[last - 1] >= Radix THEN norm_digits(w, 2, last) ELSE w
Packed(d, ex) == Mp("num", IF d[1] = 0 THEN 0 ELSE ex, d)
Kept(w, wex, digs) == IF w[1] = 0 THEN Packed(SubSeq(w, 2, digs + 1), wex - 1) ELSE Packed(SubSeq(w, 1, digs), wex)
round_internal(w, wex, digs) ==
  LET Rounded(last) == Kept(Settled(Raised(w, last), last), wex, digs) IN Rounded(LastKept(w, digs))

mp_shorten(x, digs) ==
  CASE x.st \in {"nan", "bad"} -> Bad
    [] is_inf(x) -> Status(x.st, mp_zero(digs))
    [] OTHER -> Signed(round_internal(<<0>> \o SubSeq(adig(x), 1, digs + 1), x.ex + 1, digs), x.d[1] < 0)

-----------------------------------------------------------------------------
(* sums *)

NoGuard(x, digs, shl, i) ==             \* slip: no digit is kept below the last one
  IF i - shl \in 1 .. digs /\ i <= digs THEN adig(x)[i - shl] ELSE 0
digit_or0(x, digs, shl, i) == IF i - shl \in 1 .. digs THEN adig(x)[i - shl] ELSE 0
aligned_sum(x, y, s) ==
  LET digs == Len(x.d)
      top  == IF x.ex > y.ex THEN x.ex ELSE y.ex
  IN <<0>> \o [i \in 1 .. digs + 1 |-> digit_or0(x, digs, top - x.ex, i) + s * digit_or0(y, digs, top - y.ex, i)]
TopExponent(x, y) == 1 + (IF x.ex > y.ex THEN x.ex ELSE y.ex)

FirstDigit(w) == SelectInSeq(w, LAMBDA c : c # 0)
add_abs(x, y) ==
  check_exp(round_internal(norm_digits(aligned_sum(x, y, 1), 2, Len(x.d) + 2), TopExponent(x, y), Len(x.d)))
BelowZero(w) == FirstDigit(w) # 0 /\ w[FirstDigit(w)] < 0
\* the zeros in front, and as many of the exponent, given up
Cancelled(w, wex, digs) ==
  LET Moved(j) == round_internal(SubSeq(w, 1 + j, Len(w)) \o Zeros(j), wex - j, digs)
  IN Moved(IF FirstDigit(w) > 1 THEN FirstDigit(w) - 1 ELSE 0)
sub_abs(x, y) ==
  LET neg == BelowZero(aligned_sum(x, y, -1))
      w   == IF neg THEN aligned_sum(y, x, -1) ELSE aligned_sum(x, y, -1)
  IN check_exp(Signed(Cancelled(norm_digits(w, 2, Len(x.d) + 2), TopExponent(x, y), Len(x.d)), neg))

\* an infinite or undefined operand; the difference treats infinities as the sum does
InfSum(x, y) ==
  CASE "nan" \in {x.st, y.st} -> Bad
    [] {x.st, y.st} = {"pinf", "minf"} -> Status("nan", x)
    [] OTHER -> Status(IF "pinf" \in {x.st, y.st} THEN "pinf" ELSE "minf", x)
mp_add(x, y) ==
  LET xn == x.d[1] < 0
  IN CASE {x.st, y.st} # {"num"} -> InfSum(x, y)
       [] {x.st, y.st} = {"num"} /\ is_zero(x) -> y
       [] {x.st, y.st} = {"num"} /\ is_zero(y) -> x
       [] OTHER -> IF xn = (y.d[1] < 0) THEN Signed(add_abs(x, y), xn)
                   ELSE sub_abs(IF xn THEN y ELSE x, IF xn THEN x ELSE y)
mp_sub(x, y) ==
  LET xn == x.d[1] < 0
  IN CASE {x.st, y.st} # {"num"} -> InfSum(x, y)
       [] {x.st, y.st} = {"num"} /\ is_zero(x) -> negate1(y)
       [] {x.st, y.st} = {"num"} /\ is_zero(y) -> x
       [] OTHER -> IF xn # (y.d[1] < 0) THEN Signed(add_abs(x, y), xn)
                   ELSE sub_abs(IF xn THEN y ELSE x, IF xn THEN x ELSE y)

-----------------------------------------------------------------------------
(* products *)

mul_inf(u, v, w) ==
  LET plus == (v.st = "pinf") = (w.st = "pinf" \/ (w.st = "num" /\ w.d[1] > 0))
  IN Status(IF w.st = "num" /\ is_zero(w) THEN "nan" ELSE IF plus THEN "pinf" ELSE "minf", u)
mp_mul(x, y) ==
  LET digs == Len(x.d)
      dh   == digs + 2
      Step(w, i) ==
        LET k == IF dh - i > digs THEN digs ELSE dh - i
            u == IF (digs - i + 1) % Oflow = 0 THEN norm_digits(w, 2, dh) ELSE w
        IN IF adig(y)[i] = 0 THEN w
           ELSE FoldLeft(LAMBDA v, j : [v EXCEPT ![i + j] = @ + adig(y)[i] * adig(x)[j]], u, UpTo(k))
      w == FoldLeft(Step, <<0>> \o Zeros(dh - 1), [i \in 1 .. digs |-> digs + 1 - i])
  IN CASE "nan" \in {x.st, y.st} -> Bad
       [] "nan" \notin {x.st, y.st} /\ is_inf(x) -> mul_inf(x, x, y)
       [] {x.st} = {"num"} /\ is_inf(y) -> mul_inf(x, y, x)
       [] {x.st, y.st} = {"num"} /\ (is_zero(x) \/ is_zero(y)) -> mp_zero(digs)
       [] OTHER -> check_exp(Signed(round_internal(norm_digits(w, 2, dh), x.ex + y.ex + 1, digs), x.d[1] * y.d[1] < 0))

half_abs(x) ==
  LET digs == Len(x.d)
      w == <<0>> \o [j \in 1 .. digs |-> HalfRadix * adig(x)[j]] \o <<0>>
  IN check_exp(round_internal(norm_digits(w, 2, digs + 2), x.ex, digs))

-----------------------------------------------------------------------------
(* quotients, digit by digit from an estimate that a later digit corrects *)

\* the estimate is of the three leading digits of y, the last factor; sub takes q times y from w
Estimates(x, den, sub(_, _, _)) ==
  LET digs == Len(x.d)
      wd   == digs + 4
      Step(w, k) ==
        LET nom == ((w[k] * Radix + w[k + 1]) * Radix + w[k + 2]) * Radix + At(w, k + 3)
            Put(u, q) == [u EXCEPT ![k + 1] = u[k] * Radix + @, ![k] = q]
            Taken(q)  == Put(sub(w, k, q), q)
            Eased(v)  == IF k % Oflow = 0 \/ k = digs + 2 THEN norm_digits(v, k + 2, wd) ELSE v
        IN Eased(Taken(Quot(nom, den)))
  IN norm_digits(FoldLeft(Step, <<0>> \o adig(x) \o Zeros(3), UpTo(digs + 2)), 2, digs)

div_digit_loop(x, ya) ==
  Estimates(x, ya * Radix * Radix, LAMBDA w, k, q : [w EXCEPT ![k + 1] = @ - q * ya])
DivisorOf(y) == (adig(y)[1] * Radix + At(y.d, 2)) * Radix + At(y.d, 3)
div_loop(x, y, nz) ==
  LET digs == Len(x.d)
      Least(a, b) == IF a < b THEN a ELSE b
      Lim(k) == LET l == Least(digs + 1 + k, digs + 4) IN IF nz + k + 1 <= l THEN k + 1 + nz ELSE l
  IN Estimates(x, DivisorOf(y),
       LAMBDA w, k, q : SubSeq(w, 1, k) \o [p \in 1 .. Lim(k) - 1 - k |-> w[k + p] - q * adig(y)[p]]
                                          \o SubSeq(w, Lim(k), Len(w)))

QuotientOf(x, y, nz) ==
  LET short == nz = 1 /\ y.ex = 0
  IN IF short /\ adig(y)[1] = 2 THEN half_abs(x)
     ELSE round_internal(IF short THEN div_digit_loop(x, adig(y)[1]) ELSE div_loop(x, y, nz), x.ex - y.ex, Len(x.d))
mp_div(x, y) ==
  CASE "nan" \in {x.st, y.st} -> Bad
    [] "nan" \notin {x.st, y.st} /\ is_inf(x) -> Status("nan", x)
    [] {x.st} = {"num"} /\ is_inf(y) -> mp_zero(Len(x.d))
    [] {x.st, y.st} = {"num"} /\ is_zero(y) ->
         Status(IF is_zero(x) THEN "nan" ELSE IF x.d[1] > 0 THEN "pinf" ELSE "minf", x)
    [] OTHER -> check_exp(Signed(QuotientOf(x, y, SelectLastInSeq(y.d, LAMBDA c : c # 0)), x.d[1] * y.d[1] < 0))

-----------------------------------------------------------------------------
(* whole numbers *)

mp_trunc(x) ==
  LET digs == Len(x.d)
  IN CASE x = Bad \/ x.st = "nan" -> Bad
       [] is_inf(x) -> x
       [] x.st = "num" /\ x.ex < 0 -> mp_zero(digs)
       [] x.st = "num" /\ x.ex >= digs -> Bad
       [] OTHER -> [x EXCEPT !.d = SubSeq(@, 1, x.ex + 1) \o Zeros(digs - x.ex - 1)]

\* the steps after one that has not failed
Then(z, next(_)) == IF z = Bad THEN Bad ELSE next(z)

\* the quotient and remainder of whole numbers, computed with guard digits
mp_over(x, y) ==
  LET dg == Len(x.d) + Guards
  IN IF {x.st, y.st} # {"num"} \/ is_zero(y) THEN mp_div(x, y)
     ELSE mp_shorten(mp_trunc(mp_div(mp_len(x, dg), mp_len(y, dg))), Len(x.d))
RemainderOf(x, y) ==
  Then(mp_over(x, y), LAMBDA q : Then(mp_mul(y, q), LAMBDA p : mp_sub(x, p)))
mp_mod(x, y) ==
  LET dg == Len(x.d) + Guards
  IN CASE "nan" \in {x.st, y.st} -> Bad
       [] "nan" \notin {x.st, y.st} /\ (is_inf(x) \/ is_inf(y) \/ is_zero(y)) -> Status("nan", x)
       [] OTHER -> mp_shorten(RemainderOf(mp_len(x, dg), mp_len(y, dg)), Len(x.d))

mp_round(x) ==
  LET h == lit(Len(x.d), HalfRadix, -1)
  IN CASE x.st = "nan" -> Bad [] is_inf(x) -> x
       [] OTHER -> mp_trunc(IF x.d[1] >= 0 THEN mp_add(x, h) ELSE mp_sub(x, h))
FloorIsTrunc(x) == mp_trunc(x)          \* slip: a negative fraction is cut off
Below(x, z) ==
  Then(mp_sub(x, z), LAMBDA y : IF is_zero(y) THEN z ELSE mp_sub(z, lit(Len(x.d), 1, 0)))
mp_entier(x) ==
  IF x.st = "num" /\ x.d[1] < 0 THEN Then(mp_trunc(x), LAMBDA z : Below(x, z)) ELSE mp_trunc(x)

mp_minus(x) ==
  CASE x.st = "nan" -> Bad [] is_inf(x) -> Status(IF x.st = "pinf" THEN "minf" ELSE "pinf", x)
    [] OTHER -> negate1(x)
mp_abs(x) ==
  CASE x.st = "nan" -> Bad [] is_inf(x) -> Status("pinf", x) [] OTHER -> [x EXCEPT !.d = adig(x)]

-----------------------------------------------------------------------------
(* comparisons, by subtraction, which has not failed; NaN is neither equal, less nor more *)

Infinite(x) == CASE x.st = "pinf" -> 1 [] x.st = "minf" -> -1 [] OTHER -> 0
Holds(o, d) ==
  CASE o = "=" -> d = 0 [] o = "/=" -> d # 0 [] o = "<" -> d < 0 [] o = ">=" -> d >= 0 [] o = ">" -> d > 0 [] o = "<=" -> d <= 0
mp_compare(o, x, y) ==
  CASE "nan" \in {x.st, y.st} -> o \in {"/=", ">=", "<="}
    [] {x.st, y.st} = {"num"} -> Holds(o, mp_sub(x, y).d[1])
    [] OTHER -> Holds(o, Infinite(x) - Infinite(y))

-----------------------------------------------------------------------------
(* conversions *)

\* of the integer n (mp_of_dec_string)
mp_of_int(n, digs) ==
  LET m  == Magnitude(n)
      nd == CHOOSE k \in 1 .. 12 : m < Radix ^ k /\ (k = 1 \/ m >= Radix ^ (k - 1))
  IN IF nd > digs THEN Bad
     ELSE check_exp(Signed(Mp("num", nd - 1, [k \in 1 .. nd |-> (m \div Radix ^ (nd - k)) % Radix] \o Zeros(digs - nd)), n < 0))

\* the whole digits, as the number of any size they make (to_i64_trunc, long_int_of)
WholePart(z) ==
  big_trim(z.d[1] < 0, FoldLeft(LAMBDA a, k : mag_mul_add_small(a, Radix, At(adig(z), k)),
                                <<>>, UpTo(IF z.ex < 0 THEN 0 ELSE z.ex + 1)))

-----------------------------------------------------------------------------
(* the integer mantissa of the digits, and the exponent it is to be scaled by *)
Mantissa(z) == (IF z.d[1] < 0 THEN -1 ELSE 1) * FoldLeft(LAMBDA n, c : n * Radix + c, 0, adig(z))
Scale(z) == z.ex - Len(z.d) + 1
(* Every digit below the radix and none wasted in front.  Two exceptions: rounding can leave
   the radix itself, with zeros behind it; and the last digit of a quotient is not
   normalised, so that it may be below zero (it stays where it is when LENG adds digits). *)
Normal(z) ==
  LET a == adig(z)
      Least(k) == IF k \in {MpDigits[1], Len(a)} THEN 1 - Radix ELSE 0
  IN /\ \A k \in 2 .. Len(a) : a[k] \in Least(k) .. Radix - 1
     /\ CASE a[1] = 0     -> z.ex = 0 /\ \A k \in DOMAIN a : a[k] = 0
          [] a[1] = Radix -> \A k \in 2 .. Len(a) : a[k] = 0
          [] OTHER        -> a[1] \in 1 .. Radix - 1
     /\ z.ex \in -MaxExpo .. MaxExpo
Ragged(z) == \E k \in 2 .. Len(z.d) : z.d[k] < 0
=============================================================================
