----------------------------- MODULE NumberText -----------------------------
(***************************************************************************)
(* The texts of numbers: whole, fixed and float, the patterns' digits and  *)
(* what reads them back (csrc/fmt.c, the text half of csrc/io.c).  A       *)
(* number is an exact decimal [m, e], meaning m * 10^e with m >= 0; its    *)
(* sign travels apart from it.  A text is a sequence of characters.        *)
(***************************************************************************)
EXTENDS Integers, Sequences, SequencesExt

CONSTANTS LongLongRealWidth,  \* digits beyond this are written as 0
          RealWidth, ExpWidth, IntWidth,  \* the widths of print
          None

numerals == <<"0", "1", "2", "3", "4", "5", "6", "7", "8", "9", "a", "b", "c", "d", "e", "f">>
digit == [c \in ToSet(numerals) |-> (CHOOSE i \in 1 .. 16 : numerals[i] = c) - 1]
decimals == {numerals[i] : i \in 1 .. 10}
blank(k) == [i \in 1 .. k |-> " "]
abs(n) == IF n < 0 THEN -n ELSE n
sgn(n) == IF n > 0 THEN 1 ELSE IF n < 0 THEN -1 ELSE 0

-----------------------------------------------------------------------------
(* Exact decimals.                                                         *)

dec(n) == [m |-> n, e |-> 0]
dec_ten_up(n) == [m |-> 1, e |-> n]
dec_mul10(x) == [x EXCEPT !.e = @ + 1]
dec_div10(x) == [x EXCEPT !.e = @ - 1]
dec_half(x) == [m |-> 5 * x.m, e |-> x.e - 1]
dec_align(x, y) ==
  LET At(e) == <<x.m * 10 ^ (x.e - e), y.m * 10 ^ (y.e - e), e>> IN At(IF x.e < y.e THEN x.e ELSE y.e)
dec_add(x, y) == LET Sum(a) == [m |-> a[1] + a[2], e |-> a[3]] IN Sum(dec_align(x, y))
dec_cmp(x, y) == LET Sign(a) == sgn(a[1] - a[2]) IN Sign(dec_align(x, y))
dec_floor_nat(x) == IF x.e >= 0 THEN x.m * 10 ^ x.e ELSE x.m \div 10 ^ (-x.e)

-----------------------------------------------------------------------------
(* whole                                                                   *)

\* the k lowest digits of n in base radix, most significant first
lowest(n, radix, k) == [i \in 1 .. k |-> numerals[1 + ((n \div radix ^ (k - i)) % radix)]]
size(n, radix) == IF n = 0 THEN 1 ELSE CHOOSE k \in 1 .. 31 : radix ^ (k - 1) <= n /\ n \div radix < radix ^ (k - 1)
to_dec(n) == lowest(n, 10, size(n, 10))

error_chars(width) == [i \in 1 .. (IF width = 0 THEN 1 ELSE abs(width)) |-> "*"]
has_error(s) == \E i \in DOMAIN s : s[i] = "*"
leading_spaces(s, width) == IF Len(s) >= width THEN s ELSE blank(width - Len(s)) \o s
sub_whole(n, width) == IF size(n, 10) > width THEN error_chars(width) ELSE to_dec(n)

\* the sign, when there is one to show, and the blanks up to the width
signed(ltz, s, width) ==
  LET t == IF ltz THEN <<"-">> \o s ELSE IF width > 0 THEN <<"+">> \o s ELSE s
  IN IF width = 0 THEN t ELSE leading_spaces(t, abs(width))

room(ltz, width) == abs(width) - (IF ltz \/ width > 0 THEN 1 ELSE 0)

whole_int(n, width) ==
  LET Text(s) == IF s = <<>> \/ has_error(s) THEN error_chars(abs(width)) ELSE signed(n < 0, s, width)
  IN Text(IF width = 0 THEN to_dec(abs(n)) ELSE IF room(n < 0, width) = 0 THEN <<>> ELSE sub_whole(abs(n), room(n < 0, width)))

-----------------------------------------------------------------------------
(* fixed                                                                   *)

\* the digits of x rounded half up to `after` places: none before the point
\* for x < 1, zeros after the first LongLongRealWidth
sub_fixed(x, width, after) ==
  LET Shown(s)  == [i \in DOMAIN s |-> IF i <= LongLongRealWidth THEN s[i] ELSE "0"]
      Pointed(s, before) == IF after > 0 THEN InsertAt(s, before + 1, ".") ELSE s
      Text(y, before) ==
        IF before + after + (IF after > 0 THEN 1 ELSE 0) > width THEN error_chars(width)
        ELSE Pointed(Shown(lowest(dec_floor_nat([y EXCEPT !.e = @ + after]), 10, before + after)), before)
      Rounded(y) == Text(y, IF dec_cmp(y, dec(1)) < 0 THEN 0 ELSE size(dec_floor_nat(y), 10))
  IN Rounded(dec_add(x, dec_half(dec_ten_up(-after))))

\* the places in front of the point a width of 0 gives
RECURSIVE natural_length(_, _, _)
natural_length(x, after, length) ==
  IF dec_cmp(dec_add(dec_half(dec_ten_up(-after)), x), dec_ten_up(length)) > 0
  THEN natural_length(x, after, length + 1) ELSE length

RECURSIVE fixed_dec(_, _, _, _)
fixed_dec(ltz, x, width, after) ==
  LET Full(s, length) == IF length > Len(s) /\ (s = <<>> \/ s[1] = ".") /\ dec_cmp(x, dec(1)) < 0
                         THEN <<"0">> \o s ELSE s
      Text(s, length) == IF ~has_error(s) THEN signed(ltz, Full(s, length), width)
                         ELSE IF after > 0 THEN fixed_dec(ltz, x, width, after - 1)
                         ELSE error_chars(width)
      Fitted(length) == Text(sub_fixed(x, length, after), length)
  IN IF after < 0 \/ (width # 0 /\ room(ltz, width) <= after) THEN error_chars(width)
     ELSE Fitted(IF width # 0 THEN room(ltz, width)
                 ELSE natural_length(x, after, IF after = 0 THEN 1 ELSE 0) + (IF after = 0 THEN 0 ELSE after + 1))

-----------------------------------------------------------------------------
(* float                                                                   *)

\* y times the power of ten that leaves `before` digits in front of the
\* point, with the exponent q that makes up for it; a y that would round up
\* to one more digit becomes the next power of ten
RECURSIVE scaled(_, _, _)
scaled(y, before, q) ==
  IF dec_cmp(y, dec_ten_up(before)) >= 0 THEN scaled(dec_div10(y), before, q + 1)
  ELSE IF y.m # 0 /\ dec_cmp(y, dec_ten_up(before - 1)) < 0 THEN scaled(dec_mul10(y), before, q - 1)
  ELSE <<y, q>>

standardize(y, before, after, q) ==
  LET Carried(s) == IF dec_cmp(dec_add(dec_half(dec_ten_up(-after)), s[1]), dec_ten_up(before)) >= 0
                    THEN <<dec_ten_up(before - 1), s[2] + 1>> ELSE s
  IN Carried(scaled(y, before, q))

tmod(a, b) == IF a < 0 THEN -((-a) % b) ELSE a % b

\* move the point of z until the exponent is a multiple of frmt, or, for a
\* frmt that is not positive, until z has -frmt digits in front of the point,
\* which a zero never has: the code does not return then
RECURSIVE stepped(_, _, _, _)
stepped(z, q, after, frmt) ==
  LET less == IF after > 0 THEN after - 1 ELSE after
      more == IF after > 0 THEN after + 1 ELSE after
  IN IF frmt > 0
     THEN IF tmod(q, frmt) # 0 THEN stepped(dec_mul10(z), q - 1, less, frmt) ELSE <<z, q, after>>
     ELSE IF dec_cmp(z, dec_ten_up(-frmt - 1)) < 0 THEN stepped(dec_mul10(z), q - 1, less, frmt)
     ELSE IF dec_cmp(z, dec_ten_up(-frmt)) > 0 THEN stepped(dec_div10(z), q + 1, more, frmt)
     ELSE <<z, q, after>>

\* an exponent too wide for its place takes one place of the fraction
RECURSIVE float_dec(_, _, _, _, _, _)
float_dec(ltz, x, width, after, expo, frmt) ==
  LET before == abs(width) - abs(expo) - (IF after # 0 THEN after + 1 ELSE 0) - 2
      Joined(z) == fixed_dec(ltz, z[1], sgn(width) * (abs(width) - abs(expo) - 1), z[3])
                   \o <<"e">> \o whole_int(z[2], expo)
      Fitted(z, s) == IF expo # 0 /\ ~has_error(s) THEN s
                      ELSE float_dec(ltz, x, width, IF z[3] # 0 THEN z[3] - 1 ELSE 0,
                                     IF expo > 0 THEN expo + 1 ELSE expo - 1, frmt)
      Text(z) == Fitted(z, Joined(z))
      Stepped(y) == stepped(y[1], y[2], after, frmt)
  IN IF sgn(before) + sgn(after) <= 0 THEN error_chars(width)
     ELSE Text(Stepped(standardize(x, before, after, 0)))

-----------------------------------------------------------------------------
(* What print writes, and BITS values.                                     *)

print_int(n) == whole_int(n, IntWidth + 1)
print_real(ltz, x) == float_dec(ltz, x, RealWidth + ExpWidth + 4, RealWidth - 1, ExpWidth + 1, 1)
print_bits(v, width) ==
  [i \in 1 .. width |-> IF (v \div 2 ^ (width - i)) % 2 = 1 THEN "T" ELSE "F"]

\* the digits of v in a base, as many as width asks for; None if they do not hold it
convert_radix(v, radix, width) ==
  LET k == IF width = 0 THEN size(v, radix) ELSE width
  IN IF v \div radix ^ k # 0 THEN None ELSE lowest(v, radix, k)

-----------------------------------------------------------------------------
(* Reading numbers.                                                        *)

\* the value of digits in a base; None when one is not a digit of it
value_of(s, radix) ==
  IF \E i \in DOMAIN s : s[i] \notin ToSet(numerals) \/ digit[s[i]] >= radix THEN None
  ELSE FoldLeft(LAMBDA v, c : v * radix + digit[c], 0, s)

\* a sign, if there is one that `signs` allows, and the rest
parted(s, signs) == IF s # <<>> /\ s[1] \in signs THEN <<s[1] = "-", Tail(s)>> ELSE <<FALSE, s>>

\* only a minus may come before the digits
signed_value(ltz, v) == IF v = None THEN None ELSE IF ltz THEN -v ELSE v
number_of(p) == IF p[2] = <<>> THEN None ELSE signed_value(p[1], value_of(p[2], 10))
int_of_text(s) == number_of(parted(s, {"-"}))

from(s, i) == IF i = 0 THEN <<>> ELSE SubSeq(s, i, Len(s))
no_leading(s) == from(s, SelectInSeq(s, LAMBDA c : c # " "))

\* the C-style patterns' conversion also takes a plus and blanks in front
parse_int_text(s) == number_of(parted(no_leading(s), {"-", "+"}))

\* the longest run of digits at the front of s, and what follows it
run(s) == LET Cut(e) == IF e = 0 THEN <<s, <<>> >> ELSE <<SubSeq(s, 1, e - 1), from(s, e)>>
          IN Cut(SelectInSeq(s, LAMBDA c : c \notin decimals))

\* digits, a fraction and an exponent, as far as they go: [ltz, x]
real_of_text(s) ==
  LET fraction(i) == IF i[2] # <<>> /\ i[2][1] = "." THEN run(Tail(i[2])) ELSE <<<<>>, i[2]>>
      exponent(t) == IF t # <<>> /\ t[1] = "e" THEN parted(Tail(t), {"-", "+"}) ELSE <<FALSE, <<>> >>
      power(p)    == signed_value(p[1], value_of(run(p[2])[1], 10))
      Value(ltz, i, f) == [ltz |-> ltz, x |-> [m |-> value_of(i \o f[1], 10), e |-> power(exponent(f[2])) - Len(f[1])]]
      Parts(ltz, i) == Value(ltz, i[1], fraction(i))
      Signed(p) == Parts(p[1], run(p[2]))
  IN Signed(parted(s, {"-", "+"}))
=============================================================================
