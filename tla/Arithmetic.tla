------------------------------ MODULE Arithmetic ------------------------------
(***************************************************************************)
(* What the operators on integers, LONG REALs, bits, truth values,         *)
(* characters and rows mean (A68/Interp.lean, dyadic, monadic and          *)
(* widenValue): integers are integers, a BITS is the set of its bits (0    *)
(* the least significant), a row a sequence; a LONG REAL is the rational   *)
(* m * Radix^e, and an operation on it is exact to two or three units of   *)
(* the last digit.  Module Operators, the C runtime, implements this one.  *)
(***************************************************************************)
EXTENDS Integers, Sequences, FiniteSetsExt

CONSTANTS
  Largest,   \* the largest integer of each length
  Width,     \* the bits of a BITS of each length
  MaxChar,
  Radix,     \* of the digits of a LONG REAL, which SHORTEN of a LONG INT works on too
  MpDigits,  \* digits of a LONG REAL of each length
  MaxExpo    \* and the largest exponent

VARIABLES
  cell,      \* [m |-> mode, v |-> value] of the variable
  stack,     \* the operands of the formula, each [m |-> mode, v |-> value]
  op         \* its operator, or "none"

vars == <<cell, stack, op>>

Of(t, v) == [tag |-> t, v |-> v]
Died  == Of("died", 0)
Undef == Of("undef", 0)
Bool(p) == Of("bool", p)
Number(n, i) == IF i \in -Largest[n] .. Largest[n] THEN Of("int", i) ELSE Died

Mag(x) == IF x < 0 THEN -x ELSE x
Sign(x) == CASE x < 0 -> -1 [] x = 0 -> 0 [] x > 0 -> 1
Quotient(x, y) == Sign(x) * Sign(y) * (Mag(x) \div Mag(y))
\* x to the k, as far as it stays within lim
Power(x, k, lim) ==
  LET p[i \in Nat] == IF i = 0 THEN 1 ELSE LET q == p[i - 1] IN IF Mag(q) > lim THEN q ELSE x * q
  IN IF Mag(x) <= 1 THEN (IF k = 0 THEN 1 ELSE IF k % 2 = 0 THEN x * x ELSE x) ELSE p[k]

BitSum(s) == MapThenSumSet(LAMBDA i : 2 ^ i, s)
BitSet(w, i) == {b \in 0 .. w - 1 : (i \div 2 ^ b) % 2 = 1}
AllBits(n) == 0 .. Width[n] - 1
Shift(n, s, k) == {i + k : i \in s} \cap (IF k >= 0 THEN AllBits(n) ELSE Nat)

Before(x, y) ==   \* the order of strings
  \E n \in 0 .. Len(x) :
    /\ n <= Len(y) /\ \A i \in 1 .. n : x[i] = y[i]
    /\ IF n = Len(x) THEN n < Len(y) ELSE n < Len(y) /\ x[n + 1].v < y[n + 1].v
Compare(o, lt, eq) ==
  Bool(CASE o = "=" -> eq [] o = "/=" -> ~eq [] o = "<" -> lt [] o = "<=" -> lt \/ eq
         [] o = ">" -> ~lt /\ ~eq [] o = ">=" -> ~lt)

Row(l, e) == Of("row", [l |-> l, e |-> e])
Copies(e, k) == [i \in 1 .. Len(e) * (IF k > 0 THEN k ELSE 0) |-> e[((i - 1) % Len(e)) + 1]]

-----------------------------------------------------------------------------
Int2(o, n, x, y) ==
  CASE o = "+" -> Number(n, x + y)
    [] o = "-" -> Number(n, x - y)
    [] o = "*" -> Number(n, x * y)
    [] o \in {"%", "%*"} /\ y = 0 -> Died
    [] o = "%" /\ y # 0 -> Of("int", Quotient(x, y))
    [] o = "%*" /\ y # 0 -> Of("int", x % Mag(y))
    [] o = "**" /\ y >= 0 -> Number(n, Power(x, y, Largest[n]))
    [] o = "**" /\ y < 0 -> IF n > 0 /\ Mag(x) = 1 THEN Of("int", IF y % 2 = 0 THEN 1 ELSE x) ELSE Died
    [] OTHER -> Compare(o, x < y, x = y)

Bits2(o, n, x, y) ==
  CASE o = "AND" -> Of("bits", x \cap y)
    [] o = "OR"  -> Of("bits", (x \cup y) \cap AllBits(n))
    [] o = "XOR" -> Of("bits", ((x \ y) \cup (y \ x)) \cap AllBits(n))
    [] o = "<="  -> Bool(x \subseteq y)
    [] o = ">="  -> Bool(y \subseteq x)
    [] OTHER     -> Compare(o, FALSE, x = y)

Dyadic(o, m1, m2, x, y) ==
  LET kk == <<m1.k, m2.k>>
  IN CASE kk = <<"INT", "INT">> -> Int2(o, m1.len, x, y)
       [] kk = <<"BITS", "BITS">> -> Bits2(o, m1.len, x, y)
       [] kk = <<"BITS", "INT">> ->
            IF Mag(y) > Width[m1.len] THEN Died
            ELSE Of("bits", Shift(m1.len, x, IF o = "SHL" THEN y ELSE -y))
       [] kk = <<"INT", "BITS">> ->
            IF x \in 1 .. Width[m2.len] THEN Bool(Width[m2.len] - x \in y) ELSE Died
       [] kk = <<"BOOL", "BOOL">> ->
            Bool(CASE o = "AND" -> x /\ y [] o = "OR" -> x \/ y [] o = "=" -> x = y [] OTHER -> x # y)
       [] kk = <<"CHAR", "CHAR">> -> Compare(o, x < y, x = y)
       [] kk = <<"STRING", "STRING">> ->
            IF o = "+" THEN Row(1, x.e \o y.e)
            ELSE IF \E i \in DOMAIN (x.e \o y.e) : (x.e \o y.e)[i] = Undef THEN Died
            ELSE Compare(o, Before(x.e, y.e), x.e = y.e)
       [] kk = <<"STRING", "INT">> -> Row(1, Copies(x.e, y))
       [] kk = <<"INT", "STRING">> /\ o = "*" -> Row(1, Copies(y.e, x))
       [] m1.k = "INT" /\ o \in {"LWB", "UPB"} ->
            IF x # 1 THEN Died ELSE Of("int", IF o = "LWB" THEN y.l ELSE y.l + Len(y.e) - 1)
       [] kk = <<"ROW", "ROW">> -> Compare(o, FALSE, x.e = y.e)

(* SHORTEN of a LONG INT: exact while the result is an INT; beyond, the 32-bit weights of its
   digits wrap, and the result is an error or an integer of the first word's digits *)
Shortened(x) == IF Mag(x) <= Largest[0] THEN {Of("int", x)}
                ELSE {Died} \cup [tag : {"int"}, v : -Largest[0] .. Largest[0]]

Int1(o, n, x) ==
  CASE o = "-" -> {Number(n, -x)}
    [] o \in {"+", "LENG"} -> {Of("int", x)}
    [] o = "ABS" -> {Of("int", Mag(x))}
    [] o = "SIGN" -> {Of("int", Sign(x))}
    [] o = "ODD" -> {Bool(x % 2 = 1)}
    [] o = "REPR" -> {IF x \in 0 .. MaxChar THEN Of("char", x) ELSE Died}
    [] o = "BIN" -> {IF x \in 0 .. (2 ^ Width[n]) - 1 THEN Of("bits", BitSet(Width[n], x)) ELSE Died}
    [] o = "SHORTEN" -> IF n = 1 THEN Shortened(x) ELSE {Number(n - 1, x)}

Bits1(o, n, x) ==
  LET top == 2 ^ (Width[0] - 1)
      i   == BitSum(x)
  IN CASE o = "ABS" -> {Of("int", IF n = 0 /\ i >= top THEN i - 2 * top ELSE i)}
       [] o = "NOT" -> {Of("bits", AllBits(n) \ x)}
       [] o = "SHORTEN" -> {Of("bits", x \cap AllBits(n - 1))}
       \* LENG takes a BITS for an INT of one or two digits, keeping as many
       [] o = "LENG" -> {Of("bits", IF n > 0 \/ i < top THEN x
                                    ELSE BitSet(Width[1], i % (IF 2 * top - i < Radix THEN Radix ELSE Radix * Radix)))}
       [] o = "BOOLS" -> {Row(1, [j \in 1 .. Width[n] |-> Bool(Width[n] - j \in x)])}

Monadic(o, m, x) ==
  CASE m.k = "INT"  -> Int1(o, m.len, x)
    [] m.k = "BITS" -> Bits1(o, m.len, x)
    [] m.k = "CHAR" -> {Of("int", x)}
    [] m.k = "BOOL" -> {IF o = "NOT" THEN Bool(~x) ELSE Of("int", IF x THEN 1 ELSE 0)}
    [] m.k \in {"STRING", "ROW"} ->
        {Of("int", CASE o = "LWB" -> x.l [] o = "UPB" -> x.l + Len(x.e) - 1 [] o = "ELEMS" -> Len(x.e))}

(* the operator an assigning one applies *)
Plain(o) == CASE o \in {"+:=", "+=:"} -> "+" [] o = "-:=" -> "-" [] o = "*:=" -> "*" [] o = "%:=" -> "%"
              [] o = "%*:=" -> "%*" [] o = "/:=" -> "/" [] o = "&:=" -> "AND" [] o = "|:=" -> "OR" [] OTHER -> o

-----------------------------------------------------------------------------
(* LONG REALs, [st |-> status, m |-> mantissa, e |-> exponent]; z is the value given *)

Up(k) == IF k > 0 THEN Radix ^ k ELSE 1
Digits(m) == CHOOSE k \in 1 .. 12 : Mag(m) < Radix ^ k /\ (k = 1 \/ Mag(m) >= Radix ^ (k - 1))
Expo(m, e) == e + Digits(m) - 1

\* num / den * Radix^e: not zero, and too large or too small, or nearly so
OutOfRange(num, den, e) ==
  LET m == (Mag(num) * (IF den = 1 THEN 1 ELSE Radix ^ 4)) \div den
      E == Expo(m, IF den = 1 THEN e ELSE e - 4)
      lead == (m * Up(2 - Digits(m))) \div Up(Digits(m) - 2)     \* the first two digits
  IN m # 0 /\ (Mag(E) > MaxExpo \/ (Mag(E) = MaxExpo /\ lead >= 2 * Radix - 1))

\* within two units of the last digit, three for a quotient: rounding adds up to two
Near(z, num, den, e) ==
  LET exact == num * Up(e - z.e)
      given == z.m * den * Up(z.e - e)
      units == CASE num = 0 -> 0 [] num # 0 /\ den = 1 -> 2 [] OTHER -> 3
  IN z.st = "num" /\ (z.m = 0) = (num = 0) /\ Mag(exact - given) <= units * den * Up(z.e - e)
Answer(z, num, den, e) ==
  IF z = Died THEN OutOfRange(num, den, e) ELSE z.tag = "real" /\ Near(z.v, num, den, e)

\* an infinite or undefined operand leaves the answer open
Real2(o, x, y, z) ==
  LET e   == IF x.e < y.e THEN x.e ELSE y.e
      xm  == x.m * Up(x.e - e)
      ym  == y.m * Up(y.e - e)
  IN CASE {x.st, y.st} # {"num"} -> TRUE
       [] {x.st, y.st} = {"num"} /\ o = "+" -> Answer(z, xm + ym, 1, e)
       [] {x.st, y.st} = {"num"} /\ o = "-" -> Answer(z, xm - ym, 1, e)
       [] {x.st, y.st} = {"num"} /\ o = "*" -> Answer(z, x.m * y.m, 1, x.e + y.e)
       [] {x.st, y.st} = {"num"} /\ o = "/" ->
            CASE y.m # 0 -> Answer(z, Sign(y.m) * x.m, Mag(y.m), x.e - y.e)
              [] y.m = 0 /\ x.m = 0 -> z = Died
              [] OTHER -> z.v.st = IF x.m > 0 THEN "pinf" ELSE "minf"
       [] OTHER -> z = Compare(o, xm < ym, xm = ym) \/ (z = Died /\ OutOfRange(xm - ym, 1, e))

Real1(o, n, x, z) ==
  LET one   == Up(-x.e)                \* as a mantissa of the same scale
      whole == (x.m * Up(x.e)) \div one
      full  == Expo(x.m, x.e) - MpDigits[n]
  IN CASE x.st # "num" -> TRUE
       [] x.st = "num" /\ o \in {"-", "+", "ABS"} ->
            z.v = [x EXCEPT !.m = CASE o = "-" -> -x.m [] o = "+" -> x.m [] o = "ABS" -> Mag(x.m)]
       [] x.st = "num" /\ o = "SIGN" -> z = Of("int", Sign(x.m))
       [] x.st = "num" /\ o = "SHORTEN" -> Answer(z, x.m, 1, x.e)
       [] x.st = "num" /\ o = "LENG" -> z.v = [x EXCEPT !.m = Radix * x.m, !.e = x.e - 1]
       [] x.st = "num" /\ o = "ENTIER" ->
            IF z = Died THEN full >= 0 \/ OutOfRange(x.m % one, 1, x.e) ELSE z = Of("int", whole)
       \* a whole number that fills the digits is raised by one or two
       [] x.st = "num" /\ o = "ROUND" ->
            CASE z = Died  -> full >= -1
              [] z # Died /\ full >= -1 -> z.tag = "int" /\ z.v - whole \in {Sign(x.m), 2 * Sign(x.m)}
              [] OTHER     -> z = Of("int", Sign(x.m) * ((2 * Mag(x.m) * Up(x.e) + one) \div (2 * one)))

RealOf(n, i, z) ==
  IF z = Died THEN Digits(i) > MpDigits[n] \/ OutOfRange(i, 1, 0)
  ELSE z.v.st = "num" /\ z.v.m = i * Up(-z.v.e)

RealOutcome(z) ==
  /\ Died \notin {stack[i].v : i \in DOMAIN stack}
  /\ \E x \in {stack[1].v.v}, n \in {stack[1].m.len} :
       CASE stack[1].m.k = "INT" -> op = "REAL" /\ RealOf(n, x, z)
         [] stack[1].m.k = "REAL" /\ Len(stack) = 1 -> Real1(op, n, x, z)
         [] stack[1].m.k = "REAL" /\ Len(stack) = 2 -> Real2(Plain(op), x, stack[2].v.v, z)
         [] OTHER -> FALSE

-----------------------------------------------------------------------------
Outcomes ==
  IF \E i \in DOMAIN stack : stack[i].v = Undef THEN {Died}
  ELSE IF Len(stack) = 1 THEN UNION {Monadic(op, stack[1].m, x) : x \in {stack[1].v.v}}
  ELSE {Dyadic(Plain(op), stack[1].m, stack[2].m, x, y) : x \in {stack[1].v.v}, y \in {stack[2].v.v}}

-----------------------------------------------------------------------------
Init == op = "none" /\ stack = <<>>

\* a formula whose operands are the variable and denotations
Fetch == op = "none" /\ op' # "none" /\ UNCHANGED cell

\* its value, assigned to the variable
Apply == op # "none" /\ op' = "none" /\ stack' = <<>> /\
         IF "REAL" \in {op, stack[1].m.k} THEN RealOutcome(cell'.v) ELSE cell'.v \in Outcomes

Next == Fetch \/ Apply
Spec == Init /\ [][Next]_vars
=============================================================================
