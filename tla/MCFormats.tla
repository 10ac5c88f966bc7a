----------------------------- MODULE MCFormats -----------------------------
(* Texts that exercise each kind of item, alone and nested, and values of   *)
(* every mode, some of which their patterns cannot hold.                    *)
EXTENDS Formats

Lit(c) == [k |-> "lit", s |-> <<c>>]
I(k) == [k |-> k]
Rep(n, f) == [k |-> "rep", n |-> n, item |-> f]
Group(items) == [k |-> "group", items |-> items]
Incl(items) == [k |-> "include", ins |-> FALSE, items |-> items]
G(k, args) == [k |-> k, ins |-> FALSE, args |-> args]
C(letter, w, a, plus, left) == [k |-> "cpat", ins |-> FALSE, letter |-> letter, w |-> w, a |-> a, plus |-> plus, left |-> left]
Yes == [k |-> "bool", ins |-> FALSE, flip |-> <<"y">>, flop |-> <<"n">>]
Choice == [k |-> "choice", ins |-> FALSE, alts |-> <<<<"u">>, <<"u", "v">>>>]

z == I("z")  d == I("d")  plus == I("plus")  minus == I("minus")  point == I("point")
a == I("a")  nl == I("nl")  sep == I("sep")

MCTexts == {
  <<Lit("x"), d, Lit("y")>>,                                     \* insertions around
  <<d, Lit("/"), z, d, sep, Lit("q"), Rep(2, Group(<<d>>)), nl>>, \* collections
  <<Incl(<<Lit("i"), d, Lit("k")>>), sep, minus, d, nl>>,         \* a format included
  <<d, sep, Incl(<<Lit("t"), Incl(<<nl>>)>>)>>,                   \* and with nothing but insertions
  <<z, Lit(","), z, minus, d>>,                                  \* zeros and their insertions blank
  <<Rep(2, z), plus, d, Lit(";")>>, <<z, plus>>,
  <<minus, z, d, point, d, Lit("x")>>, <<minus, d, point, d, I("e"), minus, d>>,
  <<Rep(2, a), Lit("-"), a>>, <<Rep(-1, a), nl, Yes, nl>>, <<Choice, Lit("x")>>,
  <<Rep(2, I("radix")), z, Rep(2, d)>>,
  <<Rep(3, I("col")), d, nl>>,
  <<G("general", <<>>), nl>>, <<G("general", <<3>>), Lit(" ")>>, <<G("general", <<4, 1>>), sep, G("hgen", <<>>)>>,
  <<C("d", 3, None, FALSE, FALSE)>>, <<C("d", 3, None, TRUE, TRUE)>>, <<C("x", None, None, FALSE, FALSE), nl>>, <<C("g", None, 1, TRUE, FALSE), Lit(" ")>>,
  <<Lit("x")>>, <<>> }

Num(n) == [m |-> "int", v |-> n]
Real(neg, n) == [m |-> "real", neg |-> neg, v |-> [m |-> n, e |-> -1]]
Str(s) == [m |-> "string", v |-> s]
Bit(n) == [m |-> "bits", v |-> n]
Bool(b) == [m |-> "bool", v |-> b]
MCValues == {Num(-3), Num(0), Num(2), Num(12), Real(FALSE, 15), Real(TRUE, 996), Str(<<"p", " ", "q">>),
             Bit(5), Bool(TRUE), [m |-> "row", v |-> <<Num(1), [m |-> "struct", v |-> <<Num(2)>>]>>]}

F(t) == [k |-> "format", items |-> t]
V(v) == [k |-> "value", v |-> v]
One == {<<F(t), V(v)>> : t \in MCTexts, v \in MCValues}
Two == {<<F(t), V(v), V(w)>> : t \in MCTexts, v \in MCValues, w \in MCValues}
\* enough digits to go round a collection, and one format after another
Round == {<<F(t), V(Num(n)), V(Num(2)), V(Num(n)), V(Num(2))>> : t \in MCTexts, n \in {0, 2}}
Pair == {<<F(t), V(Num(2)), F(u), V(Num(0))>> : t \in MCTexts, u \in MCTexts}
\* every short mould of an integral pattern, with one sign at most
Frames == UNION {[1 .. k -> {z, d, minus, Lit(",")}] : k \in 1 .. 5}
Moulds == {<<F(t), V(Num(n))>> : t \in {f \in Frames : count(f, minus) <= 1}, n \in {-3, 0, 2, 12}}
MCScripts == Moulds \cup One \cup Two \cup Round \cup Pair
=============================================================================
