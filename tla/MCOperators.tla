----------------------------- MODULE MCOperators -----------------------------
(* Words of 8 bits, limbs of 4: an INT is within 7, a LONG INT has 3 digits and a LONG LONG
   INT 4, so that numbers of up to four limbs, beside words, meet every operator. *)
EXTENDS Operators

MCLongDigits == (1 :> 3) @@ (2 :> 4)
MCWidth      == (0 :> 4) @@ (1 :> 9) @@ (2 :> 13)

MCMpDigits   == (1 :> 4) @@ (2 :> 5)

Text(neg, d) == [tag |-> "bigint", v |-> [neg |-> neg, d |-> d]]
Lits(k, n, vs) == {[m |-> Mode(k, n), v |-> v] : v \in vs}
Reals(s) == {Real(z) : z \in s}
Words(s) == {mk_int(i) : i \in s}
Chars(l, s) == mk_row(l, [i \in DOMAIN s |-> mk_char(s[i])])

MCLiterals ==
  UNION {Lits("INT", 0, Words({0, 1, 2, 3, 7, -2, -7}) \cup {Undef}),
         Lits("INT", 1, Words({0, 1, -1, 7, 16, 127, -128}) \cup {Text(FALSE, <<1, 2, 8>>), Text(TRUE, <<9, 9, 9>>)}),
         Lits("INT", 2, Words({3, -16, 100}) \cup {Text(FALSE, <<9, 9, 9, 9>>), Text(TRUE, <<4, 0, 9, 6>>)}),
         Lits("REAL", 1, Reals({Mp("num", 0, <<0, 0, 0, 0>>), Mp("num", 3, <<1, 0, 0, 0>>), Mp("num", -1, <<2, 0, 0, 1>>),
                                Mp("num", 2, <<5, 5, 5, 5>>), Mp("num", -2, <<3, 0, 0, 0>>), Mp("num", 2, <<-1, 0, 4, 3>>),
                                Mp("minf", 0, <<2, 0, 0, 0>>)})),
         Lits("REAL", 2, Reals({Mp("num", 2, <<5, 5, 5, 5, 5>>), Mp("num", -2, <<3, 0, 0, 0, 0>>), Mp("num", 0, <<2, 0, 0, 0, 0>>),
                                Mp("num", 0, <<-1, 3, 0, 5, 2>>), Mp("num", -1, <<4, 3, 2, 1, 0>>)})),
         Lits("BITS", 0, {mk_bits(u) : u \in {0, 5, 8, 15}}),
         Lits("BITS", 1, {mk_bits(u) : u \in {9, 130}} \cup {Tagged("bigbits", [neg |-> FALSE, d |-> <<5, 0, 1>>])}),
         Lits("BITS", 2, {Tagged("bigbits", [neg |-> FALSE, d |-> <<4, 0, 9, 7>>])}),
         Lits("BOOL", 0, {mk_bool(FALSE), mk_bool(TRUE)}),
         Lits("CHAR", 0, {mk_char(0), mk_char(3)}),
         Lits("STRING", 0, {Chars(1, <<>>), Chars(1, <<2>>), Chars(0, <<2, 1>>), mk_row(1, <<mk_char(2), Undef>>)}),
         Lits("ROW", 0, {mk_row(1, <<mk_int(-7), Text(FALSE, <<1, 2, 8>>)>>)})}
=============================================================================
