-------------------------------- MODULE BigInt --------------------------------
(***************************************************************************)
(* Integers of any size (csrc/bigint.c): a sign and a little-endian        *)
(* sequence of limbs without leading zeros; zero has no limbs and is never *)
(* negative.  Storage and its release are left out: a number is a value.   *)
(*                                                                         *)
(* The text of a number is [neg |-> its sign, d |-> its digits].           *)
(***************************************************************************)
EXTENDS Integers, Sequences, SequencesExt

CONSTANTS
  LimbBits,   \* bits of a limb: 32 in the code
  Chunk       \* decimal digits multiplied in or peeled off at once: 9 in the code

ASSUME LimbSize == LimbBits \in Nat \ {0} /\ Chunk \in Nat \ {0} /\ 10 ^ Chunk < 2 ^ LimbBits

B == 2 ^ LimbBits
WordHalf == (B * B) \div 2      \* a machine word is two limbs, from -WordHalf up

UpTo(n) == [i \in 1 .. n |-> i]
At(a, i) == IF i \in DOMAIN a THEN a[i] ELSE 0

(* The loop of every operation on limbs: total(i, c) is limb i of the result and what is
   carried on; a negative total borrows. *)
Ripple(n, carry, total(_, _)) ==
  FoldLeft(LAMBDA x, i : LET t == total(i, x.c) IN [r |-> Append(x.r, t % B), c |-> t \div B],
           [r |-> <<>>, c |-> carry], UpTo(n))
Whole(x) == Append(x.r, x.c)

Stripped(a) == SubSeq(a, 1, SelectLastInSeq(a, LAMBDA l : l # 0))
big_copy_mag(a, neg) == [neg |-> neg /\ a.limb # <<>>, limb |-> a.limb]
big_trim(neg, a) == big_copy_mag([limb |-> Stripped(a)], neg)

-----------------------------------------------------------------------------
(* magnitudes *)

mag_cmp(a, b) ==
  LET d == SelectLastInSeq(UpTo(Len(a)), LAMBDA i : a[i] # At(b, i))
  IN CASE Len(a) # Len(b) -> IF Len(a) < Len(b) THEN -1 ELSE 1
       [] d = 0 -> 0
       [] OTHER -> IF a[d] < b[d] THEN -1 ELSE 1

CarryKept(a, b) ==                      \* slip: the last carry is dropped
  Ripple(IF Len(a) > Len(b) THEN Len(a) ELSE Len(b), 0, LAMBDA i, c : At(a, i) + At(b, i) + c).r
mag_add(a, b) ==
  Whole(Ripple(IF Len(a) > Len(b) THEN Len(a) ELSE Len(b), 0, LAMBDA i, c : At(a, i) + At(b, i) + c))

mag_sub(a, b) == Ripple(Len(a), 0, LAMBDA i, c : a[i] + c - At(b, i)).r

mag_mul(a, b) ==
  FoldLeft(LAMBDA r, i :
             SubSeq(r, 1, i - 1) \o Whole(Ripple(Len(b), 0, LAMBDA j, c : a[i] * b[j] + r[i + j - 1] + c))
               \o SubSeq(r, i + Len(b) + 1, Len(r)),
           [k \in 1 .. Len(a) + Len(b) |-> 0], UpTo(Len(a)))

mag_mul_add_small(a, k, c) ==
  LET Grown(x) == IF x.c = 0 THEN x.r ELSE Whole(x) IN Grown(Ripple(Len(a), c, LAMBDA i, cc : a[i] * k + cc))

(* the quotient and, as a number, the remainder *)
mag_div_small(a, d) ==
  FoldRight(LAMBDA l, x : LET cur == x.rem * B + l IN [q |-> <<cur \div d>> \o x.q, rem |-> cur % d],
            a, [q |-> <<>>, rem |-> 0])

clz32(x) == CHOOSE n \in 0 .. LimbBits : x * 2 ^ n < B /\ (n = LimbBits \/ x * 2 ^ n >= B \div 2)

(* One digit of the quotient, guessed from the top limbs and corrected downwards: the loop
   stops when the guess passes the test or the remainder has left a limb. *)
GuessUntested(num, v1, v2, next) == num \div v1   \* slip: no test against the second limb
qhat(num, v1, v2, next) ==
  LET Over(k)  == \/ num \div v1 - k >= B
                  \/ (num \div v1 - k) * v2 > ((num % v1) + k * v1) * B + next
      Stops(k) == ~Over(k) \/ (k > 0 /\ (num % v1) + k * v1 >= B)
  IN num \div v1 - (CHOOSE k \in 0 .. B : Stops(k) /\ \A i \in 0 .. k - 1 : ~Stops(i))

(* One step of the division: the digit of weight B^jj (jj from 0), and what is left of un.
   A guess still one too large leaves the top limb negative: the divisor is added back. *)
Guessed(un, vn, jj) ==
  LET n == Len(vn) IN qhat(un[jj + n + 1] * B + un[jj + n], vn[n], vn[n - 1], un[jj + n - 1])
Replaced(un, jj, n, x) == SubSeq(un, 1, jj) \o Append(x.r, un[jj + n + 1] + x.c)
Subtracted(un, vn, jj, q) ==
  Replaced(un, jj, Len(vn), Ripple(Len(vn), 0, LAMBDA i, c : un[jj + i] - q * vn[i] + c))
Wrapped(un) == [un EXCEPT ![Len(un)] = @ % B]
DigitNotRestored(un, vn, jj, q) == [q |-> q % B, un |-> Wrapped(un)]    \* slip: nothing is added back
Restored(un, vn, jj, q) ==
  IF un[jj + Len(vn) + 1] >= 0 THEN [q |-> q, un |-> un]
  ELSE [q |-> q - 1,
        un |-> Wrapped(Replaced(un, jj, Len(vn), Ripple(Len(vn), 0, LAMBDA i, c : un[jj + i] + vn[i] + c)))]
DivDigit(un, vn, jj) ==
  LET With(q) == Restored(Subtracted(un, vn, jj, q), vn, jj, q) IN With(Guessed(un, vn, jj))

(* Knuth's algorithm D: u and v shifted so that the top limb of v has its high bit set *)
mag_divmod(u, v) ==
  LET s  == clz32(v[Len(v)])
      vn == Ripple(Len(v), 0, LAMBDA i, c : v[i] * 2 ^ s + c).r
      un == Whole(Ripple(Len(u), 0, LAMBDA i, c : u[i] * 2 ^ s + c))
      Put(x, y) == [q |-> <<y.q>> \o x.q, un |-> y.un]
      Unshifted(z) ==
        [q |-> z.q,
         rem |-> [i \in 1 .. Len(v) |-> (z.un[i] \div 2 ^ s) + ((z.un[i + 1] * (B \div 2 ^ s)) % B)]]
  IN Unshifted(FoldRight(LAMBDA j, x : Put(x, DivDigit(x.un, vn, j - 1)),
                         UpTo(Len(u) - Len(v) + 1), [q |-> <<>>, un |-> un]))

-----------------------------------------------------------------------------
(* conversions *)

Magnitude(v) == IF v < 0 THEN -v ELSE v
big_from_i64(v) == big_trim(v < 0, <<Magnitude(v) % B, Magnitude(v) \div B>>)

big_from_dec(t) ==
  big_trim(t.neg, FoldLeft(LAMBDA a, c : mag_mul_add_small(a, 10, c), <<>>, t.d))

DigitsShort(chunk, last) ==             \* slip: every chunk drops its leading zeros
  LET n == CHOOSE k \in 1 .. Chunk : chunk < 10 ^ k /\ (k = 1 \/ chunk >= 10 ^ (k - 1))
  IN [k \in 1 .. n |-> (chunk \div 10 ^ (k - 1)) % 10]

(* the digits of a chunk, least significant first; of the last one only those it has *)
Digits(chunk, last) ==
  LET n == IF last THEN CHOOSE k \in 1 .. Chunk : chunk < 10 ^ k /\ (k = 1 \/ chunk >= 10 ^ (k - 1))
           ELSE Chunk
  IN [k \in 1 .. n |-> (chunk \div 10 ^ (k - 1)) % 10]

Peeled[a \in Seq(Nat)] ==
  LET x == mag_div_small(a, 10 ^ Chunk)
      q == Stripped(x.q)
  IN IF a = <<>> THEN <<>> ELSE Digits(x.rem, q = <<>>) \o Peeled[q]
big_to_dec(a) ==
  [neg |-> a.neg, d |-> IF a.limb = <<>> THEN <<0>> ELSE Reverse(Peeled[a.limb])]
big_ndigits(a) == Len(big_to_dec(a).d)

LowWord(a) == At(a.limb, 1) + At(a.limb, 2) * B
big_fits_i64(a) ==
  Len(a.limb) <= 2 /\ IF a.neg THEN LowWord(a) <= WordHalf ELSE LowWord(a) < WordHalf

(* two's complement of the low word *)
word(v) == ((v + WordHalf) % (2 * WordHalf)) - WordHalf
big_to_i64(a) == word(IF a.neg THEN -LowWord(a) ELSE LowWord(a))

-----------------------------------------------------------------------------
(* signed arithmetic *)

add_signed(a, aneg, b, bneg) ==
  CASE aneg = bneg -> big_trim(aneg, mag_add(a.limb, b.limb))
    [] aneg # bneg /\ mag_cmp(a.limb, b.limb) >= 0 -> big_trim(aneg, mag_sub(a.limb, b.limb))
    [] OTHER -> big_trim(bneg, mag_sub(b.limb, a.limb))
big_add(a, b) == add_signed(a, a.neg, b, b.neg)
big_sub(a, b) == add_signed(a, a.neg, b, ~b.neg)

big_mul(a, b) == big_trim(a.neg # b.neg, mag_mul(a.limb, b.limb))

(* truncating division, the remainder with the sign of a; not asked for b = 0 *)
big_divmod(a, b) ==
  LET WithSigns(x) == [q |-> big_trim(a.neg # b.neg, x.q), rem |-> big_trim(a.neg, x.rem)]
      Short(y) == [q |-> y.q, rem |-> <<y.rem>>]
  IN WithSigns(CASE mag_cmp(a.limb, b.limb) < 0 -> [q |-> <<>>, rem |-> a.limb]
                 [] mag_cmp(a.limb, b.limb) >= 0 /\ Len(b.limb) = 1 -> Short(mag_div_small(a.limb, b.limb[1]))
                 [] OTHER -> mag_divmod(a.limb, b.limb))

big_pow10(n) ==
  LET steps == [i \in 1 .. n \div Chunk |-> 10 ^ Chunk] \o [i \in 1 .. n % Chunk |-> 10]
  IN big_trim(FALSE, FoldLeft(LAMBDA a, k : mag_mul_add_small(a, k, 0), <<1>>, steps))

big_sign(a) == CASE a.limb = <<>> -> 0 [] a.neg -> -1 [] OTHER -> 1
big_is_zero(a) == a.limb = <<>>
big_cmp(a, b) ==
  CASE big_sign(a) # big_sign(b) -> IF big_sign(a) < big_sign(b) THEN -1 ELSE 1
    [] big_sign(a) = big_sign(b) -> big_sign(a) * mag_cmp(a.limb, b.limb)
big_neg(a) == big_copy_mag(a, ~a.neg)
big_abs(a) == big_copy_mag(a, FALSE)

-----------------------------------------------------------------------------
(* The integer a number stands for, and the form every number has. *)
ValueOf(a) ==
  (IF a.neg THEN -1 ELSE 1) * FoldRight(LAMBDA l, x : x * B + l, a.limb, 0)
Canonical(a) ==
  /\ \A i \in DOMAIN a.limb : a.limb[i] \in 0 .. B - 1
  /\ a.limb = <<>> \/ a.limb[Len(a.limb)] # 0
  /\ a.neg => a.limb # <<>>
=============================================================================
