------------------------------ MODULE Formats ------------------------------
(***************************************************************************)
(* Formatted transput of csrc/io.c: a format text is expanded to pictures, *)
(* printf/putf writes each value with the next pattern and getf reads what *)
(* was written back with the same formats.  The program is a script of     *)
(* formats and values given to one putf call and then to one getf call.    *)
(* The file is the text written; its table, moods and events are           *)
(* Transput's.                                                             *)
(***************************************************************************)
EXTENDS NumberText

CONSTANTS Scripts,  \* what a program may give to putf: formats and values in order
          BitsWidth

VARIABLES script,   \* what it gives
          st,       \* the formats being used, innermost last
          text,     \* what was written
          passed,   \* the pictures given so far
          at,       \* where the reading has come to in text
          got,      \* the values read
          turn,     \* what is taken next of the script
          pc        \* "writing", "reading", "done", "error" or "misread"

vars == <<script, st, text, passed, at, got, turn, pc>>

-----------------------------------------------------------------------------
(* Expanding a format text to pictures.  Frames gather in pend, the        *)
(* insertions after them in pins, until something that is no frame ends    *)
(* the pattern.                                                            *)

frame_of(k) == [k |-> k]
b_ins(b, s) == [b EXCEPT !.pics = Append(@, [k |-> "ins", ins |-> TRUE, s |-> s])]
b_flush(b) ==
  [pics |-> b.pics \o (IF b.pend = <<>> THEN <<>> ELSE <<[k |-> "pattern", ins |-> FALSE, fr |-> b.pend]>>)
                   \o [i \in DOMAIN b.pins |-> [k |-> "ins", ins |-> TRUE, s |-> b.pins[i].s]],
   pend |-> <<>>, pins |-> <<>>]
b_add_frame(b, fr) == [b EXCEPT !.pend = @ \o b.pins \o <<fr>>, !.pins = <<>>]
b_add_ins(b, s) == IF b.pend = <<>> THEN b_ins(b, s)
                   ELSE [b EXCEPT !.pins = Append(@, [k |-> "ins", s |-> s])]
b_pic(b, p) == LET f == b_flush(b) IN [f EXCEPT !.pics = Append(@, p)]

nat_of(k) == IF k < 0 THEN 0 ELSE k

RECURSIVE walk_one(_, _), walk_format(_, _)
walk_one(b, f) ==
  CASE f.k = "lit"  -> b_add_ins(b, f.s)
    [] f.k = "nl"   -> b_ins(b_flush(b), <<"\n">>)
    [] f.k = "sp"   -> b_add_ins(b, <<" ">>)
    [] f.k \in {"z", "d", "plus", "minus", "point", "e", "a"} -> b_add_frame(b, frame_of(f.k))
    [] f.k = "rep"  -> CASE f.item.k = "col"   -> b_pic(b, [k |-> "col", ins |-> TRUE, col |-> nat_of(f.n)])
                         [] f.item.k = "radix" -> b_add_frame(b, [k |-> "radix", radix |-> nat_of(f.n)])
                         [] OTHER -> walk_format(b, [i \in 1 .. nat_of(f.n) |-> f.item])
    [] f.k = "group" -> b_flush(walk_format(b_flush(b), f.items))
    [] f.k = "sep"  -> b_flush(b)
    [] f.k \in {"general", "hgen", "cpat", "bool", "choice", "include"} -> b_pic(b, [f EXCEPT !.ins = FALSE])
walk_format(b, items) == IF items = <<>> THEN b ELSE walk_format(walk_one(b, Head(items)), Tail(items))

NeverEmbedded(items, embedded) ==   \* slip
  [pics |-> b_flush(walk_format([pics |-> <<>>, pend |-> <<>>, pins |-> <<>>], items)).pics,
   cursor |-> 0, embedded |-> FALSE]

expand_format(items, embedded) ==
  [pics |-> b_flush(walk_format([pics |-> <<>>, pend |-> <<>>, pins |-> <<>>], items)).pics,
   cursor |-> 0, embedded |-> embedded]

-----------------------------------------------------------------------------
(* The next pattern.  w holds the stack, the text and the pictures given;  *)
(* pat is None at the end of the formats, exhausted when there is none.    *)

exhausted == [k |-> "exhausted"]

column(t) == Len(t) - (CHOOSE i \in 0 .. Len(t) : (i = 0 \/ t[i] = "\n") /\ \A j \in i + 1 .. Len(t) : t[j] # "\n")

top(w) == Last(w.st)
stepped_past(w) == [w EXCEPT !.st[Len(w.st)].cursor = @ + 1]
given(w, p, s) == [stepped_past(w) EXCEPT !.text = @ \o s, !.passed = Append(@, p)]

RECURSIVE next_pattern(_, _, _)
next_pattern(w, want, restarts) ==
  IF top(w).cursor < Len(top(w).pics)
  THEN LET p == top(w).pics[top(w).cursor + 1]
       IN CASE p.k = "ins" -> next_pattern(given(w, p, p.s), want, restarts)
            [] p.k = "col" -> next_pattern(given(w, p, blank(nat_of(p.col - column(w.text) - 1))), want, restarts)
            [] p.k = "include" ->
                 next_pattern([stepped_past(w) EXCEPT !.st = Append(@, expand_format(p.items, TRUE))], want, restarts)
            [] OTHER -> [given(w, p, <<>>) EXCEPT !.pat = p]
  ELSE IF top(w).embedded THEN next_pattern([w EXCEPT !.st = Front(@)], want, restarts)
  ELSE IF ~want THEN w
  ELSE IF restarts > 0 \/ top(w).pics = <<>> THEN [w EXCEPT !.pat = exhausted]
  ELSE next_pattern([w EXCEPT !.st[1].cursor = 0], want, restarts + 1)

-----------------------------------------------------------------------------
(* Writing a scalar with a pattern: the characters, or None for an error.  *)

count_zd(fr) == Len(SelectSeq(fr, LAMBDA f : f.k \in {"z", "d"}))
has_frame(fr, k) == \E i \in DOMAIN fr : fr[i].k = k
has_sign(fr) == has_frame(fr, "plus") \/ has_frame(fr, "minus")
place_of(fr, K) == SelectInSeq(fr, LAMBDA f : f.k \in K)
upto(fr, K) == LET Cut(i) == IF i = 0 THEN fr ELSE SubSeq(fr, 1, i - 1) IN Cut(place_of(fr, K))
beyond(fr, K) == LET Past(i) == IF i = 0 THEN <<>> ELSE SubSeq(fr, i + 1, Len(fr)) IN Past(place_of(fr, K))
count(s, c) == Len(SelectSeq(s, LAMBDA x : x = c))

\* a sign moves right past a zero for each z frame before the first d
shift_sign(fr, buf) ==
  LET zs == Len(SelectSeq(upto(fr, {"d"}), LAMBDA f : f.k = "z"))
      lead == CHOOSE n \in 0 .. Len(buf) - 1 :
                /\ \A i \in 2 .. n + 1 : buf[i] = "0"
                /\ (n + 2 > Len(buf) \/ buf[n + 2] # "0")
      Shifted(n) == SubSeq(buf, 2, n + 1) \o <<buf[1]>> \o SubSeq(buf, n + 2, Len(buf))
  IN IF buf[1] \notin {"+", "-"} THEN buf ELSE Shifted(IF zs < lead THEN zs ELSE lead)

SignUnderDOnly(w, f) ==   \* slip
  LET sign == f.k = "d" /\ w.buf # <<>> /\ w.buf[1] \in {"+", "-", " "}
      rest == IF sign THEN Tail(w.buf) ELSE w.buf
  IN CASE f.k = "ins" -> [w EXCEPT !.out = @ \o f.s]
       [] f.k \in {"z", "d"} /\ rest # <<>> ->
            [w EXCEPT !.out = @ \o (IF sign THEN <<w.buf[1]>> ELSE <<>>)
                              \o (IF f.k = "z" /\ rest[1] = "0" THEN <<" ">> ELSE <<rest[1]>>),
                      !.buf = Tail(rest)]
       [] OTHER -> w

\* each digit frame takes a digit and the sign before it, if there is one;
\* leading zeros under z frames become blanks and so do insertions among them
mould_frame(w, f) ==
  LET sign  == w.buf # <<>> /\ w.buf[1] \in {"+", "-", " "}
      rest  == IF sign THEN Tail(w.buf) ELSE w.buf
      zero  == f.k = "z" /\ rest[1] = "0" /\ w.digit_blank
      head  == IF sign THEN <<w.buf[1]>> ELSE <<>>
  IN CASE f.k = "ins" -> [w EXCEPT !.out = @ \o IF w.ins_blank THEN blank(Len(f.s)) ELSE f.s]
       [] f.k \in {"z", "d"} /\ rest = <<>> ->
            [w EXCEPT !.out = @ \o head, !.buf = rest,
                      !.digit_blank = @ /\ f.k = "z", !.ins_blank = @ /\ f.k = "z"]
       [] f.k \in {"z", "d"} /\ rest # <<>> ->
            [out |-> w.out \o head \o (IF zero THEN <<" ">> ELSE <<rest[1]>>), buf |-> Tail(rest),
             digit_blank |-> w.digit_blank /\ zero,
             ins_blank |-> IF f.k = "z" /\ rest[1] = "0" THEN w.ins_blank \/ zero ELSE FALSE]
       [] OTHER -> w

write_mould(fr, buf, normal) ==
  FoldLeft(mould_frame, [out |-> <<>>, buf |-> buf, digit_blank |-> ~normal, ins_blank |-> FALSE], fr).out

sign_of(fr, neg) == IF ~has_sign(fr) THEN <<>>
                    ELSE <<IF neg THEN "-" ELSE IF has_frame(fr, "plus") THEN "+" ELSE " ">>
zeros(k) == [i \in 1 .. nat_of(k) |-> "0"]

moulded(fr, frames, buf) == write_mould(fr, IF has_sign(fr) THEN shift_sign(frames, buf) ELSE buf, FALSE)

write_integral_pattern(fr, neg, digits) ==
  IF Len(digits) > count_zd(fr) \/ (neg /\ ~has_sign(fr)) THEN None
  ELSE moulded(fr, upto(fr, {"plus", "minus"}), sign_of(fr, neg) \o zeros(count_zd(fr) - Len(digits)) \o digits)

\* mantissa and fraction, given the digits and where the point is among them
real_text(mant, frac, point, neg, str, dot) ==
  LET Text(whole) == moulded(mant, mant, sign_of(mant, neg) \o zeros(count_zd(mant) - whole) \o SubSeq(str, 1, whole))
                     \o (IF point THEN <<".">> ELSE <<>>)
                     \o (IF frac = <<>> THEN <<>> ELSE write_mould(frac, SubSeq(str, whole + 2, Len(str)), TRUE))
  IN Text(IF dot = 0 THEN Len(str) ELSE dot - 1)

real_parts(mant, frac, point, after, neg, x) ==
  LET Exponent(q) == IF after = <<>> THEN <<>> ELSE write_integral_pattern(after, q < 0, to_dec(abs(q)))
      Text(str, expo) ==
        IF has_error(str) \/ (neg /\ ~has_sign(mant)) \/ expo = None THEN None
        ELSE real_text(mant, frac, point, neg, str, SelectInSeq(str, LAMBDA c : c = "."))
             \o (IF after = <<>> THEN <<>> ELSE <<"e">> \o expo)
      Put(z, stag, fracd) ==
        Text(sub_fixed(z[1], (IF point THEN 1 ELSE 0) + stag + fracd, fracd), Exponent(z[2]))
  IN Put(IF after = <<>> THEN <<x, 0>> ELSE standardize(x, count_zd(mant), count_zd(frac), 0), count_zd(mant), count_zd(frac))

write_real_pattern(fr, neg, x) ==
  LET Cut(before, after) == real_parts(upto(before, {"point"}), beyond(before, {"point"}), has_frame(before, "point"), after, neg, x)
  IN Cut(upto(fr, {"e"}), beyond(fr, {"e"}))

\* one character for each a frame, no more and no fewer
write_string_pattern(fr, s) ==
  IF count([i \in DOMAIN fr |-> fr[i].k], "a") # Len(s) THEN None
  ELSE FoldLeft(LAMBDA w, f : IF f.k = "a" THEN [out |-> Append(w.out, Head(w.s)), s |-> Tail(w.s)]
                              ELSE IF f.k = "ins" THEN [w EXCEPT !.out = @ \o f.s] ELSE w,
                [out |-> <<>>, s |-> s], fr).out

\* patterns with arguments and patterns that choose their own width
h_arguments(a) ==
  LET de == ExpWidth + 1 IN
  CASE Len(a) = 0 -> <<RealWidth + ExpWidth + 4, RealWidth - 1, de, 3>>
    [] Len(a) = 1 -> <<a[1] + de + 4, a[1], de, 3>>
    [] Len(a) = 2 -> <<a[1] + de + 4, a[1], de, a[2]>>
    [] Len(a) = 3 -> <<a[1], a[2], de, a[3]>>
    [] Len(a) = 4 -> a

is_neg(v) == IF v.m = "int" THEN v.v < 0 ELSE v.neg
dec_of(v) == IF v.m = "int" THEN dec(abs(v.v)) ELSE v.v

write_number_generic(p, v) ==
  LET Float(h) == float_dec(is_neg(v), dec_of(v), h[1], h[2], h[3], h[4])
      a == p.args
  IN CASE p.k = "hgen" -> Float(h_arguments(a))
       [] p.k = "general" /\ Len(a) = 3 -> Float(<<a[1], a[2], a[3], 1>>)
       [] p.k = "general" /\ Len(a) = 0 -> IF v.m = "int" THEN print_int(v.v) ELSE print_real(v.neg, v.v)
       [] p.k = "general" /\ Len(a) = 1 /\ v.m = "int" -> whole_int(v.v, a[1])
       [] p.k = "general" /\ Len(a) \in {1, 2} /\ (v.m = "real" \/ Len(a) = 2) ->
            fixed_dec(is_neg(v), dec_of(v), a[1], IF Len(a) = 1 THEN 0 ELSE a[2])
       [] OTHER -> None

write_general(p, v) ==
  CASE v.m \in {"int", "real"} -> write_number_generic(p, v)
    [] v.m = "bool" /\ p.args = <<>> -> <<IF v.v THEN "T" ELSE "F">>
    [] v.m = "bits" /\ p.args = <<>> -> print_bits(v.v, BitsWidth)
    [] v.m = "string" /\ p.args = <<>> -> v.v
    [] OTHER -> None

\* the conversion of %[-][+][w][.a]letter and the width it is put in
radix_of == [b |-> 2, o |-> 8, x |-> 16]
nibble_of == [b |-> 1, o |-> 3, x |-> 4]
or_else(x, default) == IF x = None THEN default ELSE x

exponent_of(s) ==
  LET e == SelectInSeq(s, LAMBDA c : c = "e")
  IN IF e = 0 THEN 0 ELSE parse_int_text(SubSeq(s, e + 1, Len(s)))

c_number_text(p, v, w, after) ==
  LET signed_width(n) == IF p.plus THEN n ELSE -n
      expo == ExpWidth + 1
      fwidth == IF w = 0 /\ after > 0 THEN after + expo + 4 ELSE IF w > 0 THEN w ELSE RealWidth + ExpWidth + 4
      xwidth == IF w = 0 THEN 0 ELSE w + after + 2
      plain(q) == q > -4 /\ q <= after
      Chosen(f) == IF p.letter = "f" \/ (p.letter = "g" /\ plain(exponent_of(f)))
                   THEN <<fixed_dec(is_neg(v), dec_of(v), signed_width(xwidth), after), xwidth>> ELSE <<f, fwidth>>
  IN Chosen(float_dec(is_neg(v), dec_of(v), signed_width(fwidth), after, expo, 1))

c_pattern_text(p, v) ==
  LET w == or_else(p.w, 0)
      Bits(width) == <<convert_radix(v.v, radix_of[p.letter], width), width>>
  IN CASE p.letter = "d" /\ v.m = "int" -> <<whole_int(v.v, IF p.plus THEN w ELSE -w), w>>
       [] p.letter \in {"e", "f", "g"} /\ v.m \in {"int", "real"} -> c_number_text(p, v, w, or_else(p.a, RealWidth - 1))
       [] p.letter \in {"b", "o", "x"} /\ v.m = "bits" ->
            Bits(IF w > 0 THEN w ELSE (BitsWidth + nibble_of[p.letter] - 1) \div nibble_of[p.letter])
       [] p.letter = "s" /\ v.m = "string" -> <<v.v, or_else(p.w, Len(v.v))>>
       [] OTHER -> <<None, 0>>

\* the blanks in front are dropped and put back on the side the pattern says
write_c_pattern(p, v) ==
  LET Put(s, width) == IF Len(s) > width THEN None
                       ELSE IF p.left THEN s \o blank(width - Len(s)) ELSE blank(width - Len(s)) \o s
      Checked(s, width) == IF s = None THEN None
                           ELSE IF p.letter # "s" /\ has_error(s) THEN None
                           ELSE IF width = 0 THEN s ELSE Put(no_leading(s), width)
      Text(c) == Checked(c[1], c[2])
  IN Text(c_pattern_text(p, v))

find_radix(fr) == LET Radix(i) == IF i = 0 THEN None ELSE fr[i].radix
                  IN Radix(SelectInSeq(fr, LAMBDA f : f.k = "radix"))

write_pattern(fr, v) ==
  LET Bits(s) == IF s = None THEN None ELSE write_mould(fr, s, FALSE)
      Text(r) ==
        CASE r # None -> IF v.m # "bits" \/ r \notin 2 .. 16 THEN None ELSE Bits(convert_radix(v.v, r, count_zd(fr)))
          [] r = None /\ has_frame(fr, "a") -> IF v.m = "string" THEN write_string_pattern(fr, v.v) ELSE None
          [] r = None /\ ~has_frame(fr, "a") /\ (has_frame(fr, "point") \/ has_frame(fr, "e")) ->
               IF v.m \in {"int", "real"} THEN write_real_pattern(fr, is_neg(v), dec_of(v)) ELSE None
          [] OTHER -> IF v.m = "int" THEN write_integral_pattern(fr, v.v < 0, to_dec(abs(v.v))) ELSE None
  IN Text(find_radix(fr))

write_scalar_formatted(p, v) ==
  CASE p.k \in {"general", "hgen"} -> write_general(p, v)
    [] p.k = "pattern" -> write_pattern(p.fr, v)
    [] p.k = "bool" -> IF v.m = "bool" THEN (IF v.v THEN p.flip ELSE p.flop) ELSE None
    [] p.k = "choice" -> IF v.m # "int" THEN None ELSE IF v.v \in DOMAIN p.alts THEN p.alts[v.v] ELSE <<>>
    [] p.k = "cpat" -> write_c_pattern(p, v)

-----------------------------------------------------------------------------
(* putf                                                                    *)

\* a value's scalars, in the order of its fields and elements
RECURSIVE write_formatted(_)
write_formatted(v) ==
  IF v.m \in {"row", "struct"} THEN FlattenSeq([i \in DOMAIN v.v |-> write_formatted(v.v[i])]) ELSE <<v>>

\* what the call goes through: its formats and the scalars of its values
Steps == FlattenSeq([i \in DOMAIN script |->
           IF script[i].k = "format" THEN <<script[i]>>
           ELSE LET w == write_formatted(script[i].v) IN [j \in DOMAIN w |-> [k |-> "value", v |-> w[j]]]])
Next_is(k) == turn <= Len(Steps) /\ Steps[turn].k = k

Init ==
  /\ script \in Scripts
  /\ st = <<>> /\ text = <<>> /\ passed = <<>>
  /\ at = 0 /\ got = <<>> /\ turn = 1 /\ pc = "writing"

call(want) == next_pattern([st |-> st, text |-> text, passed |-> passed, pat |-> None], want, 0)

\* a format is taken up: the insertions of the one before it are written out
PutFormat ==
  /\ pc = "writing" /\ Next_is("format")
  /\ st' = <<expand_format(Steps[turn].items, FALSE)>>
  /\ IF st = <<>> THEN UNCHANGED <<text, passed>>
     ELSE LET w == call(FALSE) IN
          /\ text' = w.text
          /\ passed' = IF w.pat = None THEN w.passed ELSE Front(w.passed)
  /\ turn' = turn + 1
  /\ UNCHANGED <<script, at, got, pc>>

\* the next scalar, with the next pattern; what an error leaves of the line
\* is Transput's
PutScalar ==
  /\ pc = "writing" /\ Next_is("value")
  /\ LET Put(w, s) ==
           IF s = None THEN pc' = "error" /\ UNCHANGED <<st, text, passed, turn>>
           ELSE st' = w.st /\ text' = w.text \o s /\ passed' = w.passed /\ turn' = turn + 1 /\ UNCHANGED pc
         With(w) == Put(w, IF w.pat = exhausted THEN None ELSE write_scalar_formatted(w.pat, Steps[turn].v))
     IN With(call(TRUE))
  /\ UNCHANGED <<script, at, got>>

PutEnd ==
  /\ pc = "writing" /\ turn > Len(Steps)
  /\ LET w == call(FALSE)
     IN IF w.pat # None
        THEN pc' = "error" /\ UNCHANGED <<st, text, passed, turn>>
        ELSE pc' = "reading" /\ st' = <<>> /\ text' = w.text /\ passed' = w.passed /\ turn' = 1
  /\ UNCHANGED <<script, at, got>>

-----------------------------------------------------------------------------
(* Reading.  A reader is [at, s, ok]: the place come to, the characters    *)
(* taken, and whether there was something to take.                         *)

skip_line(a) == CHOOSE j \in a .. Len(text) :
                  /\ \A i \in a + 1 .. j - 1 : text[i] # "\n"
                  /\ (j = Len(text) \/ (j > a /\ text[j] = "\n"))
skip_char(a) == IF a < Len(text) THEN a + 1 ELSE a
read_insertion(a, s) == FoldLeft(LAMBDA x, c : IF c = "\n" THEN skip_line(x) ELSE skip_char(x), a, s)

reader(a) == [at |-> a, s |-> <<>>, ok |-> TRUE]
read_char(r) == IF r.at < Len(text) THEN [r EXCEPT !.at = @ + 1, !.s = Append(@, text[r.at + 1])]
                ELSE [r EXCEPT !.ok = FALSE]

\* the next pattern, skipping what the insertions before it wrote; a text
\* without patterns has none and is gone round for ever
RECURSIVE next_input_pattern(_)
next_input_pattern(w) ==
  IF top(w).cursor < Len(top(w).pics)
  THEN LET p == top(w).pics[top(w).cursor + 1]
       IN CASE p.k = "ins" -> next_input_pattern([stepped_past(w) EXCEPT !.at = read_insertion(@, p.s)])
            [] p.k = "col" -> next_input_pattern(stepped_past(w))
            [] p.k = "include" ->
                 next_input_pattern([stepped_past(w) EXCEPT !.st = Append(@, expand_format(p.items, TRUE))])
            [] OTHER -> [stepped_past(w) EXCEPT !.pat = p]
  ELSE IF top(w).embedded THEN next_input_pattern([w EXCEPT !.st = Front(@)])
  ELSE IF top(w).pics = <<>> THEN [w EXCEPT !.pat = exhausted]
  ELSE next_input_pattern([w EXCEPT !.st[1].cursor = 0])

\* the insertions after the last pattern used; an included format stops it
RECURSIVE purge_read(_)
purge_read(w) ==
  IF top(w).cursor < Len(top(w).pics)
  THEN LET p == top(w).pics[top(w).cursor + 1]
       IN CASE p.k = "ins" -> purge_read([stepped_past(w) EXCEPT !.at = read_insertion(@, p.s)])
            [] p.k = "col" -> purge_read(stepped_past(w))
            [] OTHER -> w
  ELSE IF top(w).embedded THEN purge_read([w EXCEPT !.st = Front(@)]) ELSE w

\* one character for each frame that stands for one, insertions skipped
read_frames(a, fr, K) ==
  FoldLeft(LAMBDA r, f : IF f.k = "ins" THEN [r EXCEPT !.at = read_insertion(@, f.s)]
                         ELSE IF f.k \in K THEN read_char(r) ELSE r, reader(a), fr)

radix_value(s, radix) == LET Fits(v) == IF v = None THEN None ELSE IF v >= 2 ^ BitsWidth THEN None ELSE v
                         IN Fits(value_of(no_leading(s), radix))
unless(bad, v) == IF bad THEN None ELSE v
no_blanks(s) == SelectSeq(s, LAMBDA c : c # " ")

\* a blank stands for a zero only under a z frame
read_bits(fr, radix, a) ==
  LET zs == SelectSeq(fr, LAMBDA f : f.k \in {"z", "d"})
      Digits(s) == [i \in DOMAIN s |-> IF s[i] = " " /\ zs[i].k = "z" THEN "0" ELSE s[i]]
      Read(r) == <<unless(~r.ok, radix_value(Digits(r.s), radix)), r.at>>
  IN Read(read_frames(a, fr, {"z", "d"}))

read_pattern(fr, m, a) ==
  LET Value(s) == CASE has_frame(fr, "a") -> s
                    [] m = "int" /\ ~has_frame(fr, "a") -> int_of_text(no_blanks(s))
                    [] m = "real" /\ ~has_frame(fr, "a") -> real_of_text(no_blanks(s))
                    [] OTHER -> None
      Read(r) == <<unless(~r.ok, Value(r.s)), r.at>>
      With(radix) ==
        CASE radix # None -> IF m = "bits" THEN read_bits(fr, radix, a) ELSE <<None, a>>
          [] radix = None -> Read(read_frames(a, fr, IF has_frame(fr, "a") THEN {"a"}
                                                     ELSE {"z", "d", "plus", "minus", "point", "e"}))
  IN With(find_radix(fr))

\* what get reads: from here to the first character outside C
while_in(C, a) == LET j == CHOOSE j \in a .. Len(text) : /\ \A i \in a + 1 .. j : text[i] \in C
                                                       /\ (j = Len(text) \/ text[j + 1] \notin C)
                  IN [at |-> j, s |-> SubSeq(text, a + 1, j), ok |-> TRUE]
spaces == {" ", "\n"}
skip_spaces(a) == while_in(spaces, a).at
read_number(a) ==
  LET Read(b, sign) == [while_in(decimals, b + Len(sign)) EXCEPT !.s = sign \o @]
      From(b) == Read(b, IF b < Len(text) /\ text[b + 1] \in {"+", "-"} THEN <<text[b + 1]>> ELSE <<>>)
  IN From(skip_spaces(a))
read_token(a) == while_in(ToSet(text) \ spaces, skip_spaces(a))
read_line_str(a) == while_in(ToSet(text) \ {"\n"}, a)

read_into(m, a) ==
  LET Unsigned(s) == IF s # <<>> /\ s[1] = "+" THEN Tail(s) ELSE s
      Value(r) == CASE m = "int"    -> int_of_text(Unsigned(r.s))
                    [] m = "bool"   -> r.s \in {<<"T">>, <<"T", "R", "U", "E">>}
                    [] m = "string" -> r.s
      Read(r) == <<Value(r), r.at>>
  IN IF m \notin {"int", "bool", "string"} THEN <<None, a>>
     ELSE Read(CASE m = "int" -> read_number(a) [] m = "bool" -> read_token(a) [] m = "string" -> read_line_str(a))

\* with a width exactly that many characters are taken, one more with a plus
read_c_pattern(p, m, a) ==
  LET w == or_else(p.w, 0)
      Value(s) == CASE m = "bits" -> radix_value(s, radix_of[p.letter])
                    [] m = "int" -> parse_int_text(s)
                    [] m = "string" -> s
                    [] OTHER -> None
      Read(r) == <<unless(~r.ok, Value(r.s)), r.at>>
  IN IF m # "bits" /\ w = 0 THEN read_into(m, a)
     ELSE Read(IF w = 0 THEN while_in(ToSet(numerals), skip_spaces(a))
               ELSE read_frames(a, [i \in 1 .. (IF p.plus /\ m # "bits" THEN w + 1 ELSE w) |-> frame_of("a")], {"a"}))

\* the longest alternative the text goes on with
read_choice(alts, a) ==
  LET match == {i \in DOMAIN alts : IsPrefix(alts[i], SubSeq(text, a + 1, Len(text)))}
      best == {i \in match : \A j \in match : Len(alts[j]) <= Len(alts[i])}
  IN IF match = {} THEN <<None, a>>
     ELSE LET i == CHOOSE i \in best : \A j \in best : i <= j IN <<i, a + Len(alts[i])>>

read_scalar_formatted(p, m, a) ==
  CASE p.k \in {"general", "hgen"} -> read_into(m, a)
    [] p.k = "pattern" -> read_pattern(p.fr, m, a)
    [] p.k = "bool" -> LET r == read_token(a) IN <<r.s = p.flip \/ (r.s # p.flop /\ r.s = <<"T">>), r.at>>
    [] p.k = "choice" -> read_choice(p.alts, a)
    [] p.k = "cpat" -> read_c_pattern(p, m, a)

-----------------------------------------------------------------------------
(* getf, given the formats and, for each scalar written, a name of its mode *)

GetFormat ==
  /\ pc = "reading" /\ Next_is("format")
  /\ at' = IF st = <<>> THEN at ELSE purge_read([st |-> st, at |-> at]).at
  /\ st' = <<expand_format(Steps[turn].items, FALSE)>>
  /\ turn' = turn + 1
  /\ UNCHANGED <<script, text, passed, got, pc>>

GetScalar ==
  /\ pc = "reading" /\ Next_is("value")
  /\ LET Got(w, r) ==
           IF r[1] = None THEN pc' = "misread" /\ UNCHANGED <<st, at, got, turn>>
           ELSE st' = w.st /\ at' = r[2] /\ got' = Append(got, r[1]) /\ turn' = turn + 1 /\ UNCHANGED pc
         With(w) == Got(w, IF w.pat = exhausted THEN <<None, w.at>>
                           ELSE read_scalar_formatted(w.pat, Steps[turn].v.m, w.at))
     IN With(next_input_pattern([st |-> st, at |-> at, pat |-> None]))
  /\ UNCHANGED <<script, text, passed>>

GetEnd ==
  /\ pc = "reading" /\ turn > Len(Steps)
  /\ at' = purge_read([st |-> st, at |-> at]).at
  /\ pc' = "done"
  /\ UNCHANGED <<script, st, text, passed, got, turn>>

Next == PutFormat \/ PutScalar \/ PutEnd \/ GetFormat \/ GetScalar \/ GetEnd

Spec == Init /\ [][Next]_vars

-----------------------------------------------------------------------------
(* What formatted transput promises.                                       *)

RECURSIVE Flat(_)
Flat(pics) == FlattenSeq([i \in DOMAIN pics |->
                IF pics[i].k = "include" THEN Flat(expand_format(pics[i].items, TRUE).pics) ELSE <<pics[i]>>])

\* the pictures behind the cursors; the one a frame below stands at is being gone through
Behind(j) == Len(Flat(SubSeq(st[j].pics, 1, IF j < Len(st) THEN st[j].cursor - 1 ELSE st[j].cursor)))
Writing == pc = "writing" /\ st # <<>>

Promise == INSTANCE FormatText WITH
  flat  <- IF Writing THEN Flat(st[1].pics) ELSE <<>>,
  place <- IF Writing THEN FoldLeft(LAMBDA n, j : n + Behind(j), 0, [j \in DOMAIN st |-> j]) ELSE 0,
  past  <- passed,
  over  <- CASE pc = "writing" -> "no" [] pc = "error" -> "error" [] OTHER -> "done"

\* A putf call goes through the pictures of its formats as the flat text says,
\* whatever is nested in it: next_pattern's stack of frames and its one restart
\* neither skip, repeat nor reorder a picture (io.c next_pattern, printf_items).
TextFollowed == Promise!Spec

\* the patterns the values were written with, and the values
Used == SelectSeq(passed, LAMBDA p : ~p.ins)
Given == SelectSeq(Steps, LAMBDA s : s.k = "value")

\* what a pattern writes of a value can be told from what it wrote: no sign moved
\* past an insertion, a number with its last digit, an int without a plus
Distinct(p, v) ==
  CASE p.k = "pattern" /\ \E i \in DOMAIN p.fr : p.fr[i].k \in {"plus", "minus"}
                                            /\ has_frame(SubSeq(Append(p.fr, p.fr[i]), 1, i + 1), "ins") -> FALSE
    [] p.k = "choice" -> v.v \in DOMAIN p.alts
    [] p.k = "pattern" /\ v.m = "int" -> /\ ~has_frame(p.fr, "point") /\ ~has_frame(p.fr, "e")
                                        /\ (v.v # 0 \/ has_frame(p.fr, "d"))
                                        /\ (v.v < 0 \/ ~has_frame(p.fr, "plus"))
    [] p.k \in {"general", "hgen"} -> v.m # "real" /\ Len(p.args) < 2 /\ p.k = "general" /\ v.m # "bits"
                                     /\ ~has_error(write_general(p, v))
    [] p.k = "cpat" -> ~p.plus /\ ~p.left /\ p.letter # "g"
    [] OTHER -> TRUE

\* what is read is what was written, a real within half of the last place
Same(p, v, g) ==
  IF v.m # "real" THEN g = v.v
  ELSE LET after == beyond(p.fr, {"e"})
           places == count_zd(beyond(upto(p.fr, {"e"}), {"point"}))
           q == IF after = <<>> THEN 0 ELSE standardize(v.v, count_zd(upto(p.fr, {"point"})), places, 0)[2]
           a == dec_align(v.v, g.x)
       IN /\ g.ltz = v.neg
          /\ dec_cmp([m |-> abs(a[1] - a[2]), e |-> a[3]], dec_half(dec_ten_up(q - places))) <= 0

\* Reading a text with the formats it was written with gives the values back: what
\* the sign, the suppressed zeros and the blanked insertions took of the line is
\* what the input frames take (io.c write_mould, read_scalar_formatted).
ReadBack ==
  (/\ pc \in {"reading", "done", "misread"}
   /\ \A i \in DOMAIN passed : passed[i].k # "col"
   /\ \A i \in DOMAIN Used : Distinct(Used[i], Given[i].v)
   /\ \A i \in 1 .. Len(script) - 1 :
        script[i].k = "format" => \A j \in DOMAIN script[i].items : script[i].items[j].k # "include")
  => /\ pc # "misread"
     /\ \A i \in DOMAIN got : Same(Used[i], Given[i].v, got[i])
=============================================================================
