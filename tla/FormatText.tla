----------------------------- MODULE FormatText -----------------------------
(***************************************************************************)
(* What a format promises a formatted call: its pictures, those of the     *)
(* formats it includes in their places, taken round and round.  Each value *)
(* gets the next pattern, and the insertions passed on the way are given   *)
(* too.  A new format, or the end of the call, gives the insertions that   *)
(* follow up to the next pattern or the end of the text; a pattern left    *)
(* over at the end of the call is an error, as is a text without patterns. *)
(***************************************************************************)
EXTENDS Naturals, Sequences

VARIABLES flat,   \* the format: a sequence of pictures, ins telling insertions
          place,  \* the pictures passed since the start of the text
          past,   \* the pictures given so far, in order
          over    \* "no", "done" or "error"

N == Len(flat)
Patterns == {i \in 1 .. N : ~flat[i].ins}
Taken(a, b) == SubSeq(flat, a + 1, b)

Init == flat = <<>> /\ place = 0 /\ past = <<>> /\ over = "no"

Left == {i \in Patterns : i > place}
First(S) == {i \in S : \A j \in S : i <= j}

\* the next pattern, in what is left of the text or in the next round
Value ==
  /\ over = "no" /\ UNCHANGED <<flat, over>>
  /\ \E i \in First(IF Left # {} THEN Left ELSE Patterns) :
       /\ place' = i
       /\ past' = past \o IF Left # {} THEN Taken(place, i) ELSE Taken(place, N) \o Taken(0, i)

\* the insertions up to the next pattern
Trailing == IF Left = {} THEN Taken(place, N)
            ELSE SubSeq(flat, place + 1, (CHOOSE i \in First(Left) : TRUE) - 1)

NewFormat ==   \* any text may come next
  /\ over = "no" /\ UNCHANGED over
  /\ past' = past \o Trailing
  /\ place' = 0

Finish ==
  /\ over = "no" /\ Left = {}
  /\ past' = past \o Trailing
  /\ over' = "done" /\ flat' = <<>> /\ place' = 0

\* patterns left over, a text without patterns, a value its pattern cannot hold
Fail == over = "no" /\ over' = "error" /\ flat' = <<>> /\ place' = 0 /\ UNCHANGED past

Next == Value \/ NewFormat \/ Finish \/ Fail
Spec == Init /\ [][Next]_<<flat, place, past, over>>
=============================================================================
