----------------------------- MODULE EvalControl -----------------------------
(***************************************************************************)
(* What calls and jumps mean: the evaluator (A68/Interp.lean, runBlock,    *)
(* runStmts, callValue).  A jump is an exception: it goes to the innermost *)
(* running block that has the label, and everything called since is gone.  *)
(* Module CallControl, the compiled program, implements this one.          *)
(*                                                                         *)
(* The program is any that its text allows: Text[f] says which routines,   *)
(* labels and standard procedures the text of routine f mentions.  Labels  *)
(* name the blocks that have one.  Routines are passed down as parameters, *)
(* never stored: a jump's label is always that of a running block.         *)
(***************************************************************************)
EXTENDS Naturals, Sequences, FiniteSetsExt

CONSTANTS
  Fn, Main, Prelude,  \* routines; the particular program; a standard procedure
  Label,              \* blocks with a label
  LabelFn,            \* the routine whose text has the block
  DeclIn,             \* the block a routine is declared in
  Text,               \* [Fn -> [calls, passes, events : SUBSET Fn, gotos : SUBSET Label,
                      \*         param : BOOLEAN]]: the routines a routine calls, passes
                      \* on, and gives to the files it reads from; whether it calls its
                      \* parameter
  NoArg,              \* no routine passed
  MaxActs, MaxOps     \* bounds: calls in progress, operands of one call

VARIABLE acts  \* the calls in progress, [fn, env, arg, blocks, n]: the routine, the frames
               \* of running blocks it sees, its parameter, the blocks it is in with the
               \* operands there were at each one's start, and its operands now

Top == acts[Len(acts)]
Running == Top.fn # Prelude
SetTop(a) == acts' = [acts EXCEPT ![Len(acts)] = a]

Init == acts = <<[fn |-> Main, env |-> <<>>, arg |-> NoArg, blocks |-> <<>>, n |-> 0]>>

(* the routines a call sees: those declared in the blocks around it, and its parameter *)
Seen(a) ==
  {c \in {[fn |-> f, env |-> SubSeq(a.env, 1, i)] : f \in Fn \ {Main}, i \in DOMAIN a.env} :
     a.env[Len(c.env)].b = DeclIn[c.fn]}
Callees(a) == {c \in Seen(a) : c.fn \in Text[a.fn].calls}
              \cup (IF Text[a.fn].param THEN {a.arg} \ {NoArg} ELSE {})
Args(a) == {NoArg} \cup {c \in Seen(a) : c.fn \in Text[a.fn].passes}

Operand == Top.n < MaxOps /\ SetTop([Top EXCEPT !.n = @ + 1])

Base(a) == IF a.blocks = <<>> THEN 0 ELSE a.blocks[Len(a.blocks)].n
Drop == Top.n > Base(Top) /\ SetTop([Top EXCEPT !.n = @ - 1])

EnterBlock(l) ==
  /\ Running /\ LabelFn[l] = Top.fn
  /\ \A i \in DOMAIN Top.blocks : Top.blocks[i].l # l
  /\ SetTop([Top EXCEPT !.blocks = Append(@, [l |-> l, n |-> Top.n]),
                        !.env = Append(@, [a |-> Len(acts), b |-> l])])

LeaveBlock ==
  /\ Running /\ Top.blocks # <<>> /\ Top.n = Base(Top)
  /\ SetTop([Top EXCEPT !.blocks = SubSeq(@, 1, Len(@) - 1),
                        !.env = SubSeq(@, 1, Len(@) - 1)])

Call ==
  /\ Running /\ Len(acts) < MaxActs
  /\ \E c \in Callees(Top), x \in Args(Top) :
       acts' = Append(acts, [fn |-> c.fn, env |-> c.env, arg |-> x, blocks |-> <<>>, n |-> 0])

(* the event routine of some file: a routine some call in progress sees *)
CallPrelude ==
  /\ Running /\ Len(acts) < MaxActs /\ Text[Top.fn].events # {}
  /\ \E k \in DOMAIN acts : \E c \in Seen(acts[k]) :
       /\ c.fn \in Text[Top.fn].events
       /\ acts' = Append(acts, [fn |-> Prelude, env |-> <<>>, arg |-> c, blocks |-> <<>>, n |-> 0])

Event ==
  /\ Top.fn = Prelude /\ Len(acts) < MaxActs
  /\ acts' = Append(acts, [fn |-> Top.arg.fn, env |-> Top.arg.env, arg |-> NoArg,
                           blocks |-> <<>>, n |-> 0])

Return ==
  /\ Len(acts) > 1 /\ Top.blocks = <<>> /\ (Running => Top.n = 0)
  /\ acts' = SubSeq(acts, 1, Len(acts) - 1)

(* a mended file end, from the event routine: the standard procedure is abandoned *)
Mended ==
  /\ Len(acts) > 1 /\ acts[Len(acts) - 1].fn = Prelude
  /\ Top.blocks = <<>> /\ Top.n = 0
  /\ acts' = SubSeq(acts, 1, Len(acts) - 2)

(* the block a jump to l goes to, in the innermost call that is in one *)
InBlock(a, l) == \E i \in DOMAIN a.blocks : a.blocks[i].l = l
Landing(s, l) ==
  LET k == Max({j \in DOMAIN s : InBlock(s[j], l)})
      a == s[k]
      i == CHOOSE j \in DOMAIN a.blocks : a.blocks[j].l = l
      e == Len(a.env) - Len(a.blocks)
  IN Append(SubSeq(s, 1, k - 1), [a EXCEPT !.blocks = SubSeq(@, 1, i), !.n = a.blocks[i].n,
                                           !.env = SubSeq(@, 1, e + i)])
Jump(l) ==
  /\ Running /\ l \in Text[Top.fn].gotos
  /\ \E i \in DOMAIN Top.env : Top.env[i].b = l
  /\ acts' = Landing(acts, l)

Next ==
  \/ Operand \/ Drop \/ LeaveBlock \/ Call \/ CallPrelude \/ Event \/ Return \/ Mended
  \/ \E l \in Label : EnterBlock(l) \/ Jump(l)

Spec == Init /\ [][Next]_acts
=============================================================================
