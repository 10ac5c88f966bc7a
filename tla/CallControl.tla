----------------------------- MODULE CallControl -----------------------------
(***************************************************************************)
(* Calls and jumps of a compiled program: what A68/Lower.lean emits around *)
(* calls and labels, with the runtime's entry points (csrc/rt.c), the      *)
(* catch of a standard procedure (csrc/prelude.c, csrc/io.c) and the       *)
(* analysis that leaves checks out (A68/Analysis/JumpFree.lean).           *)
(*                                                                         *)
(* A jump out of a routine sets jump_flag and returns; every call site     *)
(* tests the flag and lands on a label of its own function or returns in   *)
(* turn.  Landing puts the environment and the operand stack back to the   *)
(* depths its block noted when it was entered.                             *)
(*                                                                         *)
(* Abstractions.  An operand is the number of the call that pushed it, a   *)
(* frame the block it is of (b) in a call (a).  A step is one entry point  *)
(* with the code emitted around it.  The program is as in EvalControl.     *)
(***************************************************************************)
EXTENDS Naturals, Sequences, FiniteSets, FiniteSetsExt, SequencesExt

CONSTANTS
  Fn, Main, Prelude, Label, LabelFn, DeclIn, Text, NoArg, MaxActs, MaxOps,
  PlainFn  \* the routines with a plain entry point

NoFrame == "args"  \* the frame of a routine's parameters: no block
Frames == [a : 1 .. MaxActs, b : Label \cup {NoFrame}]

ASSUME Program ==
  /\ Main \in Fn /\ Prelude \notin Fn /\ PlainFn \subseteq Fn
  /\ LabelFn \in [Label -> Fn]
  /\ Text \in [Fn -> [calls : SUBSET Fn, passes : SUBSET Fn, events : SUBSET Fn,
                      gotos : SUBSET Label, param : BOOLEAN]]
ASSUME Tokens ==
  /\ NoFrame \notin Label /\ NoArg \notin Label
  /\ NoArg \notin [fn : Fn, env : Seq(Frames)]
ASSUME Bounds == MaxActs \in Nat \ {0} /\ MaxOps \in Nat

VARIABLES
  acts,       \* the C functions in progress, [fn, kind, arg, base, blocks, checked]:
              \* "boxed", "plain" or "prelude"; base is the operand stack's depth at its
              \* start, blocks the labelled blocks it is in with the depths e and s noted,
              \* checked whether its call site tests the flag afterwards
  env,        \* the environment: frames, outermost first
  saved,      \* saved environments
  stack,      \* the operand stack
  jump_flag,  \* the label a pending jump goes to, or NoArg
  io_top,     \* the catches in force, innermost last: [sp0, env0]
  mode,       \* "run", or "check": at the test of the flag after a call
  landing     \* history: where the evaluator lands the pending jump

vars == <<acts, env, saved, stack, jump_flag, io_top, mode, landing>>

Top == acts[Len(acts)]
Caller == SubSeq(acts, 1, Len(acts) - 1)
Running == mode = "run" /\ Top.kind # "prelude"
Front1(s) == SubSeq(s, 1, Len(s) - 1)
Prefix(s, n) == IF n < Len(s) THEN SubSeq(s, 1, n) ELSE s
SetTop(a) == acts' = [acts EXCEPT ![Len(acts)] = a]
push(s) == Append(s, Len(acts))

Init ==
  /\ acts = <<[fn |-> Main, kind |-> "boxed", arg |-> NoArg, base |-> 0, blocks |-> <<>>,
               checked |-> TRUE]>>
  /\ env = <<[a |-> 1, b |-> NoFrame]>> /\ saved = <<>> /\ stack = <<>>
  /\ jump_flag = NoArg /\ io_top = <<>> /\ mode = "run" /\ landing = <<>>

-----------------------------------------------------------------------------
(* the compiler's analysis: routines of a block that cannot complete a jump to a label
   outside themselves, when those of known cannot *)
mayJumpOut(f, known) ==
  \/ \E l \in Text[f].gotos : LabelFn[l] # f
  \/ Text[f].param
  \/ \E g \in Text[f].calls : ~(g \in known /\ DeclIn[g] = DeclIn[f])

(* routines are dropped until nothing changes: the greatest set closed under its calls *)
jumpFreeSet ==
  UNION {S \in SUBSET (Fn \ {Main}) : \A f \in S : ~mayJumpOut(f, S)}

-----------------------------------------------------------------------------
(* the program's own steps *)

Seen ==
  {c \in {[fn |-> f, env |-> SubSeq(env, 1, i)] : f \in Fn \ {Main}, i \in DOMAIN env} :
     env[Len(c.env)].b = DeclIn[c.fn]}
Args == {NoArg} \cup {c \in Seen : c.fn \in Text[Top.fn].passes}

NotControl == UNCHANGED <<saved, jump_flag, io_top, mode, landing>>

Operand ==
  /\ mode = "run" /\ Len(stack) - Top.base < MaxOps
  /\ stack' = push(stack)
  /\ UNCHANGED <<acts, env>> /\ NotControl

BlockBase == IF Top.blocks = <<>> THEN Top.base ELSE Top.blocks[Len(Top.blocks)].s
Drop ==
  /\ mode = "run" /\ Len(stack) > BlockBase
  /\ stack' = Front1(stack)
  /\ UNCHANGED <<acts, env>> /\ NotControl

(* the depths a jump lands at are read before the block's frame is pushed *)
EnterBlock(l) ==
  /\ Running /\ LabelFn[l] = Top.fn
  /\ \A i \in DOMAIN Top.blocks : Top.blocks[i].l # l
  /\ SetTop([Top EXCEPT !.blocks = Append(@, [l |-> l, e |-> Len(env), s |-> Len(stack)])])
  /\ env' = Append(env, [a |-> Len(acts), b |-> l])
  /\ UNCHANGED stack /\ NotControl

LeaveBlock ==
  /\ Running /\ Top.blocks # <<>> /\ Len(stack) = BlockBase
  /\ SetTop([Top EXCEPT !.blocks = Front1(@)])
  /\ env' = Front1(env)
  /\ UNCHANGED stack /\ NotControl

-----------------------------------------------------------------------------
(* calls *)

Act(f, k, x, ck, b) ==
  [fn |-> f, kind |-> k, arg |-> x, base |-> b, blocks |-> <<>>, checked |-> ck]

(* a68rt_call of a compiled routine: call_value saves the environment and takes the
   closure's, enter_args pushes the frame of the parameters *)
call ==
  /\ Running /\ Len(acts) < MaxActs
  /\ \E x \in Args, c \in Seen \cup {Top.arg} :
       /\ \/ c # Top.arg /\ c.fn \in Text[Top.fn].calls /\ ~(c.fn \in PlainFn /\ c.env = env)
          \/ c = Top.arg /\ c # NoArg /\ (Text[Top.fn].param \/ c.fn \in Text[Top.fn].calls)
       /\ acts' = Append(acts, Act(c.fn, "boxed", x, TRUE, Len(stack)))
       /\ env' = Append(c.env, [a |-> Len(acts) + 1, b |-> NoFrame])
  /\ saved' = Append(saved, env)
  /\ UNCHANGED <<stack, jump_flag, io_top, mode, landing>>

(* whether the call site of a plain entry point tests the flag *)
TestedOwn(f) == Text[f].gotos # {}       \* slip: what the routine calls is not looked at
Tested(f) == f \notin jumpFreeSet

(* a plain entry point, where the environment the routine captured is in effect *)
PlainCall(f) ==
  /\ Running /\ Len(acts) < MaxActs /\ f \in PlainFn \cap Text[Top.fn].calls
  /\ [fn |-> f, env |-> env] \in Seen
  /\ acts' = Append(acts, Act(f, "plain", NoArg, Tested(f), Len(stack)))
  /\ UNCHANGED <<env, stack>> /\ NotControl

(* a standard procedure: its argument stays on the stack, under the catch.  The event
   routine is one that some call in progress sees. *)
call_builtin ==
  /\ Running /\ Len(acts) < MaxActs
  /\ \E f \in Text[Top.fn].events, e \in ToSet(saved) \cup {env} : \E i \in DOMAIN e :
       /\ e[i].b = DeclIn[f]
       /\ acts' = Append(acts, Act(Prelude, "prelude", [fn |-> f, env |-> SubSeq(e, 1, i)],
                                   TRUE, Len(stack) + 1))
  /\ stack' = push(stack)
  /\ io_top' = Append(io_top, [sp0 |-> Len(stack) + 1, env0 |-> Len(saved)])
  /\ UNCHANGED <<env, saved, jump_flag, mode, landing>>

(* io_call_handler *)
Event ==
  /\ mode = "run" /\ Top.kind = "prelude" /\ Len(acts) < MaxActs
  /\ acts' = Append(acts, Act(Top.arg.fn, "boxed", NoArg, TRUE, Len(stack)))
  /\ saved' = Append(saved, env)
  /\ env' = Append(Top.arg.env, [a |-> Len(acts) + 1, b |-> NoFrame])
  /\ UNCHANGED <<stack, jump_flag, io_top, mode, landing>>

-----------------------------------------------------------------------------
(* returns *)

(* env_restore, after a boxed routine *)
RestoreEnv(a) ==
  IF a.kind = "boxed" THEN env' = saved[Len(saved)] /\ saved' = Front1(saved)
  ELSE UNCHANGED <<env, saved>>

(* The routine's text ends: leave, env_restore, and the result, which the caller takes. *)
Return ==
  /\ Running /\ Len(acts) > 1 /\ Top.blocks = <<>> /\ Len(stack) = Top.base
  /\ acts' = Caller
  /\ RestoreEnv(Top)
  /\ mode' = IF Top.checked /\ Caller[Len(Caller)].kind # "prelude" THEN "check" ELSE "run"
  /\ UNCHANGED <<stack, jump_flag, io_top, landing>>

(* a standard procedure ends: its catch goes, its argument too *)
PreludeReturn ==
  /\ mode = "run" /\ Top.kind = "prelude"
  /\ acts' = Caller
  /\ stack' = SubSeq(stack, 1, Top.base - 1)
  /\ io_top' = Front1(io_top)
  /\ mode' = "check"
  /\ UNCHANGED <<env, saved, jump_flag, landing>>

(* io_raise: to the innermost catch, and from there out of the standard procedure *)
KeepCatch(c) == io_top                   \* slip: io_top is not moved to c->prev
CatchesAfter(c) == Front1(io_top)
io_raise(s, sv, e, a) ==
  LET c == io_top[Len(io_top)]
  IN /\ io_top' = CatchesAfter(c)
     /\ saved' = Prefix(sv, c.env0)
     /\ env' = IF c.env0 < Len(sv) THEN sv[c.env0 + 1] ELSE e
     /\ acts' = SubSeq(a, 1, Len(a) - 1)
     /\ stack' = SubSeq(Prefix(s, c.sp0), 1, a[Len(a)].base - 1)
     /\ mode' = "check"

(* the event routine mended the end of the file: the rest of the call is abandoned *)
Mended ==
  /\ Running /\ Len(acts) > 1 /\ Caller[Len(Caller)].kind = "prelude"
  /\ Top.blocks = <<>> /\ Len(stack) = Top.base
  /\ io_raise(stack, Front1(saved), saved[Len(saved)], Caller)
  /\ UNCHANGED <<jump_flag, landing>>

(* What follows a return while a jump is pending.  call_value drops what the routine left on
   the stack; io_call_handler raises; a call site without a check runs on. *)
ReturnPending ==
  LET boxed == Top.kind = "boxed"
      s == IF boxed THEN SubSeq(stack, 1, Top.base) ELSE stack
      e == IF boxed THEN saved[Len(saved)] ELSE env
      sv == IF boxed THEN Front1(saved) ELSE saved
  IN IF Caller[Len(Caller)].kind = "prelude" THEN io_raise(s, sv, e, Caller)
     ELSE /\ acts' = Caller /\ stack' = s /\ env' = e /\ saved' = sv
          /\ mode' = IF Top.checked THEN "check" ELSE "run"
          /\ UNCHANGED io_top

-----------------------------------------------------------------------------
(* jumps *)

(* what the evaluator sees of the program: without the frames of parameters *)
NoArgs(e) == SelectSeq(e, LAMBDA x : x.b # NoFrame)

(* of the first k calls in progress, those that saved an environment, and those with a catch *)
Boxed(a, k) == Cardinality({i \in 2 .. k : a[i].kind = "boxed"})
Catches(a, k) == Cardinality({i \in 1 .. k : a[i].kind = "prelude"})

(* the environment a call in progress is in: below a boxed call the saved one, without the
   frames of plain calls above *)
Chain(a, e, sv, k) == IF Boxed(a, k) = Len(sv) THEN e ELSE sv[Boxed(a, k) + 1]
EnvOf(k) ==
  LET e == Chain(acts, env, saved, k)
  IN IF k = Len(acts) THEN env ELSE SubSeq(e, 1, Cardinality({i \in DOMAIN e : e[i].a <= k}))

EvalActs ==
  [k \in DOMAIN acts |->
     LET a == acts[k]
         above == IF k = Len(acts) THEN Len(stack)
                  ELSE acts[k + 1].base - (IF acts[k + 1].kind = "prelude" THEN 1 ELSE 0)
     IN [fn |-> a.fn, arg |-> IF a.arg = NoArg THEN NoArg
                              ELSE [fn |-> a.arg.fn, env |-> NoArgs(a.arg.env)],
         env |-> IF a.kind = "prelude" THEN <<>> ELSE NoArgs(EnvOf(k)),
         n |-> IF a.base <= above THEN above - a.base ELSE MaxOps + 1,
         blocks |-> [i \in DOMAIN a.blocks |-> [l |-> a.blocks[i].l, n |-> a.blocks[i].s - a.base]]]]

Eval == INSTANCE EvalControl WITH
  acts <- IF mode = "check" /\ jump_flag # NoArg THEN landing ELSE EvalActs

(* a jump to a label of another routine: raise_jump, and out of the function *)
raise_jump(l) ==
  /\ Running /\ l \in Text[Top.fn].gotos /\ LabelFn[l] # Top.fn
  /\ \E i \in DOMAIN env : env[i].b = l
  /\ jump_flag' = l
  /\ landing' = Eval!Landing(EvalActs, l)
  /\ ReturnPending

(* The code at a label: the jump is over, the depths are those noted at the block's start.
   A block this function is not in has noted nothing: its variables hold anything. *)
FlagAfter == NoArg
LandDeeper(e) == e + 2                   \* slip: the block's frame counted twice
LandShallow(e) == e                      \* slip: the block's frame not counted
LandDepth(e) == e + 1
Land(l) ==
  \E e \in 0 .. Len(env), s \in 0 .. Len(stack), i \in 1 .. Len(Top.blocks) + 1 :
    /\ IF i <= Len(Top.blocks)
       THEN Top.blocks[i] = [l |-> l, e |-> e, s |-> s]
       ELSE \A j \in DOMAIN Top.blocks : Top.blocks[j].l # l
    /\ jump_flag' = FlagAfter
    /\ env' = Prefix(env, LandDepth(e))
    /\ stack' = Prefix(stack, s)
    /\ SetTop([Top EXCEPT !.blocks = Append(SubSeq(@, 1, i - 1), [l |-> l, e |-> e, s |-> s])])
    /\ mode' = "run"

(* a jump to a label of this function: straight to the label *)
Goto(l) ==
  /\ Running /\ l \in Text[Top.fn].gotos /\ LabelFn[l] = Top.fn
  /\ \E i \in DOMAIN Top.blocks : Top.blocks[i].l = l
  /\ Land(l)
  /\ UNCHANGED <<saved, io_top, landing>>

(* the test after a call, and the dispatch on the labels of the function *)
JumpCheckSpins ==                        \* slip: no way out of a function without the label
  /\ mode = "check"
  /\ IF jump_flag = NoArg
     THEN mode' = "run" /\ UNCHANGED <<acts, env, saved, stack, jump_flag, io_top, landing>>
     ELSE IF LabelFn[jump_flag] = Top.fn
     THEN Land(jump_flag) /\ UNCHANGED <<saved, io_top, landing>>
     ELSE UNCHANGED vars
jumpCheck ==
  /\ mode = "check"
  /\ IF jump_flag = NoArg
     THEN mode' = "run" /\ UNCHANGED <<acts, env, saved, stack, jump_flag, io_top, landing>>
     ELSE IF LabelFn[jump_flag] = Top.fn
     THEN Land(jump_flag) /\ UNCHANGED <<saved, io_top, landing>>
     ELSE ReturnPending /\ UNCHANGED <<jump_flag, landing>>

Next ==
  \/ Operand \/ Drop \/ LeaveBlock \/ call \/ call_builtin \/ Event
  \/ Return \/ PreludeReturn \/ Mended \/ jumpCheck
  \/ \E l \in Label : EnterBlock(l) \/ Goto(l) \/ raise_jump(l)
  \/ \E f \in Fn : PlainCall(f)

Spec == Init /\ [][Next]_vars /\ WF_vars(jumpCheck)

-----------------------------------------------------------------------------
(* What the theorems suppose of the program; the runs whose names end in _doc show why.

   Inside(f): the routines a call of f calls, passes on or gives to a file, and what its
   parameter may be; Extent(f): the routines that can come to run inside a call of f. *)
Inside(f) ==
  Text[f].calls \cup Text[f].passes \cup Text[f].events
  \cup (IF Text[f].param THEN UNION {Text[g].passes : g \in Fn} ELSE {})
Extent(f) ==
  {g \in Fn : \A S \in SUBSET Fn :
     Inside(f) \subseteq S /\ (\A h \in S : Inside(h) \subseteq S) => g \in S}

(* a routine other routines jump into does not come to run inside itself *)
JumpedInto(l) == \E f \in Fn : l \in Text[f].gotos /\ LabelFn[l] # f
NoReentry == \A l \in Label : JumpedInto(l) => LabelFn[l] \notin Extent(LabelFn[l])

(* a routine the analysis finds free of jumps reads no file whose event routine is not *)
EventsJumpFree == \A f \in jumpFreeSet : Text[f].events \subseteq jumpFreeSet

-----------------------------------------------------------------------------
(* properties *)

Routine(x) == x = NoArg \/ (x.fn \in Fn /\ ToSet(x.env) \subseteq Frames)

(* The shape of the state; the depths a block has noted lie inside the environment and the
   stack of its call (A68/Lower.lean, lowerBlock). *)
TypeOK ==
  /\ \A k \in DOMAIN acts :
       /\ acts[k].fn \in Fn \cup {Prelude} /\ acts[k].kind \in {"boxed", "plain", "prelude"}
       /\ Routine(acts[k].arg) /\ acts[k].base \in Nat /\ acts[k].checked \in BOOLEAN
       /\ \A i \in DOMAIN acts[k].blocks :
            acts[k].blocks[i] \in [l : Label, e : 0 .. Len(EnvOf(k)) - 1, s : acts[k].base .. Len(stack)]
  /\ ToSet(env) \subseteq Frames /\ \A j \in DOMAIN saved : ToSet(saved[j]) \subseteq Frames
  /\ ToSet(stack) \subseteq 1 .. MaxActs
  /\ jump_flag \in Label \cup {NoArg} /\ mode \in {"run", "check"}
  /\ \A j \in DOMAIN io_top : io_top[j] \in [sp0 : Nat, env0 : Nat]

(* While a jump is pending the program does nothing: every call site that a pending jump can
   come back to tests the flag (A68/Lower.lean, natCall; A68/Analysis/JumpFree.lean). *)
NothingWhilePending == jump_flag # NoArg => mode = "check"

(* io_raise never goes to a catch whose call_builtin is over: the catches are those of the
   standard procedures in progress, innermost last, with the depths of their calls. *)
CatchesNested ==
  /\ Len(io_top) = Catches(acts, Len(acts))
  /\ \A k \in DOMAIN acts : acts[k].kind = "prelude" =>
       io_top[Catches(acts, k)] = [sp0 |-> acts[k].base, env0 |-> Boxed(acts, k)]

(* A compiled program's calls and jumps are the evaluator's: a jump lands in the activation
   and the block the evaluator's exception reaches, with its frames and its operands
   (A68/Lower.lean, lowerBlock; csrc/rt.c, call_value; csrc/io.c, io_raise). *)
ImplementsEval == Eval!Spec

(* A pending jump lands: no unwinding goes on for ever, or ends with the flag set
   (csrc/rt.c, a68rt_raise_jump, a68rt_jump_clear). *)
JumpLands == jump_flag # NoArg ~> jump_flag = NoArg
=============================================================================
