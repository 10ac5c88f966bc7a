----------------------------- MODULE ManagedHeap -----------------------------
(***************************************************************************)
(* What a garbage-collected heap promises its program, with no word of     *)
(* marking or sweeping: an object the program can reach stays, with its    *)
(* contents, until the program changes it; the program only ever gets hold *)
(* of pointers it could already reach or has just been given; and what is  *)
(* reclaimed is something it could not reach.  docs/GC-DESIGN.md 5 states  *)
(* these as the collector's theorems.                                      *)
(***************************************************************************)
CONSTANT Addr

VARIABLES
  objs,   \* the objects that exist
  succ,   \* the pointers each holds
  seeds   \* the pointers the program holds

vars == <<objs, succ, seeds>>

Reachable == {o \in Addr : \A S \in SUBSET Addr :
                (seeds \subseteq S /\ \A x \in S : succ[x] \subseteq S) => o \in S}

Init ==
  /\ objs = {}
  /\ succ = [o \in Addr |-> {}]
  /\ seeds = {}

(* the program allocates, writes to what it can reach, takes and drops pointers *)
Mutate ==
  /\ objs \subseteq objs'
  /\ LET known == Reachable \cup (objs' \ objs)
     IN /\ seeds' \subseteq known
        /\ \A o \in known : succ'[o] \subseteq known
        /\ \A o \in Addr \ known : succ'[o] = succ[o]

(* the collector takes one unreachable object away *)
Reclaim(o) ==
  /\ o \in objs \ Reachable
  /\ objs' = objs \ {o}
  /\ succ' = [succ EXCEPT ![o] = {}]
  /\ seeds' = seeds

Next == Mutate \/ \E o \in Addr : Reclaim(o)

Spec == Init /\ [][Next]_vars
=============================================================================
