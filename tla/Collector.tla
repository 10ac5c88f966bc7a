------------------------------ MODULE Collector ------------------------------
(***************************************************************************)
(* The heap of a compiled program and its mark-sweep collector             *)
(* (csrc/rt.c: obj_alloc, gc_mark, gc_sweep, gc_verify_reachable,          *)
(* gc_collect), interleaved with the runtime calls that build and change   *)
(* the heap.                                                               *)
(*                                                                         *)
(* A runtime call holds objects in C variables (held) that no root shows   *)
(* to the collector.  What keeps them safe is a discipline, not a check:   *)
(* obj_alloc only asks for a collection (gc_wanted), and the collection    *)
(* runs at GC_POLL, the first statement of an entry point, where no C      *)
(* variable holds anything yet.                                            *)
(*                                                                         *)
(* Abstractions.  An object is an address; scalars are Nil; sizes are one  *)
(* unit per object.  all_objects, the free lists and the worklist are      *)
(* sets: their order never matters to what is marked or freed.  The share  *)
(* counts the sweep gives back are the subject of module RowStore.         *)
(*                                                                         *)
(* A definition marked "slip" is not part of the model: it is the one      *)
(* after it with a plausible mistake, which a property must notice.        *)
(***************************************************************************)
EXTENDS Naturals, FiniteSets

CONSTANTS
  Addr,         \* addresses a block can have
  Nil,          \* no object: a scalar slot, a null parent, an unset base
  Field,        \* slot numbers of a SLOTS or FRAME object
  StackIx,      \* slots of the operand stack
  SavedIx,      \* slots of the stack of saved environments
  FileIx,       \* entries of the file table, one root each
  AllocKind,    \* kinds of object the modelled program allocates
  GcOff, GcStress, GcVerify,  \* the modes of A68LEAN_GC
  MinBetween,   \* gc_min_between, in objects
  HeapLimit     \* gc_limit (A68LEAN_HEAP), in objects; 0: none

ASSUME NilIsNoAddr == Nil \notin Addr
ASSUME FiniteHeap == IsFiniteSet(Addr)
ASSUME Modes == /\ {GcOff, GcStress, GcVerify} \subseteq BOOLEAN
                /\ MinBetween \in Nat /\ HeapLimit \in Nat

K_SLOTS == "SLOTS"
K_LEAF  == "LEAF"
K_ROWD  == "ROWD"
K_FRAME == "FRAME"
K_FREED == "FREED"
Kind    == {K_SLOTS, K_LEAF, K_ROWD, K_FRAME, K_FREED}
ASSUME AllocKinds == AllocKind \subseteq Kind \ {K_FREED}
Ptr     == Addr \cup {Nil}

QUARANTINE == 4

VARIABLES
  all_objects,  \* the objects the sweep walks
  free_lists,   \* released blocks, to be given out again
  quarantine,   \* verify mode: poisoned blocks, by the collection that freed them
  kind, cell, link,  \* an object's kind, its slots, its base (ROWD) or parent (FRAME)
  stack, env, saved, files,  \* the roots
  native,       \* object bases held by the native frames of LLVM code
  held,         \* object pointers in C variables of the runtime call in progress
  inCall,       \* a runtime call is in progress
  gc_wanted, bytes_allocated, bytes_live,
  gc_collections,  \* modulo QUARANTINE, the only use made of it here
  mark, worklist, todo, \* mark bits; the marker's worklist; what the sweep has yet to visit
  phase         \* what gc_collect is doing; "died" (out of memory) and
                \* "aborted" (the verifier found a dangling pointer) end the program

heapVars == <<all_objects, free_lists, quarantine, kind, cell, link>>
rootVars == <<stack, env, saved, files, native>>
callVars == <<held, inCall>>
polVars  == <<gc_wanted, bytes_allocated, bytes_live, gc_collections>>
markVars == <<mark, worklist, todo, phase>>
vars     == <<heapVars, rootVars, callVars, polVars, markVars>>

Phase == {"run", "mark", "sweep", "verify", "died", "aborted"}

TypeOK ==
  /\ all_objects \subseteq Addr
  /\ free_lists \subseteq Addr
  /\ quarantine \in [0 .. QUARANTINE - 1 -> SUBSET Addr]
  /\ kind \in [Addr -> Kind]
  /\ cell \in [Addr -> [Field -> Ptr]]
  /\ link \in [Addr -> Ptr]
  /\ stack \in [StackIx -> Ptr]
  /\ env \in Ptr
  /\ saved \in [SavedIx -> Ptr]
  /\ files \in [FileIx -> Ptr]
  /\ native \subseteq Addr
  /\ held \subseteq Addr
  /\ inCall \in BOOLEAN
  /\ gc_wanted \in BOOLEAN
  /\ bytes_allocated \in Nat
  /\ bytes_live \in Nat
  /\ gc_collections \in 0 .. QUARANTINE - 1
  /\ mark \subseteq Addr
  /\ worklist \subseteq Addr
  /\ todo \subseteq Addr
  /\ phase \in Phase

(* the pointers an object holds, and those the program holds outside the heap *)
Children(o) ==
  ((IF kind[o] \in {K_SLOTS, K_FRAME} THEN {cell[o][i] : i \in Field} ELSE {})
   \cup (IF kind[o] \in {K_ROWD, K_FRAME} THEN {link[o]} ELSE {})) \ {Nil}

Roots == (({env} \cup {stack[i] : i \in StackIx} \cup {saved[i] : i \in SavedIx}
           \cup {files[i] : i \in FileIx}) \ {Nil}) \cup native

(* what a program holding the pointers R can get at: the least set that contains R and
   is closed under Children *)
Reach(R) == {o \in Addr : \A S \in SUBSET Addr :
               (R \subseteq S /\ \A x \in S : Children(x) \subseteq S) => o \in S}

Init ==
  /\ all_objects = {} /\ free_lists = {}
  /\ quarantine = [q \in 0 .. QUARANTINE - 1 |-> {}]
  /\ kind = [o \in Addr |-> K_LEAF]
  /\ cell = [o \in Addr |-> [i \in Field |-> Nil]]
  /\ link = [o \in Addr |-> Nil]
  /\ stack = [i \in StackIx |-> Nil] /\ env = Nil
  /\ saved = [i \in SavedIx |-> Nil] /\ files = [i \in FileIx |-> Nil]
  /\ native = {} /\ held = {} /\ inCall = FALSE
  /\ gc_wanted = FALSE /\ bytes_allocated = 0 /\ bytes_live = 0 /\ gc_collections = 0
  /\ mark = {} /\ worklist = {} /\ todo = {} /\ phase = "run"

-----------------------------------------------------------------------------
(* The runtime's primitives.  An entry point is a Call, any number of these, a Return;
   a call back into the program (call_value) is a Return, the procedure's own calls and
   a Call that finds its operands on the stack. *)

Idle    == phase = "run" /\ ~inCall
Working == phase = "run" /\ inCall

Call ==
  /\ Idle
  /\ inCall' = TRUE
  /\ UNCHANGED <<heapVars, rootVars, held, polVars, markVars>>

Return ==
  /\ Working
  /\ inCall' = FALSE /\ held' = {}
  /\ UNCHANGED <<heapVars, rootVars, polVars, markVars>>

(* the C memory a block may come from: its size class's free list, or the C heap *)
Available(o) == o \notin all_objects /\ \A q \in DOMAIN quarantine : o \notin quarantine[q]

(* what is left on the free lists when block o is given out *)
StillListed(o) == free_lists              \* slip: the head is not advanced
FreeAfter(o) == free_lists \ {o}

(* a reused block is zeroed, and a fresh one is calloc'ed *)
Unzeroed(o) == cell[o]                   \* slip: memset forgotten
Zeroed(o) == [i \in Field |-> Nil]

(* rowd_alloc callers set the base before anything else can happen: part of the step *)
BaseAtBirth(k, b) == CASE k = K_ROWD  -> b \in held /\ kind[b] # K_FRAME
                       [] k = K_FRAME -> b = env
                       [] OTHER       -> b = Nil

obj_alloc(o, k, b) ==
  /\ Working
  /\ Available(o)
  /\ BaseAtBirth(k, b)
  /\ free_lists' = FreeAfter(o)
  /\ kind' = [kind EXCEPT ![o] = k]
  /\ cell' = [cell EXCEPT ![o] = Zeroed(o)]
  /\ link' = [link EXCEPT ![o] = b]
  /\ mark' = mark \ {o}
  /\ all_objects' = all_objects \cup {o}
  /\ bytes_allocated' = bytes_allocated + 1
  /\ gc_wanted' = (gc_wanted \/ /\ ~GcOff
                                /\ \/ GcStress
                                   \/ bytes_allocated' > MinBetween + 2 * bytes_live)
  /\ held' = held \cup {o}
  /\ UNCHANGED <<quarantine, rootVars, inCall, bytes_live, gc_collections,
                 worklist, todo, phase>>

(* a C variable takes a pointer from a root, or from an object it can see *)
Load(p) ==
  /\ Working
  /\ p \in Roots \cup UNION {Children(o) : o \in held \cup Roots}
  /\ held' = held \cup {p}
  /\ UNCHANGED <<heapVars, rootVars, inCall, polVars, markVars>>

(* slot_put, store_set and direct stores into a fresh object *)
SlotWrite(o, i, p) ==
  /\ Working
  /\ o \in held /\ kind[o] \in {K_SLOTS, K_FRAME}
  /\ p \in held \cup {Nil}
  /\ cell' = [cell EXCEPT ![o][i] = p]
  /\ UNCHANGED <<all_objects, free_lists, quarantine, kind, link,
                 rootVars, callVars, polVars, markVars>>

(* a descriptor is given another store (own_store, row_replace, widening, append) *)
SetBase(o, b) ==
  /\ Working
  /\ {o, b} \subseteq held /\ kind[o] = K_ROWD /\ kind[b] \in {K_SLOTS, K_LEAF}
  /\ link' = [link EXCEPT ![o] = b]
  /\ UNCHANGED <<all_objects, free_lists, quarantine, kind, cell,
                 rootVars, callVars, polVars, markVars>>

(* push, and pop or stack_truncate when p is Nil *)
StackWrite(i, p) ==
  /\ Working
  /\ p \in held \cup {Nil}
  /\ stack' = [stack EXCEPT ![i] = p]
  /\ UNCHANGED <<heapVars, env, saved, files, native, callVars, polVars, markVars>>

FileWrite(i, p) ==
  /\ Working
  /\ p \in held \cup {Nil}
  /\ files' = [files EXCEPT ![i] = p]
  /\ UNCHANGED <<heapVars, stack, env, saved, native, callVars, polVars, markVars>>

Enter(f) ==
  /\ Working
  /\ f \in held /\ kind[f] = K_FRAME /\ link[f] = env
  /\ env' = f
  /\ UNCHANGED <<heapVars, stack, saved, files, native, callVars, polVars, markVars>>

(* leave, and each turn of env_truncate's loop *)
Leave ==
  /\ Working
  /\ env # Nil
  /\ env' = link[env]
  /\ UNCHANGED <<heapVars, stack, saved, files, native, callVars, polVars, markVars>>

env_set(i, f) ==
  /\ Working
  /\ f \in held /\ kind[f] = K_FRAME /\ saved[i] = Nil
  /\ saved' = [saved EXCEPT ![i] = env]
  /\ env' = f
  /\ UNCHANGED <<heapVars, stack, files, native, callVars, polVars, markVars>>

env_restore(i) ==
  /\ Working
  /\ saved[i] # Nil
  /\ env' = saved[i]
  /\ saved' = [saved EXCEPT ![i] = Nil]
  /\ UNCHANGED <<heapVars, stack, files, native, callVars, polVars, markVars>>

(* LLVM code keeps and drops object bases in its own frames between runtime calls *)
NativeHold(p) ==
  /\ Idle
  /\ p \in Roots \cup UNION {Children(o) : o \in Roots}
  /\ native' = native \cup {p}
  /\ UNCHANGED <<heapVars, stack, env, saved, files, callVars, polVars, markVars>>

NativeDrop(p) ==
  /\ Idle
  /\ p \in native
  /\ native' = native \ {p}
  /\ UNCHANGED <<heapVars, stack, env, saved, files, callVars, polVars, markVars>>

-----------------------------------------------------------------------------
(* gc_collect, the program stopped: mark, sweep, verify. *)

(* the roots gc_mark pushes: the operand stack, the frame chain, the saved environments,
   the file table (io_gc_roots) and the native frames (stackmap_roots) *)
\* slips: a kind of root forgotten
NoSavedRoots == ((({env} \cup {stack[i] : i \in StackIx} \cup {files[i] : i \in FileIx})
                  \ {Nil}) \cup native)
NoStackRoots == (({env} \cup {saved[i] : i \in SavedIx} \cup {files[i] : i \in FileIx})
                 \ {Nil}) \cup native
GcRoots == (({stack[i] : i \in StackIx} \cup {env} \cup {saved[i] : i \in SavedIx}
             \cup {files[i] : i \in FileIx}) \ {Nil}) \cup native

(* the pointers gc_mark's switch follows out of an object *)
Traced(o) ==
  (CASE kind[o] = K_SLOTS -> {cell[o][i] : i \in Field}
     [] kind[o] = K_FRAME -> {link[o]} \cup {cell[o][i] : i \in Field}
     [] kind[o] = K_ROWD  -> {link[o]}
     [] OTHER -> {}) \ {Nil}

(* gc_push_obj: of the objects S, those it marks and puts on the worklist *)
PushedAgain(S) == S                      \* slip: no test of the mark
gc_push_obj(S) == S \ mark

GcStart ==
  /\ gc_wanted' = FALSE
  /\ IF GcOff
     THEN UNCHANGED <<mark, worklist, phase>>
     ELSE /\ mark' = mark \cup gc_push_obj(GcRoots)
          /\ worklist' = gc_push_obj(GcRoots)
          /\ phase' = "mark"
  /\ UNCHANGED <<heapVars, rootVars, held, bytes_allocated, bytes_live, gc_collections, todo>>

(* an entry point that begins with GC_POLL, while a collection is wanted *)
PollMidCall ==                           \* slip: a poll in the middle of a call
  /\ Working /\ gc_wanted
  /\ inCall' = TRUE
  /\ GcStart
PollCall ==
  /\ Idle /\ gc_wanted
  /\ inCall' = TRUE
  /\ GcStart

(* the standard prelude's `sweep heap` (a68_gc_query(0)): a builtin that holds nothing *)
SweepHeap ==
  /\ Working /\ held = {}
  /\ inCall' = inCall
  /\ GcStart

MarkStep(o) ==
  /\ phase = "mark" /\ o \in worklist
  /\ mark' = mark \cup gc_push_obj(Traced(o))
  /\ worklist' = (worklist \ {o}) \cup gc_push_obj(Traced(o))
  /\ UNCHANGED <<heapVars, rootVars, callVars, polVars, todo, phase>>

(* the quarantine slot released before a sweep *)
ReleaseTooSoon ==                       \* slip: one slot too far
  (gc_collections + 2) % QUARANTINE
ReleasedSlot == (gc_collections + 1) % QUARANTINE

MarkDone ==
  /\ phase = "mark" /\ worklist = {}
  /\ phase' = "sweep" /\ todo' = all_objects /\ bytes_live' = 0
  /\ quarantine' = IF GcVerify THEN [quarantine EXCEPT ![ReleasedSlot] = {}]
                   ELSE quarantine
  /\ UNCHANGED <<all_objects, free_lists, kind, cell, link, rootVars, callVars,
                 gc_wanted, bytes_allocated, gc_collections, mark, worklist>>

KeepMarked(o) ==                         \* slip: the mark bit stays set
  /\ phase = "sweep" /\ o \in todo /\ o \in mark
  /\ todo' = todo \ {o}
  /\ bytes_live' = bytes_live + 1
  /\ UNCHANGED <<heapVars, rootVars, callVars, gc_wanted, bytes_allocated,
                 gc_collections, mark, worklist, phase>>
KeepUncounted(o) ==                      \* slip: a survivor is not counted
  /\ phase = "sweep" /\ o \in todo /\ o \in mark
  /\ todo' = todo \ {o}
  /\ mark' = mark \ {o}
  /\ UNCHANGED <<heapVars, rootVars, callVars, polVars, worklist, phase>>
SweepKeep(o) ==
  /\ phase = "sweep" /\ o \in todo /\ o \in mark
  /\ todo' = todo \ {o}
  /\ mark' = mark \ {o}
  /\ bytes_live' = bytes_live + 1
  /\ UNCHANGED <<heapVars, rootVars, callVars, gc_wanted, bytes_allocated,
                 gc_collections, worklist, phase>>

(* obj_release, or in verify mode poisoning into the collection's quarantine *)
SweepFree(o) ==
  /\ phase = "sweep" /\ o \in todo /\ o \notin mark
  /\ todo' = todo \ {o}
  /\ all_objects' = all_objects \ {o}
  /\ IF GcVerify
     THEN /\ kind' = [kind EXCEPT ![o] = K_FREED]
          /\ quarantine' = [quarantine EXCEPT ![gc_collections] = @ \cup {o}]
          /\ UNCHANGED free_lists
     ELSE /\ free_lists' = free_lists \cup {o}
          /\ UNCHANGED <<kind, quarantine>>
  /\ UNCHANGED <<cell, link, rootVars, callVars, polVars, mark, worklist, phase>>

(* the end of gc_collect *)
OverLimitBefore ==                      \* slip: the wrong counter
  HeapLimit # 0 /\ bytes_allocated > HeapLimit
OverLimit == HeapLimit # 0 /\ bytes_live > HeapLimit

EndUnwrapped ==                          \* slip: the counter is not reduced
  /\ gc_collections' = gc_collections + 1
  /\ bytes_allocated' = 0
  /\ phase' = IF OverLimit THEN "died" ELSE "run"
  /\ UNCHANGED <<heapVars, rootVars, callVars, gc_wanted, bytes_live, worklist, todo>>
GcEnd ==
  /\ gc_collections' = (gc_collections + 1) % QUARANTINE
  /\ bytes_allocated' = 0
  /\ phase' = IF OverLimit THEN "died" ELSE "run"
  /\ UNCHANGED <<heapVars, rootVars, callVars, gc_wanted, bytes_live, worklist, todo>>

SweepDone ==
  /\ phase = "sweep" /\ todo = {}
  /\ IF GcVerify
     THEN /\ phase' = "verify"
          /\ UNCHANGED <<heapVars, rootVars, callVars, polVars, mark, worklist, todo>>
     ELSE GcEnd /\ UNCHANGED mark

(* what gc_verify_reachable looks at: the slots and bases of the listed objects a second
   gc_mark reaches, and the operand stack *)
SeesFreed ==
  LET seen == Reach(Roots) \cap all_objects
  IN \/ \E o \in seen : \E p \in Children(o) :
          kind[p] = K_FREED /\ (kind[o] = K_FRAME => p \in {cell[o][i] : i \in Field})
     \/ \E i \in StackIx : stack[i] # Nil /\ kind[stack[i]] = K_FREED

gc_verify_reachable ==
  /\ phase = "verify"
  /\ mark' = (mark \cup Reach(Roots)) \ all_objects
  /\ IF SeesFreed
     THEN /\ phase' = "aborted"
          /\ UNCHANGED <<heapVars, rootVars, callVars, polVars, worklist, todo>>
     ELSE GcEnd

Mutator ==
  \/ Call \/ Return
  \/ \E o \in Addr, k \in AllocKind, b \in Ptr : obj_alloc(o, k, b)
  \/ \E p \in Addr : Load(p)
  \/ \E o \in Addr, i \in Field, p \in Ptr : SlotWrite(o, i, p)
  \/ \E o, b \in Addr : SetBase(o, b)
  \/ \E i \in StackIx, p \in Ptr : StackWrite(i, p)
  \/ \E i \in FileIx, p \in Ptr : FileWrite(i, p)
  \/ \E f \in Addr : Enter(f)
  \/ Leave
  \/ \E i \in SavedIx, f \in Addr : env_set(i, f)
  \/ \E i \in SavedIx : env_restore(i)
  \/ \E p \in Addr : NativeHold(p)
  \/ \E p \in Addr : NativeDrop(p)

Collecting ==
  \/ \E o \in Addr : MarkStep(o)
  \/ MarkDone
  \/ \E o \in Addr : SweepKeep(o)
  \/ \E o \in Addr : SweepFree(o)
  \/ SweepDone
  \/ gc_verify_reachable

Next == Mutator \/ PollCall \/ SweepHeap \/ Collecting

Spec == Init /\ [][Next]_vars

(* gc_collect, once entered, runs to its end *)
FairSpec == Spec /\ WF_vars(Collecting)

-----------------------------------------------------------------------------
(* What the program can still get at: through its roots, and through the C variables of
   the runtime call in progress. *)
Seeds == Roots \cup held

(* No pointer the program can follow leads to a released or poisoned block, at any moment:
   between two primitives of a runtime call, and half way through a sweep. *)
NoDangling == Reach(Seeds) \subseteq all_objects

(* The marker marks what is reachable and nothing more, so the sweep leaves no garbage:
   when it is through, the object list is what the roots reach. *)
SweepExact == phase = "sweep" /\ todo = {} => all_objects = Reach(Roots)

(* Every mark bit is clear again when the program resumes: an object still marked would be
   skipped by gc_push_obj at the next collection, and what it points at would be freed. *)
MarksClear == phase = "run" => mark = {}

(* A block is listed once: as an object, as free, or in one quarantine list.  Twice would
   give it out twice, or free it twice. *)
ListedOnce ==
  /\ all_objects \cap free_lists = {}
  /\ \A q \in DOMAIN quarantine :
       /\ quarantine[q] \cap (all_objects \cup free_lists) = {}
       /\ \A r \in DOMAIN quarantine \ {q} : quarantine[q] \cap quarantine[r] = {}

(* The check of verify mode never finds anything. *)
NeverAborts == phase # "aborted"

(* A collection never starts while a C variable holds an object no root shows. *)
NothingHeldAtMark == phase \in {"mark", "sweep", "verify"} => held = {}

(* The quarantine is a ring: a freed block enters it at age 0, grows a collection older when a
   collection ends, and leaves at age QUARANTINE - 1, before the sweep of the collection after
   which its slot is needed; none leaves before its turn and none is left behind
   (csrc/rt.c, gc_sweep, quarantine_release). *)
Poisoned(o) == \E q \in DOMAIN quarantine : o \in quarantine[q]
Age(o) == LET q == CHOOSE r \in DOMAIN quarantine : o \in quarantine[r]
          IN (gc_collections + QUARANTINE - q) % QUARANTINE
QuarantineTurns ==
  [][\A o \in Addr :
       /\ ~Poisoned(o) /\ Poisoned(o)' => Age(o)' = 0
       /\ Poisoned(o) /\ ~Poisoned(o)' => Age(o) = QUARANTINE - 1
       /\ Poisoned(o) /\ Poisoned(o)' =>
            Age(o)' = Age(o) + (IF phase' \in {"run", "died"} /\ phase # "run" THEN 1 ELSE 0)]_vars

(* What the documents promise: a freed block is kept for QUARANTINE collections and looked for at
   the verification of each (docs/GC-DESIGN.md, 7; csrc/rt.c, the comment on QUARANTINE).  It would
   leave once the count has gone all the way round, at age 0 again.  The code does not do so: the
   slot is emptied before the sweep of the collection that would make the last check. *)
CheckedEachTime == [][\A o \in Addr : Poisoned(o) /\ ~Poisoned(o)' => Age(o) = 0]_vars

(* Once entered, gc_collect ends, whatever cycles the heap has. *)
CollectionEnds == (phase \in {"mark", "sweep", "verify"}) ~> (phase \in {"run", "died"})

(* The bytes the collector believes are in use are those of the objects on its list: the
   threshold that asks for a collection and the limit that ends the program count right. *)
HeapAccounting == phase = "run" => Cardinality(all_objects) = bytes_live + bytes_allocated

(* A program under A68LEAN_HEAP dies exactly of survivors over the limit. *)
DiesOfLiveObjects == phase = "died" => Cardinality(Reach(Roots)) > HeapLimit

(* The collector is a managed heap: each of its steps is one the promise allows. *)
Promise == INSTANCE ManagedHeap WITH
  objs  <- all_objects,
  succ  <- [o \in Addr |-> IF o \in all_objects THEN Children(o) ELSE {}],
  seeds <- Seeds

KeepsPromise == Promise!Spec
=============================================================================
