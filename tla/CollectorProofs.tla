--------------------------- MODULE CollectorProofs ---------------------------
(***************************************************************************)
(* Theorems about Collector, for every heap size and every mode.           *)
(***************************************************************************)
EXTENDS Collector, FiniteSetTheorems, TLAPS

-----------------------------------------------------------------------------
(* The step of TypeCorrect, one case per action. *)
LEMMA TypeStep == TypeOK /\ [Next]_vars => TypeOK'
<1> USE NilIsNoAddr, Modes, AllocKinds
<1> SUFFICES ASSUME TypeOK, [Next]_vars PROVE TypeOK'
  OBVIOUS
<1> USE DEF heapVars, rootVars, callVars, polVars, markVars
<1>1. CASE Call
  BY <1>1 DEF Call, TypeOK
<1>2. CASE Return
  BY <1>2 DEF Return, TypeOK
<1>3. ASSUME NEW o \in Addr, NEW k \in AllocKind, NEW b \in Ptr, obj_alloc(o, k, b)
      PROVE  TypeOK'
  BY <1>3 DEF obj_alloc, TypeOK, FreeAfter, Zeroed, Ptr
<1>4. ASSUME NEW p \in Addr, Load(p)
      PROVE  TypeOK'
  BY <1>4 DEF Load, TypeOK
<1>5. ASSUME NEW o \in Addr, NEW i \in Field, NEW p \in Ptr, SlotWrite(o, i, p)
      PROVE  TypeOK'
  <2>1. cell' \in [Addr -> [Field -> Ptr]]
    BY <1>5 DEF SlotWrite, TypeOK
  <2>2. QED
    BY <2>1, <1>5 DEF SlotWrite, TypeOK
<1>6. ASSUME NEW o \in Addr, NEW b \in Addr, SetBase(o, b)
      PROVE  TypeOK'
  BY <1>6 DEF SetBase, TypeOK, Ptr
<1>7. ASSUME NEW i \in StackIx, NEW p \in Ptr, StackWrite(i, p)
      PROVE  TypeOK'
  BY <1>7 DEF StackWrite, TypeOK
<1>8. ASSUME NEW i \in FileIx, NEW p \in Ptr, FileWrite(i, p)
      PROVE  TypeOK'
  BY <1>8 DEF FileWrite, TypeOK
<1>9. ASSUME NEW f \in Addr, Enter(f)
      PROVE  TypeOK'
  BY <1>9 DEF Enter, TypeOK, Ptr
<1>10. CASE Leave
  BY <1>10 DEF Leave, TypeOK, Ptr
<1>11. ASSUME NEW i \in SavedIx, NEW f \in Addr, env_set(i, f)
       PROVE  TypeOK'
  BY <1>11 DEF env_set, TypeOK, Ptr
<1>12. ASSUME NEW i \in SavedIx, env_restore(i)
       PROVE  TypeOK'
  BY <1>12 DEF env_restore, TypeOK, Ptr
<1>13. ASSUME NEW p \in Addr, NativeHold(p)
       PROVE  TypeOK'
  BY <1>13 DEF NativeHold, TypeOK
<1>14. ASSUME NEW p \in Addr, NativeDrop(p)
       PROVE  TypeOK'
  BY <1>14 DEF NativeDrop, TypeOK
<1>15. GcStart => phase' \in Phase /\ mark' \subseteq Addr /\ worklist' \subseteq Addr
  <2>1. GcRoots \subseteq Addr
    BY DEF GcRoots, TypeOK, Ptr
  <2>2. QED
    BY <2>1 DEF GcStart, gc_push_obj, TypeOK, Phase
<1>16. CASE PollCall
  BY <1>15, <1>16 DEF PollCall, GcStart, TypeOK
<1>17. CASE SweepHeap
  BY <1>15, <1>17 DEF SweepHeap, GcStart, TypeOK
<1>18. ASSUME NEW o \in Addr, MarkStep(o)
       PROVE  TypeOK'
  <2>1. Traced(o) \subseteq Addr
    BY DEF Traced, TypeOK, Ptr, K_SLOTS, K_FRAME, K_ROWD
  <2>2. QED
    BY <2>1, <1>18 DEF MarkStep, gc_push_obj, TypeOK
<1>19. CASE MarkDone
  BY <1>19 DEF MarkDone, ReleasedSlot, TypeOK, Phase, QUARANTINE
<1>20. ASSUME NEW o \in Addr, SweepKeep(o)
       PROVE  TypeOK'
  BY <1>20 DEF SweepKeep, TypeOK
<1>21. ASSUME NEW o \in Addr, SweepFree(o)
       PROVE  TypeOK'
  <2>1. kind' \in [Addr -> Kind]
    BY <1>21 DEF SweepFree, TypeOK, Kind
  <2>2. free_lists' \subseteq Addr
    BY <1>21 DEF SweepFree, TypeOK
  <2>3. quarantine' \in [0 .. QUARANTINE - 1 -> SUBSET Addr]
    BY <1>21 DEF SweepFree, TypeOK
  <2>4. QED
    BY <2>1, <2>2, <2>3, <1>21 DEF SweepFree, TypeOK
<1>22. GcEnd => gc_collections' \in 0 .. QUARANTINE - 1 /\ phase' \in Phase
  BY DEF GcEnd, TypeOK, QUARANTINE, Phase
<1>23. CASE SweepDone
  BY <1>22, <1>23 DEF SweepDone, GcEnd, TypeOK, Phase
<1>24. CASE gc_verify_reachable
  <2>1. Reach(Roots) \subseteq Addr
    BY DEF Reach
  <2>2. mark' \subseteq Addr
    BY <2>1, <1>24 DEF gc_verify_reachable, TypeOK
  <2>3. QED
    BY <2>2, <1>22, <1>24 DEF gc_verify_reachable, GcEnd, TypeOK, Phase
<1>25. CASE UNCHANGED vars
  BY <1>25 DEF vars, TypeOK
<1>26. QED
  BY <1>1, <1>2, <1>3, <1>4, <1>5, <1>6, <1>7, <1>8, <1>9, <1>10, <1>11, <1>12, <1>13,
     <1>14, <1>16, <1>17, <1>18, <1>19, <1>20, <1>21, <1>23, <1>24, <1>25
     DEF Next, Mutator, Collecting

(* The program starts with an empty heap of the right types. *)
LEMMA TypeInit == Init => TypeOK
<1> SUFFICES ASSUME Init PROVE TypeOK
  OBVIOUS
<1>1. kind \in [Addr -> Kind] /\ link \in [Addr -> Ptr] /\ cell \in [Addr -> [Field -> Ptr]]
  BY DEF Init, Kind, Ptr
<1>2. /\ stack \in [StackIx -> Ptr] /\ saved \in [SavedIx -> Ptr]
      /\ files \in [FileIx -> Ptr] /\ env \in Ptr
  BY DEF Init, Ptr
<1>3. /\ gc_collections \in 0 .. QUARANTINE - 1
      /\ quarantine \in [0 .. QUARANTINE - 1 -> SUBSET Addr]
  BY DEF Init, QUARANTINE
<1>4. QED
  BY <1>1, <1>2, <1>3 DEF Init, TypeOK, Phase

(* Every variable of the collector keeps its type: in particular no slot, base, root or
   C variable ever holds anything but a block address or Nil (csrc/rt.c, obj_alloc to
   gc_collect). *)
THEOREM TypeCorrect == Spec => []TypeOK
BY TypeInit, TypeStep, PTL DEF Spec

-----------------------------------------------------------------------------
(* The inductive invariant behind NoDangling.  Survivors are the objects that will still
   be there when the collection in progress (if any) is over; they contain what the
   program holds and are closed under its pointers. *)
Survivors == IF phase = "sweep" THEN mark \cup (all_objects \ todo) ELSE all_objects

ClosedHeap ==
  /\ Survivors \subseteq all_objects
  /\ Seeds \subseteq Survivors
  /\ \A x \in Survivors : Children(x) \subseteq Survivors

(* environments are frames, and so are the parents of frames *)
FrameChain ==
  /\ env # Nil => kind[env] = K_FRAME
  /\ \A i \in SavedIx : saved[i] # Nil => kind[saved[i]] = K_FRAME
  /\ \A x \in Survivors : kind[x] = K_FRAME /\ link[x] # Nil => kind[link[x]] = K_FRAME

Unpoisoned == \A x \in all_objects : kind[x] # K_FREED

HeldInCallOnly ==
  /\ phase \in {"mark", "sweep", "verify"} => held = {}
  /\ ~inCall => held = {}

Marking ==
  /\ phase \in {"run", "verify"} => mark = {}
  /\ phase = "mark" => /\ Roots \subseteq mark /\ worklist \subseteq mark
                       /\ mark \subseteq all_objects
                       /\ \A x \in mark \ worklist : Children(x) \subseteq mark
  /\ phase = "sweep" => mark \subseteq todo /\ todo \subseteq all_objects

HeapInv == TypeOK /\ ClosedHeap /\ FrameChain /\ Unpoisoned /\ HeldInCallOnly /\ Marking

(* A set that contains R and is closed under Children contains all R can reach. *)
LEMMA ReachInClosed ==
  ASSUME NEW S \in SUBSET Addr, NEW R, R \subseteq S,
         \A x \in S : Children(x) \subseteq S
  PROVE  Reach(R) \subseteq S
BY DEF Reach

(* The steps of a runtime call that leave every object as it is keep HeapInv when the
   pointers the program holds after them are still to listed objects. *)
LEMMA RootStep ==
  ASSUME HeapInv, TypeOK', phase = "run",
         UNCHANGED <<heapVars, polVars, markVars>>,
         Seeds' \subseteq all_objects,
         (env # Nil => kind[env] = K_FRAME)',
         (\A i \in SavedIx : saved[i] # Nil => kind[saved[i]] = K_FRAME)',
         (~inCall => held = {})'
  PROVE  HeapInv'
<1> USE DEF heapVars, polVars, markVars
<1>1. Survivors = all_objects /\ Survivors' = all_objects
  BY DEF Survivors
<1>2. \A x : Children(x)' = Children(x)
  BY DEF Children
<1>3. ClosedHeap'
  BY <1>1, <1>2 DEF ClosedHeap, HeapInv
<1>4. FrameChain'
  BY <1>1 DEF FrameChain, HeapInv
<1>5. Unpoisoned'
  BY DEF Unpoisoned, HeapInv
<1>6. HeldInCallOnly'
  BY DEF HeldInCallOnly, HeapInv
<1>7. Marking'
  BY DEF Marking, HeapInv
<1>8. QED
  BY <1>3, <1>4, <1>5, <1>6, <1>7 DEF HeapInv

(* Allocation, slot writes and base changes keep HeapInv. *)
LEMMA HeapStep ==
  ASSUME HeapInv, TypeOK', NEW o \in Addr,
         \/ \E k \in AllocKind, b \in Ptr : obj_alloc(o, k, b)
         \/ \E i \in Field, p \in Ptr : SlotWrite(o, i, p)
         \/ \E b \in Addr : SetBase(o, b)
  PROVE  HeapInv'
<1> USE NilIsNoAddr, AllocKinds
         DEF heapVars, rootVars, callVars, polVars, markVars
<1>1. /\ phase = "run" /\ phase' = "run" /\ inCall /\ inCall'
      /\ mark = {} /\ mark' = {}
      /\ UNCHANGED <<rootVars, worklist, todo>>
  BY DEF obj_alloc, SlotWrite, SetBase, Working, HeapInv, Marking
<1>2. Survivors = all_objects /\ Survivors' = all_objects'
  BY <1>1 DEF Survivors
<1>3. /\ Roots \cup held \subseteq all_objects
      /\ \A x \in all_objects : Children(x) \subseteq all_objects
  BY <1>2 DEF HeapInv, ClosedHeap, Seeds
<1>4. HeldInCallOnly' /\ Marking'
  BY <1>1 DEF HeldInCallOnly, Marking
<1>5. Roots' = Roots
  BY <1>1 DEF Roots
<1>6. ASSUME NEW k \in AllocKind, NEW b \in Ptr, obj_alloc(o, k, b)
      PROVE  ClosedHeap' /\ FrameChain' /\ Unpoisoned'
  <2>1. /\ all_objects' = all_objects \cup {o} /\ o \notin all_objects
        /\ held' = held \cup {o}
    BY <1>6 DEF obj_alloc, Available
  <2>2. /\ kind' = [kind EXCEPT ![o] = k] /\ link' = [link EXCEPT ![o] = b]
        /\ cell' = [cell EXCEPT ![o] = [i \in Field |-> Nil]]
    BY <1>6 DEF obj_alloc, Zeroed
  <2>3. b = Nil \/ b \in all_objects
    BY <1>3, <1>6 DEF obj_alloc, BaseAtBirth, Roots
  <2>4. Children(o)' \subseteq all_objects
    BY <2>2, <2>3 DEF Children, HeapInv, TypeOK
  <2>5. \A x \in all_objects : Children(x)' = Children(x)
    BY <2>1, <2>2 DEF Children, HeapInv, TypeOK
  <2>6. ClosedHeap'
    BY <1>2, <1>3, <1>5, <2>1, <2>4, <2>5 DEF ClosedHeap, Seeds
  <2>7. \A x \in all_objects : kind'[x] = kind[x] /\ link'[x] = link[x]
    BY <2>1, <2>2 DEF HeapInv, TypeOK
  <2>8. kind'[o] = k /\ link'[o] = b /\ k # K_FREED
    BY <2>2 DEF HeapInv, TypeOK
  <2>9. env # Nil => env \in all_objects
    BY <1>3 DEF Roots
  <2>10. \A i \in SavedIx : saved[i] # Nil => saved[i] \in all_objects
    BY <1>3 DEF Roots
  <2>11. \A x \in all_objects :
           kind[x] = K_FRAME /\ link[x] # Nil =>
             link[x] \in all_objects /\ kind[link[x]] = K_FRAME
    BY <1>2, <1>3 DEF Children, HeapInv, FrameChain
  <2>12. k = K_FRAME => b = env
    BY <1>6 DEF obj_alloc, BaseAtBirth, K_FRAME, K_ROWD
  <2>13. FrameChain'
    <3>1. (env # Nil => kind[env] = K_FRAME)'
      BY <1>1, <2>7, <2>9 DEF HeapInv, FrameChain
    <3>2. (\A i \in SavedIx : saved[i] # Nil => kind[saved[i]] = K_FRAME)'
      BY <1>1, <2>7, <2>10 DEF HeapInv, FrameChain
    <3>3. ASSUME NEW x \in all_objects', kind'[x] = K_FRAME, link'[x] # Nil
          PROVE  kind'[link'[x]] = K_FRAME
      <4>1. CASE x = o
        BY <3>3, <4>1, <2>8, <2>12, <3>1, <1>1
      <4>2. CASE x # o
        BY <3>3, <4>2, <2>1, <2>7, <2>11
      <4>3. QED
        BY <4>1, <4>2
    <3>4. QED
      BY <3>1, <3>2, <3>3, <1>2 DEF FrameChain
  <2>14. Unpoisoned'
    BY <2>1, <2>7, <2>8 DEF HeapInv, Unpoisoned
  <2>15. QED
    BY <2>6, <2>13, <2>14
<1>7. ASSUME NEW i \in Field, NEW p \in Ptr, SlotWrite(o, i, p)
      PROVE  ClosedHeap' /\ FrameChain' /\ Unpoisoned'
  <2>1. /\ UNCHANGED <<all_objects, kind, link, held>>
        /\ cell' = [cell EXCEPT ![o][i] = p] /\ p \in all_objects \cup {Nil}
    BY <1>3, <1>7 DEF SlotWrite
  <2>2. \A x \in all_objects : Children(x)' \subseteq Children(x) \cup ({p} \ {Nil})
    BY <2>1 DEF Children, HeapInv, TypeOK
  <2>3. ClosedHeap'
    BY <1>2, <1>3, <1>5, <2>1, <2>2 DEF ClosedHeap, Seeds
  <2>4. FrameChain' /\ Unpoisoned'
    BY <1>1, <1>2, <2>1 DEF HeapInv, FrameChain, Unpoisoned
  <2>5. QED
    BY <2>3, <2>4
<1>8. ASSUME NEW b \in Addr, SetBase(o, b)
      PROVE  ClosedHeap' /\ FrameChain' /\ Unpoisoned'
  <2>1. /\ UNCHANGED <<all_objects, kind, cell, held>>
        /\ link' = [link EXCEPT ![o] = b] /\ b \in all_objects /\ kind[o] = K_ROWD
    BY <1>3, <1>8 DEF SetBase
  <2>2. \A x \in all_objects : Children(x)' \subseteq Children(x) \cup {b}
    BY <2>1 DEF Children, HeapInv, TypeOK
  <2>3. ClosedHeap'
    BY <1>2, <1>3, <1>5, <2>1, <2>2 DEF ClosedHeap, Seeds
  <2>4. \A x \in all_objects : kind[x] = K_FRAME => link'[x] = link[x]
    BY <2>1 DEF HeapInv, TypeOK, K_FRAME, K_ROWD
  <2>5. FrameChain' /\ Unpoisoned'
    BY <1>1, <1>2, <2>1, <2>4 DEF HeapInv, FrameChain, Unpoisoned
  <2>6. QED
    BY <2>3, <2>5
<1>9. QED
  BY <1>4, <1>6, <1>7, <1>8 DEF HeapInv

(* Entering gc_collect keeps HeapInv: every root is marked and on the worklist. *)
LEMMA StartStep ==
  ASSUME HeapInv, TypeOK', phase = "run", held = {}, inCall', GcStart
  PROVE  HeapInv'
<1> USE DEF heapVars, rootVars
<1>1. /\ mark = {} /\ UNCHANGED <<heapVars, rootVars, held>>
      /\ Survivors = all_objects
  BY DEF GcStart, HeapInv, Marking, Survivors
<1>2. Survivors' = all_objects
  BY <1>1 DEF GcStart, Survivors
<1>3. \A x : Children(x)' = Children(x)
  BY <1>1 DEF Children
<1>4. ClosedHeap'
  BY <1>1, <1>2, <1>3 DEF HeapInv, ClosedHeap, Seeds, Roots
<1>5. FrameChain' /\ Unpoisoned' /\ HeldInCallOnly'
  BY <1>1, <1>2 DEF HeapInv, FrameChain, Unpoisoned, HeldInCallOnly
<1>6. GcRoots = Roots /\ Roots' = Roots /\ Roots \subseteq all_objects
  BY <1>1 DEF GcRoots, Roots, HeapInv, ClosedHeap, Seeds
<1>7. Marking'
  BY <1>1, <1>6 DEF GcStart, gc_push_obj, Marking
<1>8. QED
  BY <1>4, <1>5, <1>7 DEF HeapInv

(* What the marker follows out of a listed object is what the object holds. *)
LEMMA TracedIsChildren ==
  ASSUME NEW x \in Addr PROVE Traced(x) = Children(x)
BY DEF Traced, Children, K_SLOTS, K_FRAME, K_ROWD

(* The marker's steps, and the step from marking to sweeping, keep HeapInv. *)
LEMMA MarkingStep ==
  ASSUME HeapInv, TypeOK', (\E o \in Addr : MarkStep(o)) \/ MarkDone
  PROVE  HeapInv'
<1> USE DEF heapVars, rootVars, callVars, polVars
<1>1. /\ phase = "mark" /\ UNCHANGED <<all_objects, kind, cell, link, rootVars, callVars>>
      /\ phase' = "mark" \/ phase' = "sweep"
  BY DEF MarkStep, MarkDone
<1>2. Survivors = all_objects /\ Roots' = Roots /\ Seeds' = Seeds
  BY <1>1 DEF Survivors, Roots, Seeds
<1>3. \A x : Children(x)' = Children(x)
  BY <1>1 DEF Children
<1>4. HeldInCallOnly' /\ Unpoisoned' /\ held = {}
  BY <1>1 DEF HeapInv, HeldInCallOnly, Unpoisoned
<1>5. /\ \A x \in all_objects : Children(x) \subseteq all_objects
      /\ Roots \subseteq mark /\ worklist \subseteq mark /\ mark \subseteq all_objects
      /\ \A x \in mark \ worklist : Children(x) \subseteq mark
  BY <1>1, <1>2 DEF HeapInv, ClosedHeap, Marking
<1>6. ASSUME NEW o \in Addr, MarkStep(o) PROVE ClosedHeap' /\ FrameChain' /\ Marking'
  <2>1. phase' = "mark" /\ Survivors' = all_objects
    BY <1>6, <1>1 DEF MarkStep, Survivors
  <2>2. ClosedHeap' /\ FrameChain'
    BY <1>1, <1>2, <1>3, <2>1 DEF HeapInv, ClosedHeap, FrameChain
  <2>3. /\ o \in worklist
        /\ mark' = mark \cup Children(o)
        /\ worklist' = (worklist \ {o}) \cup (Children(o) \ mark)
    BY <1>6, TracedIsChildren DEF MarkStep, gc_push_obj
  <2>4. Marking'
    BY <1>1, <1>2, <1>3, <1>5, <2>1, <2>3 DEF Marking
  <2>5. QED
    BY <2>2, <2>4
<1>7. ASSUME MarkDone PROVE ClosedHeap' /\ FrameChain' /\ Marking'
  <2>1. /\ phase' = "sweep" /\ todo' = all_objects /\ mark' = mark /\ worklist = {}
        /\ Survivors' = mark
    BY <1>7, <1>1 DEF MarkDone, Survivors
  <2>2. ClosedHeap'
    BY <1>1, <1>2, <1>3, <1>4, <1>5, <2>1 DEF ClosedHeap, Seeds
  <2>3. FrameChain'
    BY <1>1, <1>2, <1>5, <2>1 DEF HeapInv, FrameChain
  <2>4. Marking'
    BY <1>1, <1>5, <2>1 DEF Marking
  <2>5. QED
    BY <2>2, <2>3, <2>4
<1>8. QED
  BY <1>4, <1>6, <1>7 DEF HeapInv

(* The sweep keeps HeapInv: a marked object only changes from "marked" to "visited", and an
   object it frees is none of the survivors. *)
LEMMA SweepStep ==
  ASSUME HeapInv, TypeOK', NEW o \in Addr, SweepKeep(o) \/ SweepFree(o)
  PROVE  HeapInv'
<1> USE DEF heapVars, rootVars, callVars, polVars
<1>1. /\ phase = "sweep" /\ phase' = "sweep" /\ o \in todo /\ todo' = todo \ {o}
      /\ UNCHANGED <<cell, link, rootVars, callVars>>
  BY DEF SweepKeep, SweepFree
<1>2. /\ Roots' = Roots /\ Seeds' = Seeds
      /\ mark \subseteq todo /\ todo \subseteq all_objects
  BY <1>1 DEF Roots, Seeds, HeapInv, Marking
<1>3. Survivors' = Survivors /\ Survivors' \subseteq all_objects' /\ Marking'
  BY <1>1, <1>2 DEF SweepKeep, SweepFree, Survivors, Marking
<1>4. \A x \in all_objects' : kind'[x] = kind[x]
  BY DEF SweepKeep, SweepFree, HeapInv, TypeOK
<1>5. \A x \in all_objects' : Children(x)' = Children(x)
  BY <1>1, <1>4 DEF Children
<1>6. ClosedHeap'
  BY <1>2, <1>3, <1>5 DEF HeapInv, ClosedHeap
<1>7. all_objects' \subseteq all_objects
  BY DEF SweepKeep, SweepFree
<1>8. Unpoisoned'
  BY <1>4, <1>7 DEF HeapInv, Unpoisoned
<1>9. /\ env # Nil => env \in Survivors
      /\ \A i \in SavedIx : saved[i] # Nil => saved[i] \in Survivors
      /\ \A x \in Survivors : kind[x] = K_FRAME /\ link[x] # Nil => link[x] \in Survivors
  BY DEF HeapInv, ClosedHeap, Seeds, Roots, Children
<1>10. FrameChain'
  BY <1>1, <1>3, <1>4, <1>9 DEF HeapInv, FrameChain
<1>11. HeldInCallOnly'
  BY <1>1 DEF HeapInv, HeldInCallOnly
<1>12. QED
  BY <1>3, <1>6, <1>8, <1>10, <1>11 DEF HeapInv

(* Under HeapInv nothing the program holds leads out of the object list. *)
LEMMA ReachListed == HeapInv => Reach(Seeds) \subseteq Survivors /\ Reach(Roots) \subseteq Survivors
<1> SUFFICES ASSUME HeapInv
             PROVE  Reach(Seeds) \subseteq Survivors /\ Reach(Roots) \subseteq Survivors
  OBVIOUS
<1>1. Survivors \in SUBSET Addr /\ Seeds \subseteq Survivors /\ Roots \subseteq Survivors
  BY DEF HeapInv, ClosedHeap, TypeOK, Seeds
<1>2. \A x \in Survivors : Children(x) \subseteq Survivors
  BY DEF HeapInv, ClosedHeap
<1>3. QED
  BY <1>1, <1>2, ReachInClosed

(* Under HeapInv the verifier finds no poisoned object. *)
LEMMA VerifierSilent == HeapInv /\ phase = "verify" => ~SeesFreed
<1> SUFFICES ASSUME HeapInv, phase = "verify" PROVE ~SeesFreed
  OBVIOUS
<1>1. Survivors = all_objects
  BY DEF Survivors
<1>2. \A x \in all_objects : \A p \in Children(x) : kind[p] # K_FREED
  BY <1>1 DEF HeapInv, ClosedHeap, Unpoisoned
<1>3. \A i \in StackIx : stack[i] # Nil => kind[stack[i]] # K_FREED
  BY <1>1 DEF HeapInv, ClosedHeap, Unpoisoned, Seeds, Roots
<1>4. QED
  BY <1>2, <1>3 DEF SeesFreed

(* The end of a collection keeps HeapInv. *)
LEMMA EndStep ==
  ASSUME HeapInv, TypeOK', SweepDone \/ gc_verify_reachable
  PROVE  HeapInv'
<1> USE DEF heapVars, rootVars, callVars, polVars
<1>1. /\ phase \in {"sweep", "verify"} /\ phase' \in {"verify", "run", "died", "aborted"}
      /\ UNCHANGED <<heapVars, rootVars, callVars>>
  BY DEF SweepDone, gc_verify_reachable, GcEnd
<1>2. Survivors \subseteq all_objects /\ Survivors' = all_objects
  BY <1>1 DEF HeapInv, ClosedHeap, Survivors
<1>3. Survivors = all_objects
  BY <1>1, <1>2 DEF SweepDone, gc_verify_reachable, Survivors
<1>4. \A x : Children(x)' = Children(x)
  BY <1>1 DEF Children
<1>5. ClosedHeap' /\ FrameChain' /\ Unpoisoned' /\ HeldInCallOnly'
  BY <1>1, <1>2, <1>3, <1>4
     DEF HeapInv, ClosedHeap, FrameChain, Unpoisoned, HeldInCallOnly, Seeds, Roots
<1>6. Reach(Roots) \subseteq all_objects
  BY <1>3, ReachListed
<1>7. mark' = {}
  BY <1>1, <1>6 DEF SweepDone, gc_verify_reachable, HeapInv, Marking
<1>8. Marking'
  BY <1>1, <1>7 DEF Marking
<1>9. QED
  BY <1>5, <1>8 DEF HeapInv

(* The step of HeapSafe, one case per action. *)
LEMMA HeapInvStep == HeapInv /\ [Next]_vars => HeapInv'
<1> SUFFICES ASSUME HeapInv, [Next]_vars PROVE HeapInv'
  OBVIOUS
<1>1. TypeOK'
  BY TypeStep DEF HeapInv
<1>2. phase = "run" => Survivors = all_objects /\ Roots \cup held \subseteq all_objects
  BY DEF HeapInv, ClosedHeap, Seeds, Survivors
<1>3. phase = "run" => \A x \in all_objects : Children(x) \subseteq all_objects
  BY <1>2 DEF HeapInv, ClosedHeap
<1>4. /\ env # Nil => kind[env] = K_FRAME
      /\ \A i \in SavedIx : saved[i] # Nil => kind[saved[i]] = K_FRAME
      /\ phase = "run" /\ ~inCall => held = {}
  BY DEF HeapInv, FrameChain, HeldInCallOnly
<1>5. CASE Call \/ Return
  <2>1. /\ phase = "run" /\ UNCHANGED <<heapVars, rootVars, polVars, markVars>>
        /\ held' \subseteq held
        /\ (~inCall => held = {})'
    BY <1>5 DEF Call, Return, Idle, Working
  <2>2. Seeds' \subseteq all_objects
    BY <1>2, <2>1 DEF Seeds, Roots, rootVars
  <2>3. QED
    BY <1>1, <1>4, <2>1, <2>2, RootStep DEF heapVars, rootVars
<1>6. CASE \E p \in Addr : Load(p)
  <2>1. PICK p \in Addr : Load(p)
    BY <1>6
  <2>2. /\ phase = "run" /\ UNCHANGED <<heapVars, rootVars, polVars, markVars>>
        /\ held' = held \cup {p} /\ inCall'
    BY <2>1 DEF Load, Working
  <2>3. p \in all_objects
    BY <1>2, <1>3, <2>1 DEF Load, Working
  <2>4. Seeds' \subseteq all_objects
    BY <1>2, <2>2, <2>3 DEF Seeds, Roots, rootVars
  <2>5. QED
    BY <1>1, <1>4, <2>2, <2>4, RootStep DEF heapVars, rootVars
<1>7. CASE \/ \E i \in StackIx, p \in Ptr : StackWrite(i, p)
           \/ \E i \in FileIx, p \in Ptr : FileWrite(i, p)
  <2>1. /\ phase = "run" /\ UNCHANGED <<heapVars, env, saved, native, callVars, polVars, markVars>>
        /\ inCall
    BY <1>7 DEF StackWrite, FileWrite, Working
  <2>2. /\ \A i \in StackIx : stack'[i] = stack[i] \/ stack'[i] \in held \cup {Nil}
        /\ \A i \in FileIx : files'[i] = files[i] \/ files'[i] \in held \cup {Nil}
    BY <1>7 DEF StackWrite, FileWrite, HeapInv, TypeOK
  <2>3. Seeds' \subseteq all_objects
    BY <1>2, <2>1, <2>2 DEF Seeds, Roots, callVars
  <2>4. QED
    BY <1>1, <1>4, <2>1, <2>3, RootStep DEF heapVars, callVars
<1>8. CASE \E f \in Addr : Enter(f)
  <2>1. PICK f \in Addr : Enter(f)
    BY <1>8
  <2>2. /\ phase = "run"
        /\ UNCHANGED <<heapVars, stack, saved, files, native, callVars, polVars, markVars>>
        /\ env' = f /\ f \in held /\ kind[f] = K_FRAME /\ inCall
    BY <2>1 DEF Enter, Working
  <2>3. Seeds' \subseteq all_objects
    BY <1>2, <2>2 DEF Seeds, Roots, callVars
  <2>4. QED
    BY <1>1, <1>4, <2>2, <2>3, RootStep DEF heapVars, callVars
<1>9. CASE Leave
  <2>1. /\ phase = "run"
        /\ UNCHANGED <<heapVars, stack, saved, files, native, callVars, polVars, markVars>>
        /\ env # Nil /\ env' = link[env] /\ inCall
    BY <1>9 DEF Leave, Working
  <2>2. env \in all_objects /\ kind[env] = K_FRAME
    BY <1>2, <1>4, <2>1 DEF Roots
  <2>3. env' # Nil => env' \in Children(env)
    BY <2>1, <2>2 DEF Children
  <2>4. env' # Nil => env' \in all_objects /\ kind[env'] = K_FRAME
    BY <1>2, <1>3, <2>1, <2>2, <2>3 DEF HeapInv, FrameChain
  <2>5. Seeds' \subseteq all_objects
    BY <1>2, <2>1, <2>4 DEF Seeds, Roots, callVars
  <2>6. QED
    BY <1>1, <1>4, <2>1, <2>4, <2>5, RootStep DEF heapVars, callVars
<1>10. CASE \E i \in SavedIx, f \in Addr : env_set(i, f)
  <2>1. PICK i \in SavedIx, f \in Addr : env_set(i, f)
    BY <1>10
  <2>2. /\ phase = "run"
        /\ UNCHANGED <<heapVars, stack, files, native, callVars, polVars, markVars>>
        /\ env' = f /\ f \in held /\ kind[f] = K_FRAME /\ inCall
        /\ \A j \in SavedIx : saved'[j] \in {saved[j], env}
    BY <2>1 DEF env_set, Working, HeapInv, TypeOK
  <2>3. Seeds' \subseteq all_objects
    BY <1>2, <2>2 DEF Seeds, Roots, callVars
  <2>4. QED
    BY <1>1, <1>4, <2>2, <2>3, RootStep DEF heapVars, callVars
<1>11. CASE \E i \in SavedIx : env_restore(i)
  <2>1. PICK i \in SavedIx : env_restore(i)
    BY <1>11
  <2>2. /\ phase = "run"
        /\ UNCHANGED <<heapVars, stack, files, native, callVars, polVars, markVars>>
        /\ env' = saved[i] /\ saved[i] # Nil /\ inCall
        /\ \A j \in SavedIx : saved'[j] \in {saved[j], Nil}
    BY <2>1 DEF env_restore, Working, HeapInv, TypeOK
  <2>3. Seeds' \subseteq all_objects
    BY <1>2, <2>2 DEF Seeds, Roots, callVars
  <2>4. QED
    BY <1>1, <1>4, <2>2, <2>3, RootStep DEF heapVars, callVars
<1>12. CASE \E p \in Addr : NativeHold(p) \/ NativeDrop(p)
  <2>1. PICK p \in Addr : NativeHold(p) \/ NativeDrop(p)
    BY <1>12
  <2>2. /\ phase = "run" /\ ~inCall
        /\ UNCHANGED <<heapVars, stack, env, saved, files, callVars, polVars, markVars>>
        /\ native' \subseteq native \cup {p}
    BY <2>1 DEF NativeHold, NativeDrop, Idle
  <2>3. p \in all_objects
    BY <1>2, <1>3, <2>1 DEF NativeHold, NativeDrop, Idle, Roots
  <2>4. Seeds' \subseteq all_objects
    BY <1>2, <2>2, <2>3 DEF Seeds, Roots, callVars
  <2>5. QED
    BY <1>1, <1>4, <2>2, <2>4, RootStep DEF heapVars, callVars
<1>13. CASE \E o \in Addr : \/ \E k \in AllocKind, b \in Ptr : obj_alloc(o, k, b)
                            \/ \E i \in Field, p \in Ptr : SlotWrite(o, i, p)
                            \/ \E b \in Addr : SetBase(o, b)
  BY <1>1, <1>13, HeapStep
<1>14. CASE PollCall \/ SweepHeap
  <2>1. GcStart /\ phase = "run" /\ held = {} /\ inCall'
    BY <1>4, <1>14 DEF PollCall, SweepHeap, Idle, Working
  <2>2. QED
    BY <1>1, <2>1, StartStep
<1>15. CASE (\E o \in Addr : MarkStep(o)) \/ MarkDone
  BY <1>1, <1>15, MarkingStep
<1>16. CASE \E o \in Addr : SweepKeep(o) \/ SweepFree(o)
  BY <1>1, <1>16, SweepStep
<1>17. CASE SweepDone \/ gc_verify_reachable
  BY <1>1, <1>17, EndStep
<1>18. CASE UNCHANGED vars
  BY <1>18, <1>1 DEF vars, heapVars, rootVars, callVars, polVars, markVars, HeapInv, ClosedHeap,
     FrameChain, Unpoisoned, HeldInCallOnly, Marking, Survivors, Seeds, Roots, Children
<1>19. QED
  BY <1>5, <1>6, <1>7, <1>8, <1>9, <1>10, <1>11, <1>12, <1>13, <1>14, <1>15, <1>16, <1>17,
     <1>18 DEF Next, Mutator, Collecting

(* The inductive invariant holds from the start: the collector never breaks the closure of
   what survives. *)
THEOREM HeapSafe == Spec => []HeapInv
<1>1. Init => HeapInv
  <2> SUFFICES ASSUME Init PROVE HeapInv
    OBVIOUS
  <2>1. TypeOK
    BY TypeInit
  <2>2. Survivors = {} /\ Seeds = {}
    BY DEF Init, Survivors, Seeds, Roots
  <2>3. QED
    BY <2>1, <2>2 DEF Init, HeapInv, ClosedHeap, FrameChain, Unpoisoned, HeldInCallOnly, Marking
<1>2. QED
  BY <1>1, HeapInvStep, PTL DEF Spec

(* No pointer the program can follow, through its roots or the C variables of the runtime
   call in progress, leads to a released or poisoned block, at any moment of any
   interleaving of runtime calls with a collection. *)
THEOREM NoDanglingReference == Spec => []NoDangling
<1>1. HeapInv => NoDangling
  BY ReachListed DEF NoDangling, HeapInv, ClosedHeap
<1>2. QED
  BY <1>1, HeapSafe, PTL

(* Mark bits are clear whenever the program runs. *)
THEOREM MarkBitsClear == Spec => []MarksClear
<1>1. HeapInv => MarksClear
  BY DEF MarksClear, HeapInv, Marking
<1>2. QED
  BY <1>1, HeapSafe, PTL

(* No collection starts while a C variable holds an object: GC_POLL is the first statement
   of an entry point. *)
THEOREM PollsHoldNothing == Spec => []NothingHeldAtMark
<1>1. HeapInv => NothingHeldAtMark
  BY DEF NothingHeldAtMark, HeapInv, HeldInCallOnly
<1>2. QED
  BY <1>1, HeapSafe, PTL

(* Only the verifier ends a program: nothing the program or the collector does before it, nor a call
   of the collector, leaves the phase aborted. *)
LEMMA OthersNeverAbort ==
  ASSUME Next, ~gc_verify_reachable, phase # "aborted"
  PROVE  phase' # "aborted"
<1> USE DEF heapVars, rootVars, callVars, polVars, markVars
<1>1. CASE Collecting
  BY <1>1 DEF Collecting, MarkStep, MarkDone, SweepKeep, SweepFree, SweepDone, GcEnd
<1>2. CASE PollCall \/ SweepHeap
  BY <1>2 DEF PollCall, SweepHeap, GcStart
<1>3. CASE Mutator
  BY <1>3 DEF Mutator, Call, Return, obj_alloc, Load, SlotWrite, SetBase, StackWrite, FileWrite,
     Enter, Leave, env_set, env_restore, NativeHold, NativeDrop
<1>4. QED
  BY <1>1, <1>2, <1>3 DEF Next

(* The check of A68LEAN_GC=verify never ends a program. *)
THEOREM VerifierNeverAborts == Spec => []NeverAborts
<1>1. ASSUME HeapInv, NeverAborts, Next PROVE NeverAborts'
  <2>1. CASE gc_verify_reachable
    BY <1>1, <2>1, VerifierSilent DEF NeverAborts, gc_verify_reachable, GcEnd
  <2>2. CASE ~gc_verify_reachable
    BY <1>1, <2>2, OthersNeverAbort DEF NeverAborts
  <2>3. QED
    BY <2>1, <2>2
<1>2. ASSUME NeverAborts, UNCHANGED vars PROVE NeverAborts'
  BY <1>2 DEF vars, heapVars, rootVars, callVars, polVars, markVars, NeverAborts
<1>3. Init => NeverAborts
  BY DEF Init, NeverAborts
<1>4. QED
  BY HeapSafe, <1>1, <1>2, <1>3, PTL DEF Spec

-----------------------------------------------------------------------------
(* A reachable object's pointers are reachable. *)
LEMMA ReachClosed ==
  ASSUME NEW R \in SUBSET Addr, \A x \in Addr : Children(x) \subseteq Addr
  PROVE  /\ R \subseteq Reach(R)
         /\ \A x \in Reach(R) : Children(x) \subseteq Reach(R)
<1>1. R \subseteq Reach(R)
  BY DEF Reach
<1>2. ASSUME NEW x \in Reach(R), NEW y \in Children(x) PROVE y \in Reach(R)
  <2>1. x \in Addr /\ y \in Addr
    BY <1>2 DEF Reach
  <2>2. ASSUME NEW S \in SUBSET Addr, R \subseteq S, \A z \in S : Children(z) \subseteq S
        PROVE  y \in S
    BY <1>2, <2>2 DEF Reach
  <2>3. QED
    BY <2>1, <2>2 DEF Reach
<1>3. QED
  BY <1>1, <1>2

(* Pointers are addresses. *)
LEMMA ChildrenAreAddr == TypeOK => \A x \in Addr : Children(x) \subseteq Addr
BY NilIsNoAddr DEF TypeOK, Children, Ptr

(* What the marker has marked, and what the sweep has kept, the roots reach. *)
OnlyReached ==
  /\ phase = "mark" => mark \subseteq Reach(Roots)
  /\ phase = "sweep" => Survivors \subseteq Reach(Roots)

(* A step that keeps the roots and the pointers of the survivors loses nothing reachable. *)
LEMMA ReachKept ==
  ASSUME HeapInv, Roots' = Roots, \A x \in Survivors : Children(x)' = Children(x)
  PROVE  Reach(Roots) \subseteq Reach(Roots)'
<1>1. Survivors \in SUBSET Addr /\ Roots \subseteq Survivors
  BY DEF HeapInv, ClosedHeap, TypeOK, Seeds
<1>2. ASSUME NEW o \in Reach(Roots), NEW T \in SUBSET Addr, Roots \subseteq T,
             \A x \in T : Children(x)' \subseteq T
      PROVE  o \in T
  <2>1. T \cap Survivors \in SUBSET Addr /\ Roots \subseteq T \cap Survivors
    BY <1>1, <1>2
  <2>2. \A x \in T \cap Survivors : Children(x) \subseteq T \cap Survivors
    BY <1>2 DEF HeapInv, ClosedHeap
  <2>3. QED
    BY <2>1, <2>2, ReachInClosed
<1>3. QED
  BY <1>2 DEF Reach

(* The step of SweepLeavesNoGarbage. *)
LEMMA OnlyReachedStep == HeapInv /\ OnlyReached /\ [Next]_vars => OnlyReached'
<1> SUFFICES ASSUME HeapInv, OnlyReached, [Next]_vars PROVE OnlyReached'
  OBVIOUS
<1> USE DEF heapVars, rootVars, callVars, polVars, markVars
<1>1. \A x \in Addr : Children(x) \subseteq Addr
  BY ChildrenAreAddr DEF HeapInv
<1>2. Roots \in SUBSET Addr
  BY DEF HeapInv, ClosedHeap, TypeOK, Seeds, Survivors
<1>3. /\ Roots \subseteq Reach(Roots)
      /\ \A x \in Reach(Roots) : Children(x) \subseteq Reach(Roots)
  BY <1>1, <1>2, ReachClosed
<1>4. CASE Mutator
  BY <1>4 DEF Mutator, Call, Return, obj_alloc, Load, SlotWrite, SetBase, StackWrite, FileWrite,
     Enter, Leave, env_set, env_restore, NativeHold, NativeDrop, Idle, Working, OnlyReached
<1>5. CASE PollCall \/ SweepHeap
  <2>1. phase = "run" /\ mark = {} /\ GcStart /\ GcRoots = Roots
    BY <1>5 DEF PollCall, SweepHeap, Idle, Working, HeapInv, Marking, GcRoots, Roots
  <2>2. UNCHANGED <<heapVars, rootVars>> /\ phase' # "sweep"
    BY <2>1 DEF GcStart
  <2>3. Roots' = Roots /\ \A x \in Survivors : Children(x)' = Children(x)
    BY <2>2 DEF Roots, Children
  <2>4. phase' = "mark" => mark' = Roots
    BY <2>1 DEF GcStart, gc_push_obj
  <2>5. QED
    BY <1>3, <2>2, <2>3, <2>4, ReachKept DEF OnlyReached
<1>6. ASSUME NEW o \in Addr, MarkStep(o) PROVE OnlyReached'
  <2>1. /\ phase = "mark" /\ phase' = "mark" /\ o \in mark
        /\ mark' \subseteq mark \cup Children(o)
        /\ UNCHANGED <<heapVars, rootVars>>
    BY <1>6, TracedIsChildren DEF MarkStep, gc_push_obj, HeapInv, Marking
  <2>2. Roots' = Roots /\ \A x \in Survivors : Children(x)' = Children(x)
    BY <2>1 DEF Roots, Children
  <2>3. mark' \subseteq Reach(Roots)
    BY <1>3, <2>1 DEF OnlyReached
  <2>4. QED
    BY <2>1, <2>2, <2>3, ReachKept DEF OnlyReached
<1>7. CASE MarkDone
  <2>1. /\ phase = "mark" /\ phase' = "sweep" /\ mark' = mark /\ todo' = all_objects
        /\ UNCHANGED <<all_objects, kind, cell, link, rootVars>>
    BY <1>7 DEF MarkDone
  <2>2. Roots' = Roots /\ \A x \in Survivors : Children(x)' = Children(x)
    BY <2>1 DEF Roots, Children
  <2>3. Survivors' = mark
    BY <2>1 DEF Survivors
  <2>4. QED
    BY <2>1, <2>2, <2>3, ReachKept DEF OnlyReached
<1>8. ASSUME NEW o \in Addr, SweepKeep(o) \/ SweepFree(o) PROVE OnlyReached'
  <2>1. /\ phase = "sweep" /\ phase' = "sweep" /\ o \in todo /\ todo' = todo \ {o}
        /\ UNCHANGED <<cell, link, rootVars>>
        /\ mark \subseteq todo /\ todo \subseteq all_objects
    BY <1>8 DEF SweepKeep, SweepFree, HeapInv, Marking
  <2>2. Survivors' = Survivors
    BY <1>8, <2>1 DEF SweepKeep, SweepFree, Survivors
  <2>3. \A x \in Survivors : kind'[x] = kind[x]
    BY <1>8, <2>1 DEF SweepKeep, SweepFree, Survivors, HeapInv, TypeOK
  <2>4. Roots' = Roots /\ \A x \in Survivors : Children(x)' = Children(x)
    BY <2>1, <2>3 DEF Roots, Children
  <2>5. QED
    BY <2>1, <2>2, <2>4, ReachKept DEF OnlyReached
<1>9. CASE SweepDone \/ gc_verify_reachable
  BY <1>9 DEF SweepDone, gc_verify_reachable, GcEnd, OnlyReached
<1>10. CASE UNCHANGED vars
  <2>1. /\ phase' = phase /\ mark' = mark /\ Survivors' = Survivors /\ Roots' = Roots
        /\ \A x \in Survivors : Children(x)' = Children(x)
    BY <1>10 DEF vars, Survivors, Roots, Children
  <2>2. QED
    BY <2>1, ReachKept DEF OnlyReached
<1>11. QED
  BY <1>4, <1>5, <1>6, <1>7, <1>8, <1>9, <1>10 DEF Next, Collecting

(* When the sweep is through, the object list is exactly what the roots reach: nothing
   reachable is freed and no garbage is kept, whatever cycles the heap has. *)
THEOREM SweepLeavesNoGarbage == Spec => []SweepExact
<1>1. Init => OnlyReached
  BY DEF Init, OnlyReached
<1>2. HeapInv /\ OnlyReached => SweepExact
  <2> SUFFICES ASSUME HeapInv, OnlyReached, phase = "sweep", todo = {}
               PROVE  all_objects = Reach(Roots)
    BY DEF SweepExact
  <2>1. Survivors = all_objects
    BY DEF Survivors, HeapInv, Marking
  <2>2. QED
    BY <2>1, ReachListed DEF OnlyReached
<1>3. QED
  BY <1>1, <1>2, OnlyReachedStep, HeapSafe, PTL DEF Spec

(* The step of BlocksListedOnce. *)
LEMMA ListedOnceStep == HeapInv /\ ListedOnce /\ [Next]_vars => ListedOnce'
<1> SUFFICES ASSUME HeapInv, ListedOnce, [Next]_vars PROVE ListedOnce'
  OBVIOUS
<1> USE DEF heapVars, rootVars, callVars, polVars, markVars
<1>1. /\ DOMAIN quarantine = 0 .. QUARANTINE - 1
      /\ quarantine \in [0 .. QUARANTINE - 1 -> SUBSET Addr]
      /\ gc_collections \in 0 .. QUARANTINE - 1
  BY DEF HeapInv, TypeOK
<1>2. ASSUME UNCHANGED <<all_objects, free_lists, quarantine>> PROVE ListedOnce'
  BY <1>2 DEF ListedOnce
<1>3. ASSUME NEW o \in Addr, NEW k \in AllocKind, NEW b \in Ptr, obj_alloc(o, k, b)
      PROVE  ListedOnce'
  BY <1>3 DEF obj_alloc, Available, FreeAfter, ListedOnce
<1>4. CASE MarkDone
  <2>1. all_objects' = all_objects /\ free_lists' = free_lists
    BY <1>4 DEF MarkDone
  <2>2. /\ DOMAIN quarantine' = DOMAIN quarantine
        /\ \A q \in DOMAIN quarantine : quarantine'[q] \subseteq quarantine[q]
    BY <1>1, <1>4 DEF MarkDone
  <2>3. QED
    BY <2>1, <2>2 DEF ListedOnce
<1>5. ASSUME NEW o \in Addr, SweepFree(o) PROVE ListedOnce'
  <2>1. o \in all_objects /\ all_objects' = all_objects \ {o}
    BY <1>5 DEF SweepFree, HeapInv, Marking
  <2>2. CASE GcVerify
    <3>1. /\ free_lists' = free_lists /\ DOMAIN quarantine' = DOMAIN quarantine
          /\ \A q \in DOMAIN quarantine :
               quarantine'[q] = IF q = gc_collections THEN quarantine[q] \cup {o}
                                ELSE quarantine[q]
      BY <1>1, <1>5, <2>2 DEF SweepFree
    <3>2. QED
      BY <2>1, <3>1 DEF ListedOnce
  <2>3. CASE ~GcVerify
    BY <1>5, <2>1, <2>3 DEF SweepFree, ListedOnce
  <2>4. QED
    BY <2>2, <2>3
<1>6. CASE Mutator /\ ~ \E o \in Addr, k \in AllocKind, b \in Ptr : obj_alloc(o, k, b)
  <2>1. UNCHANGED <<all_objects, free_lists, quarantine>>
    BY <1>6 DEF Mutator, Call, Return, Load, SlotWrite, SetBase, StackWrite, FileWrite,
       Enter, Leave, env_set, env_restore, NativeHold, NativeDrop
  <2>2. QED
    BY <1>2, <2>1
<1>7. CASE PollCall \/ SweepHeap \/ UNCHANGED vars
  BY <1>2, <1>7 DEF PollCall, SweepHeap, GcStart, vars
<1>8. CASE \/ \E o \in Addr : MarkStep(o) \/ SweepKeep(o)
           \/ SweepDone \/ gc_verify_reachable
  BY <1>2, <1>8 DEF MarkStep, SweepKeep, SweepDone, gc_verify_reachable, GcEnd
<1>9. QED
  BY <1>3, <1>4, <1>5, <1>6, <1>7, <1>8 DEF Next, Mutator, Collecting

(* A block is never on two lists at once - object list, free list, a quarantine list - so it
   is neither given out nor freed twice. *)
THEOREM BlocksListedOnce == Spec => []ListedOnce
<1>1. Init => ListedOnce
  BY DEF Init, ListedOnce
<1>2. QED
  BY <1>1, ListedOnceStep, HeapSafe, PTL DEF Spec

-----------------------------------------------------------------------------
(* The counters, at each point of a collection: what the sweep has visited and kept, and
   after it what the roots reach. *)
Counted ==
  /\ phase = "run" => Cardinality(all_objects) = bytes_live + bytes_allocated
  /\ phase = "sweep" => bytes_live = Cardinality(all_objects \ todo)
  /\ phase \in {"verify", "died"} => /\ bytes_live = Cardinality(all_objects)
                                     /\ all_objects = Reach(Roots)
  /\ phase = "died" => bytes_live > HeapLimit

(* The object list, and every part of it, can be counted. *)
LEMMA ObjectsFinite ==
  ASSUME TypeOK, NEW S, S \subseteq all_objects
  PROVE  IsFiniteSet(S) /\ Cardinality(S) \in Nat
<1>1. S \in SUBSET Addr
  BY DEF TypeOK
<1>2. IsFiniteSet(S)
  BY <1>1, FiniteHeap, FS_Subset
<1>3. QED
  BY <1>2, FS_CardinalityType

(* A step that keeps the roots and every pointer keeps what the roots reach. *)
LEMMA SameRootsReach ==
  ASSUME UNCHANGED <<kind, cell, link, rootVars>>
  PROVE  Reach(Roots)' = Reach(Roots)
BY DEF Reach, Roots, Children, rootVars

(* The end of gc_collect keeps Counted when the counter is right. *)
LEMMA CountedEnd ==
  ASSUME TypeOK, GcEnd, bytes_live = Cardinality(all_objects), all_objects = Reach(Roots)
  PROVE  Counted'
<1>1. /\ UNCHANGED <<all_objects, bytes_live>> /\ bytes_allocated' = 0
      /\ phase' \in {"run", "died"} /\ (phase' = "died" => bytes_live > HeapLimit)
  BY DEF GcEnd, heapVars, OverLimit
<1>2. Reach(Roots)' = Reach(Roots)
  BY SameRootsReach DEF GcEnd, heapVars
<1>3. bytes_live \in Nat
  BY DEF TypeOK
<1>4. QED
  BY <1>1, <1>2, <1>3 DEF Counted

(* The step of the two theorems about the counters. *)
LEMMA CountedStep == HeapInv /\ OnlyReached /\ Counted /\ [Next]_vars => Counted'
<1> SUFFICES ASSUME HeapInv, OnlyReached, Counted, [Next]_vars PROVE Counted'
  OBVIOUS
<1> USE DEF heapVars, rootVars, callVars, polVars, markVars
<1>1. TypeOK /\ bytes_live \in Nat /\ bytes_allocated \in Nat
  BY DEF HeapInv, TypeOK
<1>2. CASE \E o \in Addr, k \in AllocKind, b \in Ptr : obj_alloc(o, k, b)
  <2>1. PICK o \in Addr, k \in AllocKind, b \in Ptr : obj_alloc(o, k, b)
    BY <1>2
  <2>2. /\ phase = "run" /\ phase' = "run" /\ o \notin all_objects
        /\ all_objects' = all_objects \cup {o}
        /\ bytes_allocated' = bytes_allocated + 1 /\ bytes_live' = bytes_live
    BY <2>1 DEF obj_alloc, Working, Available
  <2>3. Cardinality(all_objects') = Cardinality(all_objects) + 1
    BY <1>1, <2>2, ObjectsFinite, FS_AddElement
  <2>4. QED
    BY <1>1, <2>2, <2>3 DEF Counted
<1>3. CASE Mutator /\ ~ \E o \in Addr, k \in AllocKind, b \in Ptr : obj_alloc(o, k, b)
  BY <1>3 DEF Mutator, Call, Return, Load, SlotWrite, SetBase, StackWrite, FileWrite,
     Enter, Leave, env_set, env_restore, NativeHold, NativeDrop, Idle, Working, Counted
<1>4. CASE PollCall \/ SweepHeap \/ \E o \in Addr : MarkStep(o)
  BY <1>4 DEF PollCall, SweepHeap, GcStart, MarkStep, Idle, Working, Counted
<1>5. CASE MarkDone
  <2>1. phase' = "sweep" /\ all_objects' \ todo' = {} /\ bytes_live' = 0
    BY <1>5 DEF MarkDone
  <2>2. QED
    BY <2>1, FS_EmptySet DEF Counted
<1>6. ASSUME NEW o \in Addr, SweepKeep(o) PROVE Counted'
  <2>1. /\ phase = "sweep" /\ phase' = "sweep" /\ o \in todo /\ o \in all_objects
        /\ all_objects' \ todo' = (all_objects \ todo) \cup {o}
        /\ bytes_live' = bytes_live + 1
    BY <1>6 DEF SweepKeep, HeapInv, Marking
  <2>2. Cardinality(all_objects' \ todo') = Cardinality(all_objects \ todo) + 1
    BY <1>1, <2>1, ObjectsFinite, FS_AddElement
  <2>3. QED
    BY <2>1, <2>2 DEF Counted
<1>7. ASSUME NEW o \in Addr, SweepFree(o) PROVE Counted'
  <2>1. /\ phase = "sweep" /\ phase' = "sweep" /\ bytes_live' = bytes_live
        /\ all_objects' \ todo' = all_objects \ todo
    BY <1>7 DEF SweepFree
  <2>2. QED
    BY <2>1 DEF Counted
<1>8. CASE SweepDone
  <2>1. phase = "sweep" /\ todo = {}
    BY <1>8 DEF SweepDone
  <2>2. bytes_live = Cardinality(all_objects)
    BY <2>1 DEF Counted
  <2>3. all_objects = Reach(Roots)
    BY <2>1, ReachListed DEF OnlyReached, Survivors, HeapInv, Marking
  <2>4. CASE GcVerify
    <3>1. phase' = "verify" /\ UNCHANGED <<heapVars, rootVars, bytes_live>>
      BY <1>8, <2>4 DEF SweepDone
    <3>2. Reach(Roots)' = Reach(Roots)
      BY <3>1, SameRootsReach
    <3>3. QED
      BY <2>2, <2>3, <3>1, <3>2 DEF Counted
  <2>5. CASE ~GcVerify
    BY <1>1, <1>8, <2>2, <2>3, <2>5, CountedEnd DEF SweepDone
  <2>6. QED
    BY <2>4, <2>5
<1>9. CASE gc_verify_reachable
  <2>1. phase = "verify" /\ GcEnd
    BY <1>9, VerifierSilent DEF gc_verify_reachable
  <2>2. QED
    BY <1>1, <2>1, CountedEnd DEF Counted
<1>10. CASE UNCHANGED vars
  BY <1>10, SameRootsReach DEF vars, Counted
<1>11. QED
  BY <1>2, <1>3, <1>4, <1>5, <1>6, <1>7, <1>8, <1>9, <1>10 DEF Next, Collecting

(* HeapSafe, OnlyReached and Counted hold together from the start. *)
LEMMA CountersRight == Spec => [](HeapInv /\ OnlyReached /\ Counted)
<1>1. Init => OnlyReached /\ Counted
  BY FS_EmptySet DEF Init, OnlyReached, Counted
<1>2. QED
  BY <1>1, OnlyReachedStep, CountedStep, HeapSafe, PTL DEF Spec

(* The two counters together always count the objects there are (csrc/rt.c, obj_alloc,
   gc_sweep, gc_collect): what asks for a collection, and what the limit is compared with. *)
THEOREM CountersAgree == Spec => []HeapAccounting
<1>1. Counted => HeapAccounting
  BY DEF Counted, HeapAccounting
<1>2. QED
  BY <1>1, CountersRight, PTL

(* A program ends for want of memory only when more objects than the limit are reachable
   from its roots at that moment: never for garbage (csrc/rt.c, gc_collect). *)
THEOREM OnlyLiveObjectsKill == Spec => []DiesOfLiveObjects
<1>1. Counted => DiesOfLiveObjects
  BY DEF Counted, DiesOfLiveObjects
<1>2. QED
  BY <1>1, CountersRight, PTL

-----------------------------------------------------------------------------
(* The quarantine.  The slot of the collection before the last three is empty from the sweep
   on, and only verify mode fills any. *)
Released ==
  /\ ~GcVerify => \A q \in DOMAIN quarantine : quarantine[q] = {}
  /\ GcVerify /\ phase \in {"sweep", "verify"} => quarantine[ReleasedSlot] = {}

(* A block in one slot only is in the slot Age chooses. *)
LEMMA OneSlot ==
  ASSUME NEW D, NEW Q, NEW q \in D, NEW o \in Q[q], \A r \in D \ {q} : o \notin Q[r]
  PROVE  (CHOOSE r \in D : o \in Q[r]) = q
OBVIOUS

(* The ages of slot q as collections are counted modulo four. *)
LEMMA Ages ==
  ASSUME NEW g \in 0 .. 3, NEW q \in 0 .. 3
  PROVE  /\ (g + 4 - g) % 4 = 0
         /\ q = (g + 1) % 4 => (g + 4 - q) % 4 = 3
         /\ q # (g + 1) % 4 => (((g + 1) % 4) + 4 - q) % 4 = ((g + 4 - q) % 4) + 1
         /\ (g + 1) % 4 \in 0 .. 3 /\ (g + 1) % 4 # g /\ (g + 4 - q) % 4 \in Nat
<1>1. g \in {0, 1, 2, 3} /\ q \in {0, 1, 2, 3}
  OBVIOUS
<1>2. QED
  BY <1>1

(* The slots are released one at a time, and filled for no collection but the present. *)
LEMMA ReleasedStep == HeapInv /\ Released /\ [Next]_vars => Released'
<1> SUFFICES ASSUME HeapInv, Released, [Next]_vars PROVE Released'
  OBVIOUS
<1> USE DEF heapVars, rootVars, callVars, polVars, markVars
<1>1. /\ DOMAIN quarantine = 0 .. 3 /\ gc_collections \in 0 .. 3
      /\ quarantine \in [0 .. 3 -> SUBSET Addr]
  BY DEF HeapInv, TypeOK, QUARANTINE
<1>2. ReleasedSlot = (gc_collections + 1) % 4 /\ ReleasedSlot \in 0 .. 3
      /\ ReleasedSlot # gc_collections
  BY <1>1, Ages DEF ReleasedSlot, QUARANTINE
<1>3. ASSUME quarantine' = quarantine, gc_collections' = gc_collections,
             phase' \in {"sweep", "verify"} => phase \in {"sweep", "verify"}
      PROVE  Released'
  BY <1>3 DEF Released, ReleasedSlot
<1>4. ASSUME quarantine' = quarantine, phase' \in {"run", "died", "aborted"}
      PROVE  Released'
  BY <1>4 DEF Released
<1>5. CASE Mutator
  <2>1. phase = "run" /\ phase' = "run" /\ quarantine' = quarantine
    BY <1>5 DEF Mutator, Call, Return, obj_alloc, Load, SlotWrite, SetBase, StackWrite, FileWrite,
       Enter, Leave, env_set, env_restore, NativeHold, NativeDrop, Idle, Working
  <2>2. QED
    BY <1>4, <2>1
<1>6. CASE PollCall \/ SweepHeap
  BY <1>3, <1>6 DEF PollCall, SweepHeap, GcStart
<1>7. CASE \E o \in Addr : MarkStep(o) \/ SweepKeep(o)
  BY <1>3, <1>7 DEF MarkStep, SweepKeep
<1>8. CASE MarkDone
  <2>1. CASE GcVerify
    <3>1. quarantine' = [quarantine EXCEPT ![ReleasedSlot] = {}]
          /\ gc_collections' = gc_collections
      BY <1>8, <2>1 DEF MarkDone
    <3>2. QED
      BY <1>1, <1>2, <2>1, <3>1 DEF Released, ReleasedSlot
  <2>2. CASE ~GcVerify
    BY <1>8, <2>2 DEF MarkDone, Released
  <2>3. QED
    BY <2>1, <2>2
<1>9. ASSUME NEW o \in Addr, SweepFree(o) PROVE Released'
  <2>1. phase = "sweep" /\ gc_collections' = gc_collections
    BY <1>9 DEF SweepFree
  <2>2. CASE GcVerify
    <3>1. quarantine' = [quarantine EXCEPT ![gc_collections] = @ \cup {o}]
      BY <1>9, <2>2 DEF SweepFree
    <3>2. QED
      BY <1>1, <1>2, <2>1, <2>2, <3>1 DEF Released, ReleasedSlot
  <2>3. CASE ~GcVerify
    BY <1>9, <2>3 DEF SweepFree, Released
  <2>4. QED
    BY <2>2, <2>3
<1>10. CASE SweepDone
  <2>1. phase = "sweep" /\ quarantine' = quarantine
    BY <1>10 DEF SweepDone, GcEnd
  <2>2. \/ gc_collections' = gc_collections
        \/ phase' \in {"run", "died"}
    BY <1>10 DEF SweepDone, GcEnd
  <2>3. QED
    BY <1>3, <1>4, <2>1, <2>2
<1>11. CASE gc_verify_reachable
  BY <1>4, <1>11 DEF gc_verify_reachable, GcEnd
<1>12. CASE UNCHANGED vars
  BY <1>3, <1>12 DEF vars
<1>13. QED
  BY <1>5, <1>6, <1>7, <1>8, <1>9, <1>10, <1>11, <1>12 DEF Next, Collecting

(* What QuarantineTurns says of a block o at a step. *)
Aged(o) ==
  /\ ~Poisoned(o) /\ Poisoned(o)' => Age(o)' = 0
  /\ Poisoned(o) /\ ~Poisoned(o)' => Age(o) = QUARANTINE - 1
  /\ Poisoned(o) /\ Poisoned(o)' =>
       Age(o)' = Age(o) + (IF phase' \in {"run", "died"} /\ phase # "run" THEN 1 ELSE 0)

(* The step of TurnsKept. *)
LEMMA AgedStep ==
  ASSUME HeapInv, Released, ListedOnce, ListedOnce', TypeOK', Next, NEW o \in Addr
  PROVE  Aged(o)
<1> USE DEF heapVars, rootVars, callVars, polVars, markVars
<1>1. /\ DOMAIN quarantine = 0 .. 3 /\ gc_collections \in 0 .. 3
      /\ quarantine \in [0 .. 3 -> SUBSET Addr]
      /\ DOMAIN quarantine' = 0 .. 3 /\ gc_collections' \in 0 .. 3
  BY DEF HeapInv, TypeOK, QUARANTINE
<1>2. ReleasedSlot = (gc_collections + 1) % 4 /\ ReleasedSlot \in 0 .. 3
      /\ ReleasedSlot # gc_collections
  BY <1>1, Ages DEF ReleasedSlot, QUARANTINE
<1>3. ASSUME NEW q \in 0 .. 3, o \in quarantine[q]
      PROVE  Poisoned(o) /\ Age(o) = (gc_collections + 4 - q) % 4 /\ Age(o) \in Nat
  <2>1. (CHOOSE r \in DOMAIN quarantine : o \in quarantine[r]) = q
    BY <1>1, <1>3, OneSlot DEF ListedOnce
  <2>2. QED
    BY <1>1, <1>3, <2>1, Ages DEF Poisoned, Age, QUARANTINE
<1>4. ASSUME NEW q \in 0 .. 3, o \in quarantine'[q]
      PROVE  Poisoned(o)' /\ Age(o)' = (gc_collections' + 4 - q) % 4
  <2>1. (CHOOSE r \in DOMAIN quarantine' : o \in quarantine'[r]) = q
    BY <1>1, <1>4, OneSlot DEF ListedOnce
  <2>2. QED
    BY <1>1, <1>4, <2>1 DEF Poisoned, Age, QUARANTINE
<1>5. ASSUME quarantine' = quarantine, gc_collections' = gc_collections,
             phase' \in {"run", "died"} => phase = "run"
      PROVE  Aged(o)
  BY <1>1, <1>3, <1>4, <1>5 DEF Aged, Poisoned
<1>6. ASSUME quarantine' = quarantine, GcEnd, phase \in {"sweep", "verify"} PROVE Aged(o)
  <2>1. gc_collections' = (gc_collections + 1) % 4 /\ phase' \in {"run", "died"}
    BY <1>6 DEF GcEnd, QUARANTINE
  <2>2. ASSUME NEW q \in 0 .. 3, o \in quarantine[q] PROVE Age(o)' = Age(o) + 1
    <3>1. quarantine[ReleasedSlot] = {}
      BY <1>1, <1>2, <1>6, <2>2 DEF Released
    <3>2. q # (gc_collections + 1) % 4
      BY <1>2, <2>2, <3>1
    <3>3. QED
      BY <1>1, <1>3, <1>4, <1>6, <2>1, <2>2, <3>2, Ages
  <2>3. Poisoned(o)' <=> Poisoned(o)
    BY <1>6 DEF Poisoned
  <2>4. QED
    BY <1>1, <1>6, <2>1, <2>2, <2>3 DEF Aged, Poisoned
<1>7. CASE Mutator
  <2>1. phase = "run" /\ quarantine' = quarantine /\ gc_collections' = gc_collections
    BY <1>7 DEF Mutator, Call, Return, obj_alloc, Load, SlotWrite, SetBase, StackWrite, FileWrite,
       Enter, Leave, env_set, env_restore, NativeHold, NativeDrop, Idle, Working
  <2>2. QED
    BY <1>5, <2>1
<1>8. CASE PollCall \/ SweepHeap \/ \E x \in Addr : MarkStep(x) \/ SweepKeep(x)
  BY <1>5, <1>8 DEF PollCall, SweepHeap, GcStart, MarkStep, SweepKeep, Idle, Working
<1>9. CASE MarkDone
  <2>1. phase' = "sweep" /\ gc_collections' = gc_collections
    BY <1>9 DEF MarkDone
  <2>2. CASE GcVerify
    <3>1. quarantine' = [quarantine EXCEPT ![ReleasedSlot] = {}]
      BY <1>9, <2>2 DEF MarkDone
    <3>2. \A q \in 0 .. 3 : quarantine'[q] = IF q = ReleasedSlot THEN {} ELSE quarantine[q]
      BY <1>1, <3>1
    <3>3. ASSUME NEW q \in 0 .. 3, o \in quarantine'[q]
          PROVE  Poisoned(o) /\ Age(o)' = Age(o) /\ Age(o) \in Nat
      BY <1>1, <1>3, <1>4, <2>1, <3>2, <3>3
    <3>4. ASSUME NEW q \in 0 .. 3, o \in quarantine[q], ~Poisoned(o)' PROVE Age(o) = 3
      <4>1. q = ReleasedSlot
        BY <1>4, <3>2, <3>4
      <4>2. QED
        BY <1>1, <1>2, <1>3, <3>4, <4>1, Ages
    <3>5. QED
      BY <1>1, <2>1, <3>3, <3>4 DEF Aged, Poisoned, QUARANTINE
  <2>3. CASE ~GcVerify
    BY <1>5, <1>9, <2>1, <2>3 DEF MarkDone
  <2>4. QED
    BY <2>2, <2>3
<1>10. ASSUME NEW x \in Addr, SweepFree(x) PROVE Aged(o)
  <2>1. phase' = "sweep" /\ gc_collections' = gc_collections
    BY <1>10 DEF SweepFree
  <2>2. CASE GcVerify
    <3>1. quarantine' = [quarantine EXCEPT ![gc_collections] = @ \cup {x}]
      BY <1>10, <2>2 DEF SweepFree
    <3>2. \A q \in 0 .. 3 : quarantine'[q] = IF q = gc_collections THEN quarantine[q] \cup {x}
                                            ELSE quarantine[q]
      BY <1>1, <3>1
    <3>3. ASSUME NEW q \in 0 .. 3, o \in quarantine[q]
          PROVE  Poisoned(o)' /\ Age(o)' = Age(o) /\ Age(o) \in Nat
      BY <1>1, <1>3, <1>4, <2>1, <3>2, <3>3
    <3>4. ASSUME NEW q \in 0 .. 3, o \in quarantine'[q], ~Poisoned(o) PROVE Age(o)' = 0
      <4>1. q = gc_collections
        BY <1>3, <3>2, <3>4
      <4>2. QED
        BY <1>1, <1>4, <2>1, <3>4, <4>1, Ages
    <3>5. QED
      BY <1>1, <2>1, <3>3, <3>4 DEF Aged, Poisoned
  <2>3. CASE ~GcVerify
    BY <1>5, <1>10, <2>1, <2>3 DEF SweepFree
  <2>4. QED
    BY <2>2, <2>3
<1>11. CASE SweepDone
  <2>1. phase = "sweep" /\ quarantine' = quarantine
    BY <1>11 DEF SweepDone, GcEnd
  <2>2. GcEnd \/ (phase' = "verify" /\ gc_collections' = gc_collections)
    BY <1>11 DEF SweepDone
  <2>3. QED
    BY <1>5, <1>6, <2>1, <2>2
<1>12. CASE gc_verify_reachable
  <2>1. phase = "verify" /\ GcEnd /\ quarantine' = quarantine
    BY <1>12, VerifierSilent DEF gc_verify_reachable, GcEnd
  <2>2. QED
    BY <1>6, <2>1
<1>13. QED
  BY <1>7, <1>8, <1>9, <1>10, <1>11, <1>12 DEF Next, Collecting

(* In verify mode a freed block stays poisoned until its slot of the ring is needed: it leaves
   three collections after the one that freed it, never sooner, and none is left behind
   (csrc/rt.c, gc_sweep, quarantine_release). *)
THEOREM TurnsKept == Spec => QuarantineTurns
<1>1. Init => Released
  BY DEF Init, Released, QUARANTINE
<1>2. ASSUME HeapInv, Released, ListedOnce, HeapInv', ListedOnce', [Next]_vars
      PROVE  [\A o \in Addr : Aged(o)]_vars
  <2>1. TypeOK'
    BY <1>2 DEF HeapInv
  <2>2. QED
    BY <1>2, <2>1, AgedStep
<1>3. [][\A o \in Addr : Aged(o)]_vars => QuarantineTurns
  BY PTL DEF Aged, QuarantineTurns
<1>4. QED
  BY <1>1, <1>2, <1>3, ReleasedStep, HeapSafe, BlocksListedOnce, PTL DEF Spec

-----------------------------------------------------------------------------
(* Refinement.  The pointers each listed object holds, as the managed heap sees them. *)
Succ == [o \in Addr |-> IF o \in all_objects THEN Children(o) ELSE {}]

(* What the abstract heap can reach is what the collector's heap can. *)
LEMMA SameReach == HeapInv => Promise!Reachable = Reach(Seeds)
<1> SUFFICES ASSUME HeapInv PROVE Promise!Reachable = Reach(Seeds)
  OBVIOUS
<1>1. /\ Seeds \subseteq Survivors /\ Survivors \subseteq all_objects
      /\ all_objects \subseteq Addr
      /\ \A x \in Survivors : Children(x) \subseteq Survivors
  BY DEF HeapInv, ClosedHeap, TypeOK
<1>2. ASSUME NEW o \in Reach(Seeds), NEW S \in SUBSET Addr, Seeds \subseteq S,
             \A x \in S : Succ[x] \subseteq S
      PROVE  o \in S
  <2>1. S \cap Survivors \in SUBSET Addr /\ Seeds \subseteq S \cap Survivors
    BY <1>1, <1>2
  <2>2. \A x \in S \cap Survivors : Children(x) \subseteq S \cap Survivors
    BY <1>1, <1>2 DEF Succ
  <2>3. QED
    BY <2>1, <2>2, ReachInClosed
<1>3. ASSUME NEW o \in Promise!Reachable, NEW S \in SUBSET Addr, Seeds \subseteq S,
             \A x \in S : Children(x) \subseteq S
      PROVE  o \in S
  <2>1. \A x \in S : Succ[x] \subseteq S
    BY <1>3 DEF Succ
  <2>2. QED
    BY <1>3, <2>1 DEF Promise!Reachable, Succ
<1>4. Reach(Seeds) \subseteq Addr /\ Promise!Reachable \subseteq Addr
  BY DEF Reach, Promise!Reachable
<1>5. QED
  BY <1>2, <1>3, <1>4 DEF Reach, Promise!Reachable, Succ

(* What the program can reach while it runs: the pointers it holds, and theirs. *)
LEMMA KnownPointers ==
  ASSUME HeapInv, phase = "run"
  PROVE  /\ Roots \cup held \subseteq Reach(Seeds)
         /\ \A x \in Reach(Seeds) : Children(x) \subseteq Reach(Seeds)
         /\ Reach(Seeds) \subseteq all_objects
<1>1. Seeds \in SUBSET Addr /\ Survivors = all_objects
  BY DEF HeapInv, ClosedHeap, TypeOK, Survivors
<1>2. \A x \in Addr : Children(x) \subseteq Addr
  BY ChildrenAreAddr DEF HeapInv
<1>3. QED
  BY <1>1, <1>2, ReachClosed, ReachListed DEF Seeds

(* A step that changes no object, and after which the program holds only pointers it could
   reach before, is a mutation the promise allows. *)
LEMMA PromisedRootStep ==
  ASSUME HeapInv, phase = "run", UNCHANGED heapVars, Seeds' \subseteq Reach(Seeds)
  PROVE  Promise!Mutate
<1>1. Succ' = Succ /\ all_objects' = all_objects
  BY DEF Succ, Children, heapVars
<1>2. Promise!Reachable = Reach(Seeds)
  BY SameReach
<1>3. \A o \in Reach(Seeds) : Succ[o] \subseteq Reach(Seeds)
  BY KnownPointers DEF Succ, Reach
<1>4. QED
  BY <1>1, <1>2, <1>3 DEF Promise!Mutate, Succ

(* So is a step that gives the program a new object or writes a known pointer to one. *)
LEMMA PromisedHeapStep ==
  ASSUME HeapInv, NEW o \in Addr,
         \/ \E k \in AllocKind, b \in Ptr : obj_alloc(o, k, b)
         \/ \E i \in Field, p \in Ptr : SlotWrite(o, i, p)
         \/ \E b \in Addr : SetBase(o, b)
  PROVE  Promise!Mutate
<1> USE DEF heapVars, rootVars, callVars, polVars, markVars
<1> DEFINE Known == Reach(Seeds)
           New == all_objects' \ all_objects
<1>1. phase = "run" /\ Roots' = Roots
  BY DEF obj_alloc, SlotWrite, SetBase, Working, Roots
<1>2. /\ Roots \cup held \subseteq Known /\ Known \subseteq all_objects
      /\ \A x \in Known : Children(x) \subseteq Known
  BY <1>1, KnownPointers
<1>3. /\ all_objects \subseteq all_objects' /\ all_objects' \subseteq all_objects \cup {o}
      /\ held' \subseteq Known \cup New
      /\ o \in Known \cup New
  BY <1>2 DEF obj_alloc, SlotWrite, SetBase, Available
<1>4. \A x \in all_objects \ {o} : Children(x)' = Children(x)
  BY DEF obj_alloc, SlotWrite, SetBase, Children, HeapInv, TypeOK
<1>5. Children(o)' \subseteq Known
  <2>1. ASSUME NEW k \in AllocKind, NEW b \in Ptr, obj_alloc(o, k, b)
        PROVE  Children(o)' \subseteq Known
    <3>1. b = Nil \/ b \in Known
      BY <1>2, <2>1 DEF obj_alloc, BaseAtBirth, Roots
    <3>2. QED
      BY <2>1, <3>1 DEF obj_alloc, Zeroed, Children, HeapInv, TypeOK
  <2>2. ASSUME NEW i \in Field, NEW p \in Ptr, SlotWrite(o, i, p)
        PROVE  Children(o)' \subseteq Known
    <3>1. o \in Known /\ (p = Nil \/ p \in Known)
      BY <1>2, <2>2 DEF SlotWrite
    <3>2. Children(o)' \subseteq Children(o) \cup ({p} \ {Nil})
      BY <2>2 DEF SlotWrite, Children, HeapInv, TypeOK
    <3>3. QED
      BY <1>2, <3>1, <3>2
  <2>3. ASSUME NEW b \in Addr, SetBase(o, b)
        PROVE  Children(o)' \subseteq Known
    <3>1. o \in Known /\ b \in Known
      BY <1>2, <2>3 DEF SetBase
    <3>2. Children(o)' \subseteq Children(o) \cup {b}
      BY <2>3 DEF SetBase, Children, HeapInv, TypeOK
    <3>3. QED
      BY <1>2, <3>1, <3>2
  <2>4. QED
    BY <2>1, <2>2, <2>3
<1>6. \A x \in Addr \ {o} : Succ'[x] = Succ[x]
  BY <1>3, <1>4 DEF Succ
<1>7. Succ'[o] \subseteq Known
  BY <1>5 DEF Succ
<1>8. \A x \in Known : Succ[x] \subseteq Known
  BY <1>2 DEF Succ, Reach
<1>9. \A x \in Known \cup New : Succ'[x] \subseteq Known
  BY <1>2, <1>3, <1>6, <1>7, <1>8 DEF Reach
<1>10. \A x \in Addr \ (Known \cup New) : Succ'[x] = Succ[x]
  BY <1>3, <1>6
<1>11. Seeds' \subseteq Known \cup New
  BY <1>1, <1>2, <1>3 DEF Seeds
<1>12. Promise!Reachable = Known
  BY SameReach
<1>13. QED
  BY <1>3, <1>9, <1>10, <1>11, <1>12 DEF Promise!Mutate, Succ

(* Every step of the collector is one the promise allows, or changes nothing it sees. *)
LEMMA PromisedStep == HeapInv /\ [Next]_vars => [Promise!Next]_(Promise!vars)
<1> SUFFICES ASSUME HeapInv, [Next]_vars PROVE [Promise!Next]_(Promise!vars)
  OBVIOUS
<1> USE DEF heapVars, rootVars, callVars, polVars, markVars
<1>1. ASSUME UNCHANGED <<all_objects, kind, cell, link, rootVars, held>>
      PROVE  UNCHANGED Promise!vars
  BY <1>1 DEF Promise!vars, Seeds, Roots, Children
<1>2. CASE \E o \in Addr : \/ \E k \in AllocKind, b \in Ptr : obj_alloc(o, k, b)
                           \/ \E i \in Field, p \in Ptr : SlotWrite(o, i, p)
                           \/ \E b \in Addr : SetBase(o, b)
  BY <1>2, PromisedHeapStep DEF Promise!Next
<1>3. ASSUME phase = "run", UNCHANGED heapVars, Seeds' \subseteq Reach(Seeds)
      PROVE  Promise!Next
  BY <1>3, PromisedRootStep DEF Promise!Next
<1>4. phase = "run" => /\ Roots \cup held \subseteq Reach(Seeds)
                       /\ \A x \in Reach(Seeds) : Children(x) \subseteq Reach(Seeds)
  BY KnownPointers
<1>5. CASE Call \/ Return \/ PollCall \/ SweepHeap
  <2>1. phase = "run" /\ UNCHANGED <<heapVars, rootVars>> /\ held' \subseteq held
    BY <1>5 DEF Call, Return, PollCall, SweepHeap, GcStart, Idle, Working
  <2>2. QED
    BY <1>3, <1>4, <2>1 DEF Seeds, Roots
<1>6. CASE \E p \in Addr : Load(p) \/ NativeHold(p) \/ NativeDrop(p)
  <2>1. PICK p \in Addr : Load(p) \/ NativeHold(p) \/ NativeDrop(p)
    BY <1>6
  <2>2. /\ phase = "run" /\ UNCHANGED <<heapVars, stack, env, saved, files>>
        /\ native' \subseteq native \cup {p} /\ held' \subseteq held \cup {p}
    BY <2>1 DEF Load, NativeHold, NativeDrop, Idle, Working
  <2>3. p \in Reach(Seeds)
    BY <1>4, <2>1, <2>2 DEF Load, NativeHold, NativeDrop, Roots
  <2>4. QED
    BY <1>3, <1>4, <2>2, <2>3 DEF Seeds, Roots
<1>7. CASE \/ \E i \in StackIx, p \in Ptr : StackWrite(i, p)
           \/ \E i \in FileIx, p \in Ptr : FileWrite(i, p)
  <2>1. /\ phase = "run" /\ UNCHANGED <<heapVars, env, saved, native, callVars>>
        /\ \A i \in StackIx : stack'[i] = stack[i] \/ stack'[i] \in held \cup {Nil}
        /\ \A i \in FileIx : files'[i] = files[i] \/ files'[i] \in held \cup {Nil}
    BY <1>7 DEF StackWrite, FileWrite, Working, HeapInv, TypeOK
  <2>2. QED
    BY <1>3, <1>4, <2>1 DEF Seeds, Roots
<1>8. CASE \/ \E f \in Addr : Enter(f)
           \/ \E i \in SavedIx, f \in Addr : env_set(i, f)
           \/ \E i \in SavedIx : env_restore(i)
           \/ Leave
  <2>1. phase = "run" /\ UNCHANGED <<heapVars, stack, files, native, callVars>>
    BY <1>8 DEF Enter, env_set, env_restore, Leave, Working
  <2>2. \A i \in SavedIx : saved'[i] \in {saved[i], env, Nil}
    BY <1>8 DEF Enter, env_set, env_restore, Leave, HeapInv, TypeOK
  <2>3. env # Nil => env \in Reach(Seeds) /\ kind[env] = K_FRAME
    BY <1>4, <2>1 DEF Roots, HeapInv, FrameChain
  <2>4. env' = Nil \/ env' \in Reach(Seeds)
    <3>1. CASE Leave
      <4>1. env' = link[env] /\ env # Nil
        BY <3>1 DEF Leave
      <4>2. env' # Nil => env' \in Children(env)
        BY <2>3, <4>1 DEF Children
      <4>3. QED
        BY <1>4, <2>1, <2>3, <4>1, <4>2
    <3>2. CASE \E f \in Addr : Enter(f) \/ \E i \in SavedIx : env_set(i, f)
      BY <1>4, <2>1, <3>2 DEF Enter, env_set
    <3>3. CASE \E i \in SavedIx : env_restore(i)
      BY <1>4, <2>1, <3>3 DEF env_restore, Roots
    <3>4. QED
      BY <1>8, <3>1, <3>2, <3>3
  <2>5. Seeds' \subseteq Reach(Seeds)
    BY <1>4, <2>1, <2>2, <2>4 DEF Seeds, Roots
  <2>6. QED
    BY <1>3, <2>1, <2>5
<1>9. CASE \/ \E o \in Addr : MarkStep(o) \/ SweepKeep(o)
           \/ MarkDone \/ SweepDone \/ gc_verify_reachable \/ UNCHANGED vars
  BY <1>1, <1>9 DEF MarkStep, MarkDone, SweepKeep, SweepDone, gc_verify_reachable, GcEnd, vars
<1>10. ASSUME NEW o \in Addr, SweepFree(o) PROVE Promise!Next
  <2>1. /\ phase = "sweep" /\ o \in todo /\ o \notin mark
        /\ all_objects' = all_objects \ {o}
        /\ UNCHANGED <<cell, link, rootVars, held>>
        /\ todo \subseteq all_objects
    BY <1>10 DEF SweepFree, HeapInv, Marking
  <2>2. o \notin Promise!Reachable
    BY <2>1, SameReach, ReachListed DEF Survivors
  <2>3. \A x \in Addr \ {o} : kind'[x] = kind[x]
    BY <1>10 DEF SweepFree, HeapInv, TypeOK
  <2>4. \A x \in Addr \ {o} : Children(x)' = Children(x)
    BY <2>1, <2>3 DEF Children
  <2>5. Succ' = [Succ EXCEPT ![o] = {}]
    BY <2>1, <2>4 DEF Succ
  <2>6. Seeds' = Seeds
    BY <2>1 DEF Seeds, Roots
  <2>7. Promise!Reclaim(o)
    BY <2>1, <2>2, <2>5, <2>6 DEF Promise!Reclaim, Succ
  <2>8. QED
    BY <2>7 DEF Promise!Next
<1>11. QED
  BY <1>2, <1>5, <1>6, <1>7, <1>8, <1>9, <1>10 DEF Next, Mutator, Collecting

(* The compiled program's heap, collector and all, is a managed heap: what the program can
   reach stays with its contents until the program changes it, and only what it cannot reach
   is reclaimed. *)
THEOREM HeapKeepsPromise == Spec => KeepsPromise
<1>1. Init => Promise!Init
  BY DEF Init, Promise!Init, Seeds, Roots
<1>2. QED
  BY <1>1, PromisedStep, HeapSafe, PTL DEF Spec, KeepsPromise, Promise!Spec
=============================================================================
