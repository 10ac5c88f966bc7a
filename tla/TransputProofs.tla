--------------------------- MODULE TransputProofs ---------------------------
(****************************************************************************)
(* What holds of files, calls and standard output in every program: the     *)
(* invariant of TransputInvariant is kept by every step, and gives the      *)
(* properties of Transput.                                                  *)
(****************************************************************************)
EXTENDS TransputInvariant

-----------------------------------------------------------------------------
(* The calls in progress. *)

(* the fields of a frame *)
LEMMA FrameParts ==
  ASSUME NEW c \in Frame
  PROVE  /\ c.op \in {"event", "get", "gets", "printf", "puts", "hole"}
         /\ c.op = "event" => c \in EventFrames
         /\ c.op = "get" => c \in GetFrames
         /\ c.op = "gets" => c \in GetsFrames
         /\ c.op = "printf" => c \in PrintfFrames
         /\ c.op = "puts" => c \in PutsFrames
         /\ c.op # "hole" => c.f \in Nat
<1>1. CASE c \in EventFrames
  BY <1>1 DEF EventFrames
<1>2. CASE c \in GetFrames
  BY <1>2 DEF GetFrames
<1>3. CASE c \in GetsFrames
  BY <1>3 DEF GetsFrames
<1>4. CASE c \in PrintfFrames
  BY <1>4 DEF PrintfFrames
<1>5. CASE c \in PutsFrames
  BY <1>5 DEF PutsFrames
<1>6. CASE c \in HoleFrames
  BY <1>6 DEF HoleFrames
<1>7. QED
  BY <1>1, <1>2, <1>3, <1>4, <1>5, <1>6 DEF Frame

(* ds are the calls around the m innermost of cs *)
Around1(ds, cs, m) ==
  /\ Len(ds) \in Nat /\ Len(cs) \in Nat /\ m \in Nat /\ Len(ds) + m = Len(cs)
  /\ \A i \in 1 .. Len(ds) : ds[i] = cs[i + m]

(* What holds of a call depends on the calls around it only. *)
LEMMA Shifted ==
  ASSUME NEW ds, NEW cs, NEW m, Around1(ds, cs, m), NEW i \in 1 .. Len(ds), NEW w, NEW l
  PROVE  i + m \in 1 .. Len(cs) /\ (InCall(cs, i + m, w, l) <=> InCall(ds, i, w, l))
<1>1. /\ Len(ds) \in Nat /\ Len(cs) \in Nat /\ m \in Nat /\ Len(ds) + m = Len(cs)
      /\ \A j \in 1 .. Len(ds) : ds[j] = cs[j + m]
  BY DEF Around1
<1>2. i + m \in 1 .. Len(cs) /\ ds[i] = cs[i + m]
  BY <1>1
<1>3. \A j \in Outer(ds, i) : j + m \in Outer(cs, i + m) /\ ds[j] = cs[j + m]
  BY <1>1 DEF Outer
<1>4. \A j \in Outer(cs, i + m) : j - m \in Outer(ds, i) /\ ds[j - m] = cs[j]
  <2>1. ASSUME NEW j \in Outer(cs, i + m) PROVE j - m \in Outer(ds, i) /\ ds[j - m] = cs[j]
    <3>1. j - m \in 1 .. Len(ds) /\ j - m \in Outer(ds, i) /\ (j - m) + m = j
      BY <1>1 DEF Outer
    <3>2. ds[j - m] = cs[(j - m) + m]
      BY <1>1, <3>1
    <3>3. QED
      BY <3>1, <3>2
  <2>2. QED
    BY <2>1
<1>5. OnTop(cs, i + m) <=> OnTop(ds, i)
  BY <1>2, <1>3, <1>4 DEF OnTop
<1>6. \A p : Begun(cs, i + m, p, l) <=> Begun(ds, i, p, l)
  BY <1>3, <1>4 DEF Begun
<1>7. (\E j \in Outer(cs, i + m) : cs[j].op = "printf") <=> (\E j \in Outer(ds, i) : ds[j].op = "printf")
  BY <1>3, <1>4
<1>8. (i + m < Len(cs) /\ cs[i + m + 1].op = "get") <=> (i < Len(ds) /\ ds[i + 1].op = "get")
  <2>1. i + m < Len(cs) <=> i < Len(ds)
    BY <1>1
  <2>2. i < Len(ds) => i + 1 \in 1 .. Len(ds) /\ (i + 1) + m = i + m + 1
    BY <1>1
  <2>3. QED
    BY <1>1, <2>1, <2>2
<1>9. QED
  BY <1>2, <1>5, <1>6, <1>7, <1>8 DEF InCall

(* What calls know of the files stays true. *)
LEMMA CarriesCalls ==
  ASSUME NEW cs \in Seq(Frame), NEW w \in World, NEW v \in World, Carries(w, v), NEW l,
         InCalls(cs, w, l)
  PROVE  InCalls(cs, v, l)
<1>1. ASSUME NEW i \in 1 .. Len(cs) PROVE InCall(cs, i, v, l)
  <2>1. InCall(cs, i, w, l) /\ cs[i] \in Frame
    BY <1>1 DEF InCalls
  <2>2. /\ Len(w.files) \in Nat /\ Len(v.files) \in Nat /\ Len(w.shown) \in Nat
        /\ Len(v.shown) \in Nat /\ Len(w.said) \in Nat /\ Len(v.said) \in Nat
    BY WorldParts, Joined
  <2>3. cs[i].op # "hole" => /\ cs[i].f \in 1 .. Len(v.files)
                             /\ v.files[cs[i].f].temp = w.files[cs[i].f].temp
    BY <2>1, <2>2, SMTT(30) DEF InCall, Carries
  <2>4. cs[i].op = "printf" /\ cs[i].f = StandOut =>
          cs[i].said <= Len(v.shown) + cs[i].start /\ cs[i].said <= Len(v.said)
    <3>1. SUFFICES ASSUME cs[i].op = "printf" /\ cs[i].f = StandOut
                   PROVE  cs[i].said <= Len(v.shown) + cs[i].start /\ cs[i].said <= Len(v.said)
      OBVIOUS
    <3>2. cs[i].said \in Nat /\ cs[i].start \in Nat
      BY <2>1, <3>1, FrameParts DEF PrintfFrames
    <3>3. cs[i].said <= Len(w.shown) + cs[i].start /\ cs[i].said <= Len(w.said)
      BY <2>1, <3>1 DEF InCall
    <3>4. QED
      BY <2>2, <3>2, <3>3, SMTT(30) DEF Carries
  <2>5. QED
    BY <2>1, <2>3, <2>4 DEF InCall
<1>2. QED
  BY <1>1 DEF InCalls

(* the buffer of a string of a call of get: a value it has had, or has *)
WeakBy(c, w) ==
  LET a == w.files[c.f].assoc
  IN a \in Vars /\ w.files[c.f].loaded => w.files[c.f].buf \in c.seen \cup {w.strs[a]}
WeakSeen(cs, w) == \A i \in 1 .. Len(cs) : cs[i].op = "get" => WeakBy(cs[i], w)
(* What calls of get have seen covers the buffers of their strings. *)
LEMMA CarriesSeen ==
  ASSUME NEW cs, NEW w \in World, NEW v \in World, Carries(w, v), NEW l,
         InCalls(cs, w, l), Seen(cs, w)
  PROVE  WeakSeen(cs, v)
<1>1. ASSUME NEW i \in 1 .. Len(cs), cs[i].op = "get" PROVE WeakBy(cs[i], v)
  <2>1. cs[i].f \in 1 .. Len(w.files) /\ SeenBy(cs[i], w)
    BY <1>1 DEF InCalls, InCall, Seen
  <2>2. QED
    BY <2>1 DEF SeenBy, WeakBy, Carries
<1>2. QED
  BY <1>1 DEF WeakSeen

(* A call of get remembers what its string is now. *)
LEMMA Remembered ==
  ASSUME NEW cs \in Seq(Frame), NEW w \in World, NEW l, InCalls(cs, w, l), WeakSeen(cs, w)
  PROVE  LET r == Remember(cs, w)
         IN /\ r \in Seq(Frame) /\ InCalls(r, w, l) /\ Seen(r, w)
            /\ \A n : CutBy(cs, n, l) => CutBy(r, n, l)
            /\ \A p : Begun(cs, 0, p, l) => Begun(r, 0, p, l)
<1> DEFINE r == Remember(cs, w)
           Rem(c) == IF c.op = "get" /\ w.files[c.f].assoc \in Vars
                     THEN [c EXCEPT !.seen = @ \cup {w.strs[w.files[c.f].assoc]}] ELSE c
<1>1. Len(r) = Len(cs) /\ Len(cs) \in Nat /\ \A i \in 1 .. Len(cs) : r[i] = Rem(cs[i])
  BY DEF Remember
<1>2. ASSUME NEW i \in 1 .. Len(cs)
      PROVE  /\ r[i] \in Frame /\ r[i].op = cs[i].op
             /\ cs[i].op # "get" => r[i] = cs[i]
             /\ cs[i].op = "get" => r[i].f = cs[i].f /\ SeenBy(r[i], w)
  <2> DEFINE c == cs[i]
             x == w.strs[w.files[c.f].assoc]
  <2>1. c \in Frame /\ InCall(cs, i, w, l) /\ r[i] = Rem(c)
    <3> HIDE DEF r, Rem
    <3>1. c \in Frame /\ InCall(cs, i, w, l)
      BY <1>2 DEF InCalls
    <3>2. QED
      BY <1>1, <1>2, <3>1
  <2>2. CASE c.op # "get"
    BY <2>1, <2>2
  <2>3. CASE c.op = "get" /\ w.files[c.f].assoc \notin Vars
    BY <2>1, <2>3 DEF SeenBy
  <2>4. CASE c.op = "get" /\ w.files[c.f].assoc \in Vars
    <3>1. c \in GetFrames /\ x \in Text
      BY <2>1, <2>4, FrameParts, WorldParts
    <3>2. r[i] = [c EXCEPT !.seen = @ \cup {x}]
      BY <2>1, <2>4
    <3>3. WeakBy(c, w)
      BY <1>2, <2>4 DEF WeakSeen
    <3> HIDE DEF r, c, x
    <3>4. r[i] \in GetFrames /\ r[i].op = c.op /\ r[i].f = c.f /\ r[i].seen = c.seen \cup {x}
      BY <3>1, <3>2 DEF GetFrames
    <3>5. SeenBy(r[i], w)
      BY <3>3, <3>4 DEF WeakBy, SeenBy, x
    <3>6. r[i] \in Frame
      BY <3>4 DEF Frame
    <3>7. QED
      BY <2>4, <3>4, <3>5, <3>6 DEF c
  <2>5. QED
    BY <2>2, <2>3, <2>4
<1> HIDE DEF r, Rem
<1>3. r \in Seq(Frame)
  <2>1. r = [i \in 1 .. Len(cs) |-> r[i]]
    BY DEF r, Remember
  <2>2. QED
    BY <1>1, <1>2, <2>1
<1>4. Seen(r, w)
  BY <1>1, <1>2 DEF Seen
<1>5. \A n : CutBy(cs, n, l) => CutBy(r, n, l)
  BY <1>1, <1>2 DEF CutBy
<1>6. \A p : \A i \in 0 .. Len(cs) : Begun(cs, i, p, l) => Begun(r, i, p, l)
  BY <1>1, <1>2 DEF Begun, Outer
<1>7. ASSUME NEW i \in 1 .. Len(cs) PROVE InCall(r, i, w, l)
  <2>1. InCall(cs, i, w, l)
    BY <1>7 DEF InCalls
  <2>2. \A j \in Outer(cs, i) : /\ r[j].op = cs[j].op /\ (r[j].op # "hole" => r[j].f = cs[j].f)
                                /\ j \in 1 .. Len(cs)
    BY <1>1, <1>2 DEF Outer
  <2>3. Outer(r, i) = Outer(cs, i)
    BY <1>1 DEF Outer
  <2>4. CASE cs[i].op = "get"
    <3>1. r[i].op = "get" /\ r[i].f = cs[i].f
      BY <1>2, <2>4
    <3>2. QED
      BY <2>1, <2>4, <3>1 DEF InCall
  <2>5. CASE cs[i].op # "get"
    <3>1. r[i] = cs[i]
      BY <1>2, <2>5
    <3>2. OnTop(cs, i) => OnTop(r, i)
      BY <2>2, <2>3, <3>1 DEF OnTop
    <3>3. \A p : Begun(cs, i, p, l) => Begun(r, i, p, l)
      BY <1>6
    <3>4. (i < Len(cs) /\ cs[i + 1].op = "get") => (i < Len(r) /\ r[i + 1].op = "get")
      BY <1>1, <1>2
    <3>5. (\E j \in Outer(cs, i) : cs[j].op = "printf") => \E j \in Outer(r, i) : r[j].op = "printf"
      BY <2>2, <2>3
    <3> HIDE DEF r
    <3>6. QED
      BY <2>1, <2>5, <3>1, <3>2, <3>3, <3>4, <3>5 DEF InCall
  <2>6. QED
    BY <2>4, <2>5
<1>8. InCalls(r, w, l)
  BY <1>1, <1>7 DEF InCalls
<1>9. \A p : Begun(cs, 0, p, l) => Begun(r, 0, p, l)
  BY <1>1, <1>6
<1>10. QED
  BY <1>3, <1>4, <1>5, <1>8, <1>9 DEF r

-----------------------------------------------------------------------------
(* What every step keeps. *)

Prompted == io'.stdin # io.stdin => io'.shown = io.said
Keeps == status' = "died" /\ ~left => Kept
Stepped == TransputInv' /\ Prompted /\ Keeps

Running == TransputInv /\ status = "running"

(* the world a call leaves is in order *)
Sound(w) ==
  /\ w \in World /\ Good(w, plan.disk) /\ Held(w) /\ ~w.old
  /\ Ordered(w) /\ Len(w.said) <= plan.out
  /\ w.stdin # io.stdin => w.shown = io.said

(* A step of the running program leaves the world w and the calls cs. *)
LEMMA GoesStep ==
  ASSUME Running, NEW w, Sound(w), Fits(w), NEW cs \in Seq(Frame), InCalls(cs, w, left),
         WeakSeen(cs, w), CutBy(cs, w.nul, left), Begun(cs, 0, pf, left), Goes(w, cs)
  PROVE  Stepped
<1> DEFINE r == Remember(cs, w)
<1>1. io' = w /\ calls' = r /\ pf' = pf /\ status' = status /\ plan' = plan /\ left' = left
  BY DEF Goes
<1>2. /\ r \in Seq(Frame) /\ InCalls(r, w, left) /\ Seen(r, w) /\ CutBy(r, w.nul, left)
      /\ Begun(r, 0, pf, left)
  BY Remembered DEF Sound
<1> HIDE DEF r
<1>3. Bounded(w)
  <2>1. w.shown \in Text /\ w.out \in Text
    BY WorldParts DEF Sound
  <2>2. Len(w.shown \o w.out) = Len(w.shown) + Len(w.out)
    BY <2>1, Joined
  <2>3. Len(w.shown) \in Nat /\ Len(w.out) \in Nat
    BY <2>1 DEF Text
  <2>4. plan.out \in Nat
    BY Shapes DEF Running, TransputInv
  <2>5. Len(w.said) = Len(w.shown) + Len(w.out) /\ Len(w.said) <= plan.out
    BY <2>2 DEF Sound, Ordered
  <2>6. Len(w.shown) + Len(w.out) <= plan.out + 1
    <3> DEFINE a == Len(w.shown)
               b == Len(w.out)
               c == plan.out
               m == Len(w.said)
    <3>1. a \in Nat /\ b \in Nat /\ c \in Nat /\ m = a + b /\ m <= c
      BY <2>3, <2>4, <2>5
    <3> HIDE DEF a, b, c, m
    <3>2. a + b <= c + 1
      BY <3>1
    <3>3. QED
      BY <3>2 DEF a, b, c
  <2>7. QED
    BY <2>6 DEF Bounded, Fits
<1>4. TransputInv'
  <2>1. InCalls(calls, io, left)'
    BY <1>1, <1>2 DEF InCalls, InCall
  <2>2. Bounded(io)'
    BY <1>1, <1>3 DEF Bounded
  <2>3. (Seen(calls, io) /\ CutBy(calls, io.nul, left) /\ Begun(calls, 0, pf, left))'
    BY <1>1, <1>2
  <2>4. /\ plan' \in Scenarios /\ left' \in BOOLEAN /\ pf' \in PfState /\ calls' \in Seq(Frame)
        /\ status' = "running" /\ (pf'.active => "printf" \in plan'.uses)
    BY <1>1, <1>2 DEF Running, TransputInv
  <2>5. /\ io' \in World /\ Table(io') /\ Held(io') /\ ~io'.old /\ Saved(io', plan'.disk)
        /\ Ordered(io') /\ Len(io'.said) <= plan'.out
    BY <1>1 DEF Sound, Good
  <2>6. QED
    BY <2>1, <2>2, <2>3, <2>4, <2>5 DEF TransputInv
<1>5. Prompted
  BY <1>1 DEF Sound, Prompted
<1>6. Keeps
  BY <1>1 DEF Keeps, Running
<1>7. QED
  BY <1>4, <1>5, <1>6 DEF Stepped

(* what holds while the program runs *)
LEMMA RunningParts ==
  ASSUME Running
  PROVE  /\ plan \in Scenarios /\ left \in BOOLEAN /\ pf \in PfState /\ calls \in Seq(Frame)
         /\ io \in World /\ Good(io, plan.disk) /\ Held(io) /\ Bounded(io) /\ ~io.old
         /\ (pf.active => "printf" \in plan.uses) /\ CutBy(calls, io.nul, left)
         /\ Ordered(io) /\ Len(io.said) <= plan.out /\ InCalls(calls, io, left)
         /\ Seen(calls, io) /\ Begun(calls, 0, pf, left) /\ Len(calls) \in Nat
BY DEF Running, TransputInv, Good

(* A world read from the current one is sound. *)
LEMMA ReadSound ==
  ASSUME Running, NEW w \in World, Good(w, plan.disk), Reading(io, w)
  PROVE  Sound(w) /\ Carries(io, w) /\ w.nul = io.nul
<1>1. io \in World /\ Held(io) /\ ~io.old /\ Ordered(io) /\ Len(io.said) <= plan.out
  BY RunningParts
<1>2. Works(io, w) /\ Ordered(w) /\ (w.stdin # io.stdin => w.shown = io.said)
  BY <1>1, ReadingWorks
<1>3. Held(w) /\ Carries(io, w) /\ ~w.old
  BY <1>1, <1>2, AlikeHeld, WorksCarries DEF Works
<1>4. QED
  BY <1>1, <1>2, <1>3 DEF Sound, Reading
(* A world that has been written to is sound, *)
LEMMA WriteSound ==
  ASSUME Running, NEW w \in World, Good(w, plan.disk), Writing(io, w), Len(w.said) <= plan.out
  PROVE  Sound(w) /\ Carries(io, w)
<1>1. io \in World /\ Held(io) /\ ~io.old /\ Ordered(io)
  BY RunningParts
<1>2. Works(io, w) /\ Ordered(w)
  BY <1>1, WritingWorks
<1>3. Held(w) /\ Carries(io, w) /\ ~w.old
  BY <1>1, <1>2, AlikeHeld, WorksCarries DEF Works
<1>4. QED
  BY <1>1, <1>2, <1>3 DEF Sound, Writing
(* and so is one that keeps the terminal as it was. *)
LEMMA ApartSound ==
  ASSUME Running, NEW w \in World, Good(w, plan.disk), Held(w), w.out = io.out,
         w.shown = io.shown, w.said = io.said, w.stdin = io.stdin, w.old = io.old
  PROVE  Sound(w)
<1>1. ~io.old /\ Ordered(io) /\ Len(io.said) <= plan.out
  BY RunningParts
<1>2. QED
  BY <1>1 DEF Sound, Ordered

(* A call that is one step. *)
LEMMA DoesStep ==
  ASSUME Running, NEW w, Sound(w), Carries(io, w), CutBy(calls, w.nul, left), Does(w)
  PROVE  Stepped
<1>1. w \in World
  BY DEF Sound
<1>2. InCalls(calls, w, left) /\ WeakSeen(calls, w)
  BY <1>1, RunningParts, CarriesCalls, CarriesSeen
<1>3. Fits(w) /\ Goes(w, calls)
  BY DEF Does
<1>4. QED
  BY <1>2, <1>3, RunningParts, GoesStep

(* Frames are put on the calls in progress. *)
LEMMA EntersStep ==
  ASSUME Running, NEW w, Sound(w), Carries(io, w), CutBy(calls, w.nul, left),
         NEW fr \in Seq(Frame), NEW cs, cs = fr \o calls,
         \A i \in 1 .. Len(fr) : InCall(cs, i, w, left) /\ (fr[i].op = "get" => WeakBy(fr[i], w)),
         Fits(w), Goes(w, cs)
  PROVE  Stepped
<1>1. w \in World
  BY DEF Sound
<1>2. InCalls(calls, w, left) /\ WeakSeen(calls, w)
  BY <1>1, RunningParts, CarriesCalls, CarriesSeen
<1>3. calls \in Seq(Frame) /\ Begun(calls, 0, pf, left)
  BY RunningParts
<1>4. /\ cs \in Seq(Frame) /\ Len(cs) = Len(fr) + Len(calls) /\ Len(fr) \in Nat /\ Len(calls) \in Nat
      /\ \A i \in 1 .. Len(fr) : cs[i] = fr[i]
      /\ \A i \in 1 .. Len(calls) : cs[i + Len(fr)] = calls[i] /\ i + Len(fr) \in 1 .. Len(cs)
  BY <1>3
<1>5. Around1(calls, cs, Len(fr))
  BY <1>4 DEF Around1
<1>6. \A i \in 1 .. Len(cs) : i \in 1 .. Len(fr) \/ \E j \in 1 .. Len(calls) : i = j + Len(fr)
  <2>1. ASSUME NEW i \in 1 .. Len(cs), i \notin 1 .. Len(fr)
        PROVE  i - Len(fr) \in 1 .. Len(calls) /\ i = (i - Len(fr)) + Len(fr)
    BY <1>4, <2>1
  <2>2. QED
    BY <2>1
<1>7. InCalls(cs, w, left)
  <2>1. \A j \in 1 .. Len(calls) : InCall(cs, j + Len(fr), w, left)
    BY <1>2, <1>5, Shifted DEF InCalls
  <2>2. QED
    BY <1>6, <2>1 DEF InCalls
<1>8. WeakSeen(cs, w)
  BY <1>2, <1>4, <1>6 DEF WeakSeen
<1>9. CutBy(cs, w.nul, left)
  BY <1>4 DEF CutBy
<1>10. Begun(cs, 0, pf, left)
  BY <1>3, <1>4 DEF Begun, Outer
<1>11. QED
  BY <1>4, <1>7, <1>8, <1>9, <1>10, GoesStep

(* Frames are taken off the calls in progress. *)
LEMMA Leaves ==
  ASSUME Running, NEW cs \in Seq(Frame), NEW m, Around1(cs, calls, m)
  PROVE  /\ \A w \in World : Carries(io, w) => InCalls(cs, w, left) /\ WeakSeen(cs, w)
         /\ (\A i \in 1 .. m : calls[i].op = "printf" => ~calls[i].item) => Begun(cs, 0, pf, left)
         /\ (\A i \in 1 .. m : calls[i].op # "printf") =>
              \A n : CutBy(calls, n, left) => CutBy(cs, n, left)
<1>1. /\ Len(cs) \in Nat /\ Len(calls) \in Nat /\ m \in Nat /\ Len(cs) + m = Len(calls)
      /\ \A i \in 1 .. Len(cs) : cs[i] = calls[i + m] /\ i + m \in 1 .. Len(calls)
  BY DEF Around1
<1>2. calls \in Seq(Frame) /\ InCalls(calls, io, left) /\ Seen(calls, io) /\ Begun(calls, 0, pf, left)
      /\ io \in World
  BY RunningParts
<1>3. \A i \in 1 .. Len(calls) : i > m => i - m \in 1 .. Len(cs) /\ cs[i - m] = calls[i]
  <2>1. ASSUME NEW i \in 1 .. Len(calls), i > m PROVE i - m \in 1 .. Len(cs) /\ (i - m) + m = i
    BY <1>1, <2>1
  <2>2. QED
    BY <1>1, <2>1
<1>5. ASSUME NEW w \in World, Carries(io, w) PROVE InCalls(cs, w, left) /\ WeakSeen(cs, w)
  <2>1. InCalls(calls, w, left) /\ WeakSeen(calls, w)
    BY <1>2, <1>5, CarriesCalls, CarriesSeen
  <2>2. InCalls(cs, w, left)
    BY <1>1, <2>1, Shifted DEF InCalls
  <2>3. WeakSeen(cs, w)
    BY <1>1, <2>1 DEF WeakSeen
  <2>4. QED
    BY <2>2, <2>3
<1>6. ASSUME \A i \in 1 .. m : calls[i].op = "printf" => ~calls[i].item
      PROVE  Begun(cs, 0, pf, left)
  <2>1. ASSUME pf.active, ~left
        PROVE  \E j \in Outer(cs, 0) : cs[j].op = "printf" /\ cs[j].f = StandOut
                                       /\ cs[j].item /\ cs[j].start = pf.start
    <3>1. PICK j \in 1 .. Len(calls) : /\ calls[j].op = "printf" /\ calls[j].f = StandOut
                                       /\ calls[j].item /\ calls[j].start = pf.start
      BY <1>2, <2>1 DEF Begun, Outer
    <3>2. j > m
      BY <1>1, <1>6, <3>1
    <3>3. j - m \in Outer(cs, 0) /\ cs[j - m] = calls[j]
      BY <1>3, <3>2 DEF Outer
    <3>4. QED
      BY <3>1, <3>3
  <2>2. QED
    BY <2>1 DEF Begun
<1>7. ASSUME \A i \in 1 .. m : calls[i].op # "printf", NEW n, CutBy(calls, n, left)
      PROVE  CutBy(cs, n, left)
  <2>1. ASSUME NEW j \in 1 .. Len(calls), calls[j].op = "printf"
        PROVE  \E k \in 1 .. Len(cs) : cs[k].op = "printf"
    <3>1. j > m
      BY <1>1, <1>7, <2>1
    <3>2. QED
      BY <1>3, <2>1, <3>1
  <2>2. QED
    BY <1>7, <2>1 DEF CutBy
<1>8. QED
  BY <1>5, <1>6, <1>7

-----------------------------------------------------------------------------
(* The end of the program by an error. *)

(* What was said before the formatted calls in progress was said before each of them. *)
LEMMA BeforeAt ==
  ASSUME Running
  PROVE  /\ Before \in Nat /\ Before <= Len(io.said)
         /\ \A j \in 1 .. Len(calls) :
              calls[j].op = "printf" /\ calls[j].f = StandOut => Before <= calls[j].said
<1> DEFINE starts == {calls[i].said : i \in {j \in 1 .. Len(calls) : calls[j].op = "printf" /\ calls[j].f = StandOut}}
<1>1. calls \in Seq(Frame) /\ InCalls(calls, io, left) /\ Len(io.said) \in Nat
  BY RunningParts, WorldParts, Joined
<1>2. ASSUME NEW j \in 1 .. Len(calls), calls[j].op = "printf", calls[j].f = StandOut
      PROVE  calls[j].said \in Nat /\ calls[j].said <= Len(io.said)
  <2>1. calls[j] \in Frame /\ InCall(calls, j, io, left)
    BY <1>1, <1>2 DEF InCalls
  <2>2. calls[j] \in PrintfFrames
    BY <1>2, <2>1, FrameParts
  <2>3. QED
    BY <1>2, <2>1, <2>2 DEF InCall, PrintfFrames
<1>3. starts \subseteq Nat /\ \A n \in starts : n <= Len(io.said)
  BY <1>2
<1>4. Before = IF starts = {} THEN Len(io.said) ELSE CHOOSE n \in starts : \A m \in starts : n <= m
  BY DEF Before
<1>5. \A j \in 1 .. Len(calls) :
        calls[j].op = "printf" /\ calls[j].f = StandOut => calls[j].said \in starts
  OBVIOUS
<1> HIDE DEF starts
<1>6. CASE starts = {}
  BY <1>1, <1>4, <1>5, <1>6
<1>7. CASE starts # {}
  <2>1. \E n \in starts : \A m \in starts : n <= m
    BY <1>3, <1>7, LeastNumber
  <2>2. Before \in starts /\ \A m \in starts : Before <= m
    BY <1>4, <1>7, <2>1
  <2>3. QED
    BY <1>3, <1>5, <2>2
<1>8. QED
  BY <1>6, <1>7

(* A text begins with the first part of a text it has one element after the other. *)
LEMMA PartPrefix ==
  ASSUME NEW a \in Text, NEW b \in Text, NEW n \in Nat, n <= Len(a), n <= Len(b),
         \A i \in 1 .. n : a[i] = b[i]
  PROVE  IsPrefix(SubSeq(a, 1, n), b)
<1> DEFINE s == SubSeq(a, 1, n)
<1>1. s \in Text /\ Len(s) = n /\ \A i \in 1 .. n : s[i] = a[i]
  BY DEF Text
<1> HIDE DEF s
<1>2. IsPrefix(s, b)
  BY <1>1, Prefix
<1>3. QED
  BY <1>2 DEF s

(* the elements of texts one after the other *)
LEMMA JoinedAt ==
  ASSUME NEW a \in Text, NEW b \in Text
  PROVE  /\ \A i \in 1 .. Len(a) : (a \o b)[i] = a[i]
         /\ \A i \in 1 .. Len(b) : (a \o b)[Len(a) + i] = b[i]
BY DEF Text

(* The first characters said are among those shown when the pending ones are cut off no earlier. *)
LEMMA CutKeeps ==
  ASSUME NEW a \in Text, NEW b \in Text, NEW c \in Nat, NEW t \in Text, NEW n \in Nat,
         n <= Len(a \o b), n <= Len(a) + c,
         NEW o, o = IF c < Len(b) THEN SubSeq(b, 1, c) ELSE b
  PROVE  IsPrefix(SubSeq(a \o b, 1, n), (a \o o) \o t)
<1>1. Len(a) \in Nat /\ Len(b) \in Nat /\ a \o b \in Text /\ Len(a \o b) = Len(a) + Len(b)
  BY Joined
<1>2. o \in Text /\ Len(o) \in Nat /\ Len(o) <= Len(b) /\ (Len(o) = c \/ o = b)
      /\ \A i \in 1 .. Len(o) : o[i] = b[i]
  BY <1>1 DEF Text
<1>3. /\ a \o o \in Text /\ Len(a \o o) = Len(a) + Len(o) /\ (a \o o) \o t \in Text
      /\ Len(a \o o) <= Len((a \o o) \o t) /\ Len(a \o o) \in Nat /\ Len((a \o o) \o t) \in Nat
  BY <1>2, Joined
<1>4. n <= Len(a \o o)
  BY <1>1, <1>2, <1>3
<1>5. ASSUME NEW i \in 1 .. n PROVE (a \o b)[i] = ((a \o o) \o t)[i]
  <2>1. i \in 1 .. Len(a \o o)
    BY <1>3, <1>4
  <2>2. ((a \o o) \o t)[i] = (a \o o)[i]
    BY <1>3, <2>1, JoinedAt
  <2>3. CASE i <= Len(a)
    <3>1. i \in 1 .. Len(a)
      BY <1>1, <2>3
    <3>2. (a \o b)[i] = a[i]
      BY <3>1, JoinedAt
    <3>3. (a \o o)[i] = a[i]
      BY <1>2, <3>1, JoinedAt
    <3>4. QED
      BY <2>2, <3>2, <3>3
  <2>4. CASE i > Len(a)
    <3>1. i - Len(a) \in 1 .. Len(o) /\ i - Len(a) \in 1 .. Len(b) /\ Len(a) + (i - Len(a)) = i
      BY <1>1, <1>2, <1>3, <2>1, <2>4
    <3>2. (a \o b)[Len(a) + (i - Len(a))] = b[i - Len(a)]
      BY <3>1, JoinedAt
    <3>3. (a \o o)[Len(a) + (i - Len(a))] = o[i - Len(a)]
      BY <1>2, <3>1, JoinedAt
    <3>4. QED
      BY <1>2, <2>2, <3>1, <3>2, <3>3
  <2>5. QED
    BY <1>1, <2>3, <2>4
<1>6. n <= Len((a \o o) \o t)
  BY <1>3, <1>4
<1>7. QED
  BY <1>1, <1>3, <1>5, <1>6, PartPrefix

(* The program ends by an error in the world w. *)
LEMMA DiesAt ==
  ASSUME Running, NEW w, Sound(w), Carries(io, w), Len(w.files) = Len(io.files), w.nul = io.nul,
         w.said = io.said, w.stdin # io.stdin => w.shown = io.shown \o io.out /\ w.out = <<>>,
         Dies(w)
  PROVE  Stepped
<1> DEFINE u == IF pf.active THEN discard_unpurged(w) ELSE w
           v == flush_final(u)
           Rest(y) == /\ y.files = w.files /\ y.handle = w.handle /\ y.opened = w.opened
                      /\ y.disk = w.disk /\ y.strs = w.strs /\ y.puts = w.puts
                      /\ y.said = w.said /\ y.stdin = w.stdin /\ y.nul = w.nul /\ y.old = w.old
           Cut(c) == IF c < Len(w.out) THEN SubSeq(w.out, 1, c) ELSE w.out
<1>1. /\ io' = v /\ status' = "died" /\ calls' = calls /\ pf' = pf /\ plan' = plan /\ left' = left
  BY DEF Dies, Ends, io_die
<1>2. w \in World
  BY DEF Sound
<1>3. /\ w.shown \in Text /\ w.out \in Text /\ Len(w.shown) \in Nat /\ Len(w.out) \in Nat
      /\ io.shown \in Text /\ io.out \in Text /\ w.said = io.said /\ io.said \in Text
      /\ io \in World /\ pf \in PfState
  BY <1>2, WorldParts, RunningParts, Joined
<1>4. /\ u \in World /\ Rest(u) /\ u.shown = w.shown
      /\ \E c \in Nat : u.out = Cut(c) /\ (pf.active => c >= pf.start)
                        /\ (~pf.active => c = Len(w.out))
  <2>1. CASE pf.active
    <3>1. u \in World /\ \E c \in Nat : c >= pf.start /\ u = [w EXCEPT !.out = Cut(c)]
      BY <1>2, <1>3, <2>1, Discard
    <3>2. PICK c \in Nat : c >= pf.start /\ u = [w EXCEPT !.out = Cut(c)]
      BY <3>1
    <3> HIDE DEF u, Cut
    <3>3. Rest(u) /\ u.shown = w.shown /\ u.out = Cut(c)
      BY <3>2 DEF World
    <3>4. QED
      BY <2>1, <3>1, <3>2, <3>3
  <2>2. CASE ~pf.active
    BY <1>2, <1>3, <2>2
  <2>3. QED
    BY <2>1, <2>2
<1>5. PICK c \in Nat : u.out = Cut(c) /\ (pf.active => c >= pf.start)
                       /\ (~pf.active => c = Len(w.out))
  BY <1>4
<1>6. v \in World /\ Shows(u, v)
  BY <1>4, FlushFinal
<1>7. PICK t \in Text : /\ Len(t) <= 1 /\ (u.out = <<>> => t = <<>>)
                        /\ v.shown = (u.shown \o u.out) \o t
  BY <1>6 DEF Shows
<1> HIDE DEF u, v
<1>8. Rest(v) /\ v.out = <<>>
  BY <1>4, <1>6 DEF Shows
<1>9. u.out \in Text /\ Len(u.out) <= Len(w.out) /\ Len(u.out) \in Nat
      /\ (w.out = <<>> => u.out = <<>>)
  BY <1>3, <1>5 DEF Text
<1>10. Bounded(v)
  <2> DEFINE a == Len(w.shown)
             b == Len(w.out)
             o == Len(u.out)
             k == Len(t)
             m == plan.out
  <2>1. Len(v.shown) = Len(w.shown) + Len(u.out) + Len(t) /\ Len(t) \in Nat
    <3>1. w.shown \o u.out \in Text /\ Len(w.shown \o u.out) = Len(w.shown) + Len(u.out)
      BY <1>3, <1>9, Joined
    <3>2. Len((w.shown \o u.out) \o t) = Len(w.shown \o u.out) + Len(t) /\ Len(t) \in Nat
      BY <3>1, Joined
    <3>3. QED
      BY <1>4, <1>7, <3>1, <3>2
  <2>2. Len(v.out) = 0
    BY <1>8
  <2>3. a + b <= m /\ m \in Nat
    <3>1. w.said = w.shown \o w.out /\ Len(w.said) <= plan.out
      BY DEF Sound, Ordered
    <3>2. Len(w.said) = Len(w.shown) + Len(w.out)
      BY <1>3, <3>1, Joined
    <3>3. plan.out \in Nat
      BY RunningParts, Shapes
    <3> HIDE DEF a, b, m
    <3>4. Len(w.said) = a + b
      BY <3>2 DEF a, b
    <3>5. QED
      BY <3>1, <3>3, <3>4 DEF m
  <2>4. a \in Nat /\ b \in Nat /\ o \in Nat /\ o <= b /\ k \in Nat /\ k <= 1
    BY <1>3, <1>7, <1>9, <2>1
  <2>5. Len(v.shown) = a + o + k
    BY <2>1
  <2> HIDE DEF a, b, o, k, m
  <2>6. a + o + k + 0 <= m + 1
    BY <2>3, <2>4
  <2>7. Len(v.shown) + Len(v.out) <= m + 1
    BY <2>2, <2>4, <2>5, <2>6
  <2>8. Len(v.files) <= plan.files
    <3>1. Len(w.files) = Len(io.files) /\ Len(io.files) <= plan.files
      BY RunningParts DEF Bounded
    <3>2. QED
      BY <1>8, <3>1
  <2>9. QED
    BY <2>7, <2>8 DEF Bounded, m
<1>11. TransputInv'
  <2>1. Table(v) /\ Held(v) /\ ~v.old /\ v.nul = io.nul
    BY <1>8 DEF Table, Held, Sound, Good
  <2>2. Bounded(io)'
    BY <1>1, <1>10 DEF Bounded
  <2>3. (CutBy(calls, io.nul, left))' /\ Table(io') /\ Held(io') /\ ~io'.old /\ io' \in World
    BY <1>1, <1>6, <2>1, RunningParts
  <2>4. /\ plan' \in Scenarios /\ left' \in BOOLEAN /\ pf' \in PfState /\ calls' \in Seq(Frame)
        /\ status' = "died" /\ (pf'.active => "printf" \in plan'.uses)
    BY <1>1, RunningParts
  <2>5. QED
    BY <2>2, <2>3, <2>4 DEF TransputInv
<1>12. Prompted
  <2>1. SUFFICES ASSUME w.stdin # io.stdin PROVE v.shown = io.said
    BY <1>1, <1>8 DEF Prompted
  <2>2. w.shown = io.shown \o io.out /\ w.out = <<>>
    BY <2>1
  <2>3. u.out = <<>> /\ t = <<>>
    BY <1>7, <1>9, <2>2
  <2>4. v.shown = w.shown
    <3>1. w.shown \o <<>> = w.shown
      BY <1>3, Joined
    <3>2. QED
      BY <1>4, <1>7, <2>3, <3>1
  <2>5. io.shown \o io.out = io.said
    BY RunningParts DEF Ordered
  <2>6. QED
    BY <2>2, <2>4, <2>5
<1>13. Keeps
  <2>1. SUFFICES ASSUME ~left PROVE IsPrefix(SubSeq(io.said, 1, Before), v.shown)
    BY <1>1 DEF Keeps, Kept
  <2>2. Before \in Nat /\ Before <= Len(io.said)
        /\ \A j \in 1 .. Len(calls) :
              calls[j].op = "printf" /\ calls[j].f = StandOut => Before <= calls[j].said
    BY BeforeAt
  <2>3. w.said = w.shown \o w.out
    BY DEF Sound, Ordered
  <2>4. Before <= Len(w.shown) + c
    <3>1. CASE ~pf.active
      <4>1. Len(w.shown \o w.out) = Len(w.shown) + Len(w.out)
        BY <1>3, Joined
      <4>2. QED
        BY <1>3, <1>5, <2>2, <2>3, <3>1, <4>1
    <3>2. CASE pf.active
      <4>1. Begun(calls, 0, pf, left) /\ InCalls(calls, io, left) /\ calls \in Seq(Frame)
        BY RunningParts
      <4>2. PICK j \in 1 .. Len(calls) : /\ calls[j].op = "printf" /\ calls[j].f = StandOut
                                         /\ calls[j].start = pf.start
        BY <2>1, <3>2, <4>1 DEF Begun, Outer
      <4>3. InCall(calls, j, io, left)
        BY <4>1, <4>2 DEF InCalls
      <4>4. calls[j].said <= Len(io.shown) + pf.start
        BY <4>2, <4>3 DEF InCall
      <4>5. Len(io.shown) <= Len(w.shown) /\ Len(io.shown) \in Nat
        BY <1>3, Joined DEF Carries
      <4>6. Before <= calls[j].said /\ calls[j].said \in Nat
        <5>1. calls[j] \in PrintfFrames
          BY <4>1, <4>2, FrameParts
        <5>2. QED
          BY <2>2, <4>2, <5>1 DEF PrintfFrames
      <4>7. pf.start \in Nat /\ c >= pf.start
        BY <1>3, <1>5, <3>2 DEF PfState
      <4>8. QED
        BY <1>3, <2>2, <4>4, <4>5, <4>6, <4>7
    <3>3. QED
      BY <3>1, <3>2
  <2>5. Before <= Len(w.shown \o w.out)
    BY <1>3, <2>2, <2>3
  <2>6. IsPrefix(SubSeq(w.shown \o w.out, 1, Before), (w.shown \o u.out) \o t)
    BY <1>3, <1>5, <2>2, <2>4, <2>5, CutKeeps
  <2>7. QED
    BY <1>3, <1>4, <1>7, <2>3, <2>6
<1>14. QED
  BY <1>11, <1>12, <1>13 DEF Stepped

(* The program ends by an error where it has read to w. *)
LEMMA DiesStep ==
  ASSUME Running, NEW w \in World, Good(w, plan.disk), Reading(io, w), Dies(w)
  PROVE  Stepped
BY ReadSound, DiesAt DEF Reading, Works, Alike

-----------------------------------------------------------------------------
(* Calls that begin, and events. *)

(* The files that a call may be about are in the table, and are no string files. *)
LEMMA FileValueGood ==
  ASSUME Running, NEW f \in FileValues
  PROVE  f \in 1 .. Len(io.files) /\ ~io.files[f].temp /\ (f = StandIn => StandIn \in plan.fids)
<1>1. Table(io) /\ Len(io.files) \in Nat /\ plan.fids \subseteq 1 .. 4
  BY RunningParts, WorldParts, Shapes DEF Good
<1>2. CASE f \in plan.fids
  BY <1>1, <1>2 DEF Table
<1>3. CASE f \notin plan.fids
  <2>1. Inside({"event"}) /\ f = Head(calls).f
    BY <1>3 DEF FileValues
  <2>2. calls \in Seq(Frame) /\ calls # <<>> /\ InCalls(calls, io, left)
    BY <2>1, RunningParts DEF Inside
  <2>3. Head(calls) = calls[1] /\ 1 \in 1 .. Len(calls)
    BY <2>2
  <2>4. InCall(calls, 1, io, left) /\ calls[1].op = "event" /\ calls[1].f = f
    BY <2>1, <2>2, <2>3 DEF InCalls, Inside
  <2>5. QED
    BY <2>4 DEF InCall
<1>4. QED
  BY <1>2, <1>3
(* So are the files of handles. *)
LEMMA FileIdGood ==
  ASSUME Running, NEW f \in FileIds
  PROVE  f \in 1 .. Len(io.files) /\ ~io.files[f].temp /\ (f = StandIn => StandIn \in plan.fids)
<1>1. CASE f \in FileValues
  BY <1>1, FileValueGood
<1>2. CASE f \notin FileValues
  <2>1. PICK h \in Handles : f = io.handle[h] /\ io.handle[h] # 0
    BY <1>2 DEF FileIds
  <2>2. f \in 5 .. Len(io.files) /\ ~io.files[f].temp /\ Len(io.files) \in Nat
    BY <2>1, RunningParts, WorldParts DEF Held
  <2>3. QED
    BY <2>2 DEF StandIn
<1>3. QED
  BY <1>1, <1>2

(* The innermost call in progress. *)
LEMMA HeadCall ==
  ASSUME Running, calls # <<>>
  PROVE  /\ Head(calls) = calls[1] /\ Head(calls) \in Frame /\ 1 \in 1 .. Len(calls)
         /\ InCall(calls, 1, io, left) /\ Tail(calls) \in Seq(Frame) /\ Around1(Tail(calls), calls, 1)
<1>1. calls \in Seq(Frame) /\ InCalls(calls, io, left)
  BY RunningParts
<1>2. /\ Head(calls) = calls[1] /\ Head(calls) \in Frame /\ 1 \in 1 .. Len(calls)
      /\ Tail(calls) \in Seq(Frame)
  BY <1>1
<1>3. Around1(Tail(calls), calls, 1)
  BY <1>1 DEF Around1
<1>4. QED
  BY <1>1, <1>2, <1>3 DEF InCalls

(* A call begins that is in no string file's. *)
LEMMA Enter1 ==
  ASSUME Running, NEW w, Sound(w), Carries(io, w), CutBy(calls, w.nul, left), NEW c \in Frame,
         c.op \notin {"gets", "puts"},
         c.op # "hole" => c.f \in 1 .. Len(w.files) /\ (c.f = StandIn => StandIn \in plan.fids),
         c.op = "event" => /\ ~w.files[c.f].temp
                           /\ c.why \in {"end", "value"} => calls # <<>> /\ Head(calls).op = "get",
         c.op = "get" => WeakBy(c, w),
         c.op = "printf" => /\ ~c.item /\ (c.was.active => "printf" \in plan.uses)
                            /\ c.f = StandOut => /\ "printf" \in plan.uses
                                                 /\ c.said <= Len(w.shown) + c.start
                                                 /\ c.said <= Len(w.said),
         Enters(w, <<c>>)
  PROVE  Stepped
<1> DEFINE cs == <<c>> \o calls
<1>1. calls \in Seq(Frame) /\ Len(calls) \in Nat
  BY RunningParts
<1>2. /\ cs \in Seq(Frame) /\ Len(cs) = Len(calls) + 1 /\ cs[1] = c
      /\ calls # <<>> => 1 < Len(cs) /\ cs[2] = Head(calls)
  BY <1>1
<1> HIDE DEF cs
<1>3. InCall(cs, 1, w, left)
  <2>1. c.op = "event" /\ c.why \in {"end", "value"} => 1 < Len(cs) /\ cs[1 + 1].op = "get"
    BY <1>2
  <2>2. QED
    BY <1>2, <2>1 DEF InCall
<1>4. <<c>> \in Seq(Frame) /\ Len(<<c>>) = 1 /\ <<c>>[1] = c
  OBVIOUS
<1>5. Fits(w) /\ Goes(w, cs)
  BY DEF Enters, cs
<1>6. \A i \in 1 .. Len(<<c>>) : InCall(cs, i, w, left) /\ (<<c>>[i].op = "get" => WeakBy(<<c>>[i], w))
  BY <1>3, <1>4
<1>7. QED
  BY <1>4, <1>5, <1>6, EntersStep DEF cs

(* An event routine is called. *)
LEMMA EventStep ==
  ASSUME Running, NEW w \in World, Good(w, plan.disk), Reading(io, w), NEW f \in 1 .. Len(io.files),
         f = StandIn => StandIn \in plan.fids, ~w.files[f].temp,
         NEW why \in {"set", "eoln", "end", "value", "line"},
         why \in {"end", "value"} => calls # <<>> /\ Head(calls).op = "get", Event(w, f, why)
  PROVE  Stepped
<1> DEFINE c == [op |-> "event", f |-> f, why |-> why]
<1>1. Sound(w) /\ Carries(io, w) /\ w.nul = io.nul
  BY ReadSound
<1>2. f \in Nat /\ f \in 1 .. Len(w.files)
  <2>1. Len(w.files) = Len(io.files)
    BY DEF Reading, Works, Alike
  <2>2. QED
    BY <2>1
<1>3. c \in Frame /\ c.op = "event" /\ c.f = f /\ c.why = why
  BY <1>2 DEF Frame, EventFrames
<1>4. Enters(w, <<c>>) /\ CutBy(calls, w.nul, left)
  BY <1>1, RunningParts DEF Event
<1> HIDE DEF c
<1>5. QED
  BY <1>1, <1>2, <1>3, <1>4, Enter1

(* A file at its end: the routine of the event is called, or the program ends. *)
LEMMA LogicalEnd ==
  ASSUME Running, NEW w \in World, Good(w, plan.disk), Reading(io, w), NEW f \in 1 .. Len(io.files),
         f = StandIn => StandIn \in plan.fids, NEW why \in {"set", "eoln", "end"},
         why = "end" => calls # <<>> /\ Head(calls).op = "get", logical_end(w, f, why)
  PROVE  Stepped
<1>1. Entry(w.files[f])
  BY DEF Good, Table, Reading, Works, Alike
<1>2. CASE w.files[f].on_end
  BY <1>1, <1>2, EventStep DEF logical_end, Entry
<1>3. CASE ~w.files[f].on_end
  BY <1>3, DiesStep DEF logical_end
<1>4. QED
  BY <1>2, <1>3
(* A value that is wrong: the same. *)
LEMMA ValueError ==
  ASSUME Running, NEW w \in World, Good(w, plan.disk), Reading(io, w), NEW f \in 1 .. Len(io.files),
         f = StandIn => StandIn \in plan.fids,
         calls # <<>> /\ Head(calls).op = "get", value_error(w, f)
  PROVE  Stepped
<1>1. Entry(w.files[f])
  BY DEF Good, Table, Reading, Works, Alike
<1>2. CASE w.files[f].on_value
  BY <1>1, <1>2, EventStep DEF value_error, Entry
<1>3. CASE ~w.files[f].on_value
  BY <1>3, DiesStep DEF value_error
<1>4. QED
  BY <1>2, <1>3

-----------------------------------------------------------------------------
(* The file procedures. *)

(* A call that reads, in one step. *)
LEMMA ReadsStep ==
  ASSUME Running, NEW w \in World, Good(w, plan.disk), Reading(io, w), Does(w)
  PROVE  Stepped
<1>1. Sound(w) /\ Carries(io, w) /\ w.nul = io.nul
  BY ReadSound
<1>2. CutBy(calls, w.nul, left)
  BY <1>1, RunningParts
<1>3. QED
  BY <1>1, <1>2, DoesStep
(* A call that leaves the terminal and the strings alone, in one step. *)
LEMMA ApartStep ==
  ASSUME Running, NEW w \in World, Good(w, plan.disk), Held(w), Carries(io, w), Apart(io, w), Does(w)
  PROVE  Stepped
<1>1. Sound(w) /\ w.nul = io.nul
  BY ApartSound DEF Apart
<1>2. CutBy(calls, w.nul, left)
  BY <1>1, RunningParts
<1>3. QED
  BY <1>1, <1>2, DoesStep

(* A file procedure that makes an entry. *)
LEMMA NewFileStep ==
  ASSUME Running, NEW fv \in Handles \cup FileValues, NEW e, New(e), ~e.temp,
         plan.uses \cap {"open", "establish", "create", "associate"} # {},
         Does(file_new(io, fv, e))
  PROVE  Stepped
<1>1. io \in World /\ Good(io, plan.disk) /\ Held(io) /\ plan \in Scenarios
  BY RunningParts
<1>2. Renews(io, file_new(io, fv, e), plan.disk)
  <2>1. CASE fv \in Handles
    BY <1>1, <2>1, NewHandle
  <2>2. CASE fv \notin Handles
    <3>1. fv \in 1 .. Len(io.files) /\ ~io.files[fv].temp /\ (fv = StandIn => StandIn \in plan.fids)
      BY <2>2, FileValueGood
    <3>2. fv # StandIn
      BY <1>1, <3>1, StandInKept
    <3>3. QED
      BY <1>1, <3>1, <3>2, NewEntry
  <2>3. QED
    BY <2>1, <2>2
<1> DEFINE v == file_new(io, fv, e)
<1> HIDE DEF v
<1>3. v \in World /\ Good(v, plan.disk) /\ Held(v) /\ Carries(io, v) /\ Apart(io, v)
  BY <1>2 DEF Renews, v
<1>4. Does(v)
  BY DEF v
<1>5. QED
  BY <1>3, <1>4, ApartStep

(* the entries that open, establish, create and associate make *)
LEMMA DefaultNew ==
  /\ New([file_default EXCEPT !.loaded = TRUE]) /\ ~[file_default EXCEPT !.loaded = TRUE].temp
  /\ \A v \in Vars : LET e == [file_default EXCEPT !.assoc = v, !.chan = 4] IN New(e) /\ ~e.temp
  /\ \A n \in Names :
       /\ LET e == [Path(n, file_default) EXCEPT !.writing = TRUE] IN New(e) /\ ~e.temp
       /\ \A b \in Text : LET e == [Path(n, file_default) EXCEPT !.buf = b] IN New(e) /\ ~e.temp
<1>1. file_default \in File
  BY DEF file_default, File, Text
<1>2. Nobody \notin Names /\ Nobody \notin Vars
  BY Tokens
<1>3. New([file_default EXCEPT !.loaded = TRUE]) /\ ~[file_default EXCEPT !.loaded = TRUE].temp
  BY <1>1, <1>2 DEF New, Entry, File, file_default
<1>4. ASSUME NEW v \in Vars
      PROVE  LET e == [file_default EXCEPT !.assoc = v, !.chan = 4] IN New(e) /\ ~e.temp
  BY <1>1, <1>2 DEF New, Entry, File, file_default
<1>5. ASSUME NEW n \in Names
      PROVE  LET e == [Path(n, file_default) EXCEPT !.writing = TRUE] IN New(e) /\ ~e.temp
  BY <1>1, <1>2 DEF New, Entry, File, file_default, Path
<1>6. ASSUME NEW n \in Names, NEW b \in Text
      PROVE  LET e == [Path(n, file_default) EXCEPT !.buf = b] IN New(e) /\ ~e.temp
  BY <1>1, <1>2 DEF New, Entry, File, file_default, Path
<1>7. QED
  BY <1>3, <1>4, <1>5, <1>6

(* open, establish, create and associate *)
LEMMA OpenStep ==
  ASSUME Running, NEW fv \in Handles \cup FileValues,
         \/ \E n \in Names : Open(fv, n) \/ Establish(fv, n)
         \/ Create(fv)
         \/ \E v \in Vars : Associate(fv, v)
  PROVE  Stepped
<1>1. CASE \E n \in Names : Open(fv, n)
  <2>1. PICK n \in Names : Open(fv, n)
    BY <1>1
  <2> DEFINE b == IF io.disk[n] = Nobody THEN <<>> ELSE io.disk[n]
             e == [Path(n, file_default) EXCEPT !.buf = b]
  <2>2. b \in Text
    BY RunningParts, WorldParts DEF Text
  <2>3. plan.uses \cap {"open", "establish", "create", "associate"} # {} /\ Does(file_new(io, fv, e))
    BY <2>1 DEF Open, Uses
  <2> HIDE DEF b
  <2>4. New(e) /\ ~e.temp
    BY <2>2, DefaultNew
  <2> HIDE DEF e
  <2>5. QED
    BY <2>3, <2>4, NewFileStep
<1>2. CASE \E n \in Names : Establish(fv, n)
  <2>1. PICK n \in Names : Establish(fv, n)
    BY <1>2
  <2> DEFINE e == [Path(n, file_default) EXCEPT !.writing = TRUE]
  <2>2. plan.uses \cap {"open", "establish", "create", "associate"} # {} /\ Does(file_new(io, fv, e))
    BY <2>1 DEF Establish, Uses
  <2>3. New(e) /\ ~e.temp
    BY DefaultNew
  <2> HIDE DEF e
  <2>4. QED
    BY <2>2, <2>3, NewFileStep
<1>3. CASE Create(fv)
  <2> DEFINE e == [file_default EXCEPT !.loaded = TRUE]
  <2>1. plan.uses \cap {"open", "establish", "create", "associate"} # {} /\ Does(file_new(io, fv, e))
    BY <1>3 DEF Create, Uses
  <2>2. New(e) /\ ~e.temp
    BY DefaultNew
  <2> HIDE DEF e
  <2>3. QED
    BY <2>1, <2>2, NewFileStep
<1>4. CASE \E v \in Vars : Associate(fv, v)
  <2>1. PICK v \in Vars : Associate(fv, v)
    BY <1>4
  <2> DEFINE e == [file_default EXCEPT !.assoc = v, !.chan = 4]
  <2>2. plan.uses \cap {"open", "establish", "create", "associate"} # {} /\ Does(file_new(io, fv, e))
    BY <2>1 DEF Associate, Uses
  <2>3. New(e) /\ ~e.temp
    BY DefaultNew
  <2> HIDE DEF e
  <2>4. QED
    BY <2>2, <2>3, NewFileStep
<1>5. QED
  BY <1>1, <1>2, <1>3, <1>4

(* A file that has been saved. *)
LEMMA Saved1 ==
  ASSUME Running, NEW f \in 1 .. Len(io.files)
  PROVE  LET w == file_flush(io, f)
         IN /\ w \in World /\ Good(w, plan.disk) /\ Held(w) /\ Works(io, w) /\ Apart(io, w)
            /\ Carries(io, w) /\ Len(w.files) = Len(io.files)
<1> DEFINE w == file_flush(io, f)
<1>1. io \in World /\ Good(io, plan.disk) /\ Held(io)
  BY RunningParts
<1>2. w \in World /\ Good(w, plan.disk) /\ Saves(io, f, w)
  BY <1>1, FlushGood
<1> HIDE DEF w
<1>3. Alike(io, w) /\ Apart(io, w)
  BY <1>2 DEF Saves
<1>4. Works(io, w)
  <2>1. \A g \in 1 .. Len(io.files) :
          w.files[g].buf = io.files[g].buf /\ w.files[g].loaded = io.files[g].loaded
    BY <1>2 DEF Saves
  <2>2. Len(io.shown) <= Len(w.shown) /\ Len(io.said) <= Len(w.said) /\ w.old = io.old
    BY <1>1, <1>3, WorldParts, Joined DEF Apart
  <2>3. QED
    BY <1>3, <2>1, <2>2 DEF Works
<1>5. Held(w) /\ Carries(io, w)
  BY <1>1, <1>2, <1>3, <1>4, AlikeHeld, WorksCarries
<1>6. QED
  BY <1>2, <1>3, <1>4, <1>5 DEF w, Alike
(* An operation on files after one that leaves the terminal alone. *)
LEMMA WorksTrans ==
  ASSUME NEW w \in World, NEW v \in World, NEW u \in World, Works(w, v), Works(v, u), Apart(w, v)
  PROVE  Works(w, u)
<1>1. Alike(w, u)
  BY AlikeTrans DEF Works
<1>2. u.old = w.old /\ Len(w.shown) <= Len(u.shown) /\ Len(w.said) <= Len(u.said)
  BY DEF Works, Apart
<1>3. ASSUME NEW g \in 1 .. Len(w.files), w.files[g].assoc \in Vars, u.files[g].loaded
      PROVE  LET a == w.files[g].assoc
             IN \/ w.files[g].loaded /\ u.files[g].buf = w.files[g].buf
                \/ u.files[g].buf \in {w.strs[a], u.strs[a]}
  <2>1. g \in 1 .. Len(v.files) /\ v.files[g].assoc = w.files[g].assoc /\ v.strs = w.strs
    BY <1>3 DEF Works, Alike, Like, Apart
  <2>2. QED
    BY <1>3, <2>1 DEF Works
<1>4. QED
  BY <1>1, <1>2, <1>3 DEF Works

(* close *)
LEMMA CloseStep ==
  ASSUME Running, NEW f \in FileIds, Close(f)
  PROVE  Stepped
<1>1. f \in 1 .. Len(io.files)
  BY FileIdGood
<1> DEFINE w == file_flush(io, f)
<1>2. w \in World /\ Good(w, plan.disk) /\ Held(w) /\ Apart(io, w) /\ Carries(io, w)
  BY <1>1, Saved1
<1>3. Does(w)
  BY DEF Close
<1> HIDE DEF w
<1>4. QED
  BY <1>2, <1>3, ApartStep

(* scratch *)
LEMMA ScratchStep ==
  ASSUME Running, NEW f \in FileIds, Scratch(f)
  PROVE  Stepped
<1>1. f \in 1 .. Len(io.files)
  BY FileIdGood
<1> DEFINE w == file_flush(io, f)
           v == scratch(w, f)
<1>2. /\ w \in World /\ Good(w, plan.disk) /\ Held(w) /\ Apart(io, w) /\ Carries(io, w)
      /\ Works(io, w) /\ Len(w.files) = Len(io.files)
  BY <1>1, Saved1
<1>3. Does(w) \/ Dies(w) \/ (w.files[f].ondisk /\ Does(v))
  BY DEF Scratch
<1> HIDE DEF w
<1>4. CASE Does(w)
  BY <1>2, <1>4, ApartStep
<1>5. CASE Dies(w)
  <2>1. Sound(w)
    BY <1>2, ApartSound DEF Apart
  <2>2. QED
    BY <1>2, <1>5, <2>1, DiesAt DEF Apart
<1>6. CASE w.files[f].ondisk /\ Does(v)
  <2>1. v \in World /\ Good(v, plan.disk) /\ Works(w, v) /\ Apart(w, v)
    BY <1>1, <1>2, <1>6, ScratchGood
  <2> HIDE DEF v
  <2>2. Apart(io, v) /\ Works(io, v) /\ io \in World
    BY <1>2, <2>1, RunningParts, WorksTrans DEF Apart
  <2>3. Held(v) /\ Carries(io, v)
    BY <2>1, <2>2, RunningParts, AlikeHeld, WorksCarries DEF Works
  <2>4. QED
    BY <1>6, <2>1, <2>2, <2>3, ApartStep
<1>7. QED
  BY <1>3, <1>4, <1>5, <1>6

(* reset *)
LEMMA ResetStep ==
  ASSUME Running, NEW f \in FileIds, Reset(f)
  PROVE  Stepped
<1>1. f \in 1 .. Len(io.files) /\ io \in World /\ Good(io, plan.disk) /\ Held(io)
  BY FileIdGood, RunningParts
<1>2. CASE Dies(io)
  BY <1>1, <1>2, DiesStep, ReadingSelf
<1>3. CASE Does(rewound(file_flush(io, f), f))
  <2> DEFINE v == rewound(file_flush(io, f), f)
  <2>1. v \in World /\ Good(v, plan.disk) /\ Works(io, v) /\ Apart(io, v)
    BY <1>1, RewoundGood
  <2>2. Does(v)
    BY <1>3
  <2> HIDE DEF v
  <2>3. Held(v) /\ Carries(io, v)
    BY <1>1, <2>1, AlikeHeld, WorksCarries DEF Works
  <2>4. QED
    BY <2>1, <2>2, <2>3, ApartStep
<1>4. QED
  BY <1>2, <1>3 DEF Reset

(* An entry is changed in nothing that is saved or read. *)
LEMMA TendedStep ==
  ASSUME Running, NEW w \in World, Good(w, plan.disk), Reading(io, w), NEW f \in 1 .. Len(io.files),
         NEW e \in File, Tended(w.files[f], e), e.buf = w.files[f].buf, e.loaded = w.files[f].loaded,
         Does([w EXCEPT !.files[f] = e])
  PROVE  Stepped
<1> DEFINE v == [w EXCEPT !.files[f] = e]
<1>1. f \in 1 .. Len(w.files)
  BY DEF Reading, Works, Alike
<1>2. v \in World /\ Good(v, plan.disk) /\ Reading(w, v)
  BY <1>1, TendedReads
<1>3. Does(v)
  OBVIOUS
<1> HIDE DEF v
<1>4. Reading(io, v)
  BY <1>2, RunningParts, ReadingTrans
<1>5. QED
  BY <1>2, <1>3, <1>4, ReadsStep

(* set *)
LEMMA SetStep ==
  ASSUME Running, NEW f \in FileIds, NEW k \in {-1, 1}, Set(f, k)
  PROVE  Stepped
<1> DEFINE w == load_file(io, f)
           np == w.files[f].pos + k
           e == [w.files[f] EXCEPT !.pos = np]
<1>1. f \in 1 .. Len(io.files) /\ io \in World /\ Good(io, plan.disk)
      /\ (f = StandIn => StandIn \in plan.fids)
  BY FileIdGood, RunningParts
<1>2. w \in World /\ Good(w, plan.disk) /\ Reading(io, w)
  BY <1>1, LoadReads DEF Came
<1>3. Dies(io) \/ (np >= 0 /\ Does([w EXCEPT !.files[f].pos = np])) \/ logical_end(w, f, "set")
  BY DEF Set
<1> HIDE DEF w
<1>4. CASE Dies(io)
  BY <1>1, <1>4, DiesStep, ReadingSelf
<1>5. CASE np >= 0 /\ Does([w EXCEPT !.files[f].pos = np])
  <2>1. f \in 1 .. Len(w.files)
    BY <1>1, <1>2 DEF Reading, Works, Alike
  <2>2. w.files[f] \in File /\ Entry(w.files[f])
    BY <1>2, <2>1, WorldParts DEF Good, Table
  <2>3. np \in Nat
    BY <1>5, <2>2, FileParts
  <2> HIDE DEF np
  <2>4. e \in File /\ Tended(w.files[f], e) /\ e.buf = w.files[f].buf /\ e.loaded = w.files[f].loaded
    BY <2>2, <2>3 DEF File, Tended, Like, Entry
  <2>5. [w EXCEPT !.files[f].pos = np] = [w EXCEPT !.files[f] = e]
    OBVIOUS
  <2> HIDE DEF e
  <2>6. Does([w EXCEPT !.files[f] = e])
    BY <1>5, <2>5
  <2>7. QED
    BY <1>1, <1>2, <2>4, <2>6, TendedStep
<1>6. CASE logical_end(w, f, "set")
  BY <1>1, <1>2, <1>6, LogicalEnd
<1>7. QED
  BY <1>3, <1>4, <1>5, <1>6

(* on logical end, on value error, on line end *)
LEMMA OnStep ==
  ASSUME Running, NEW f \in FileIds, NEW x \in {"end", "value", "line"}, On(f, x)
  PROVE  Stepped
<1> DEFINE d == io.files[f]
           e1 == [d EXCEPT !.on_end = TRUE]
           e2 == [d EXCEPT !.on_value = TRUE]
           e3 == [d EXCEPT !.on_line = TRUE]
<1>1. f \in 1 .. Len(io.files) /\ io \in World /\ Good(io, plan.disk) /\ ~d.temp /\ Reading(io, io)
  BY FileIdGood, RunningParts, ReadingSelf
<1>2. d \in File /\ Entry(d)
  BY <1>1, WorldParts DEF Good, Table
<1>3. \/ Does([io EXCEPT !.files[f] = e1])
      \/ Does([io EXCEPT !.files[f] = e2])
      \/ Does([io EXCEPT !.files[f] = e3])
  BY DEF On
<1> HIDE DEF d
<1>4. e1 \in File /\ Tended(d, e1) /\ e1.buf = d.buf /\ e1.loaded = d.loaded
  BY <1>1, <1>2 DEF File, Tended, Like, Entry
<1>5. e2 \in File /\ Tended(d, e2) /\ e2.buf = d.buf /\ e2.loaded = d.loaded
  BY <1>1, <1>2 DEF File, Tended, Like, Entry
<1>6. e3 \in File /\ Tended(d, e3) /\ e3.buf = d.buf /\ e3.loaded = d.loaded
  BY <1>1, <1>2 DEF File, Tended, Like, Entry
<1> HIDE DEF e1, e2, e3
<1>7. CASE Does([io EXCEPT !.files[f] = e1])
  BY <1>1, <1>4, <1>7, TendedStep DEF d
<1>8. CASE Does([io EXCEPT !.files[f] = e2])
  BY <1>1, <1>5, <1>8, TendedStep DEF d
<1>9. CASE Does([io EXCEPT !.files[f] = e3])
  BY <1>1, <1>6, <1>9, TendedStep DEF d
<1>10. QED
  BY <1>3, <1>7, <1>8, <1>9

(* make term *)
LEMMA TermStep ==
  ASSUME Running, NEW f \in FileIds, MakeTerm(f, {"x"})
  PROVE  Stepped
<1> DEFINE d == io.files[f]
           e == [d EXCEPT !.term = {"x"}]
<1>1. f \in 1 .. Len(io.files) /\ io \in World /\ Good(io, plan.disk) /\ Reading(io, io)
  BY FileIdGood, RunningParts, ReadingSelf
<1>2. d \in File /\ Entry(d)
  BY <1>1, WorldParts DEF Good, Table
<1>3. Does([io EXCEPT !.files[f] = e])
  BY DEF MakeTerm
<1> HIDE DEF d
<1>4. {"x"} \in SUBSET Char
  BY DEF Char, InText
<1>5. e \in File /\ Tended(d, e) /\ e.buf = d.buf /\ e.loaded = d.loaded
  BY <1>2, <1>4 DEF File, Tended, Like, Entry
<1> HIDE DEF e
<1>6. QED
  BY <1>1, <1>3, <1>5, TendedStep DEF d

-----------------------------------------------------------------------------
(* Assignments, put, new line, eof and eoln. *)

(* A string variable is assigned to. *)
LEMMA AssignStep ==
  ASSUME Running, NEW v \in Vars, NEW s \in plan.texts, Assign(v, s)
  PROVE  Stepped
<1> DEFINE w == [io EXCEPT !.strs[v] = s]
<1>1. io \in World /\ Good(io, plan.disk) /\ Held(io) /\ s \in Text
  BY RunningParts, Shapes DEF Text
<1>2. w \in World /\ SameTable(io, w) /\ w.out = io.out /\ w.shown = io.shown /\ w.said = io.said
      /\ w.stdin = io.stdin /\ w.old = io.old /\ w.nul = io.nul
  BY <1>1 DEF World, SameTable
<1>3. Does(w)
  BY DEF Assign
<1> HIDE DEF w
<1>4. Good(w, plan.disk) /\ Alike(io, w)
  BY <1>1, <1>2, SameGood
<1>5. Sound(w)
  BY <1>1, <1>2, <1>4, AlikeHeld, ApartSound
<1>6. Carries(io, w)
  <2>1. Len(io.files) \in Nat /\ Len(io.shown) \in Nat /\ Len(io.said) \in Nat
    BY <1>1, WorldParts, Joined
  <2>2. QED
    BY <1>2, <2>1 DEF Carries, SameTable
<1>7. CutBy(calls, w.nul, left)
  BY <1>2, RunningParts
<1>8. QED
  BY <1>3, <1>5, <1>6, <1>7, DoesStep

(* put *)
LEMMA PutStep ==
  ASSUME Running, NEW f \in FileIds, NEW items \in plan.items, Put(f, items)
  PROVE  Stepped
<1> DEFINE w == print_items(io, f, items)
<1>1. f \in 1 .. Len(io.files) /\ io \in World /\ Good(io, plan.disk) /\ items \in Seq(Text)
  BY FileIdGood, RunningParts, Shapes DEF Text
<1>2. w \in World /\ Good(w, plan.disk) /\ Writing(io, w) /\ (w.nul => io.nul)
  BY <1>1, PrintItems
<1>3. Len(w.said) <= plan.out /\ Does(w)
  BY DEF Put, Room
<1> HIDE DEF w
<1>4. Sound(w) /\ Carries(io, w)
  BY <1>2, <1>3, WriteSound
<1>5. CutBy(calls, w.nul, left)
  BY <1>2, RunningParts DEF CutBy
<1>6. QED
  BY <1>3, <1>4, <1>5, DoesStep

(* new line *)
LEMMA NewLineStep ==
  ASSUME Running, NEW f \in FileIds, NewLine(f)
  PROVE  Stepped
<1>1. f \in 1 .. Len(io.files) /\ io \in World /\ Good(io, plan.disk) /\ plan \in Scenarios
  BY FileIdGood, RunningParts
<1>2. CASE Does(skip_line(io, f))
  <2> DEFINE w == skip_line(io, f)
  <2>1. w \in World /\ Good(w, plan.disk) /\ Reading(io, w)
    BY <1>1, SkipLineReads DEF Came
  <2>2. Does(w)
    BY <1>2
  <2> HIDE DEF w
  <2>3. QED
    BY <2>1, <2>2, ReadsStep
<1>3. CASE LET w == file_out(io, f, <<Ended>>) IN Room(w, f) /\ Does(w)
  <2> DEFINE s == <<Ended>>
             w == file_out(io, f, s)
  <2>1. s \in Text /\ ~Has(s, Nul)
    BY DEF Text, Char, InText, Has, Ended, Nul
  <2> HIDE DEF s
  <2>2. w \in World /\ Good(w, plan.disk) /\ Writing(io, w) /\ (w.nul => io.nul)
    BY <1>1, <2>1, FileOut DEF Wrote1
  <2>3. Len(w.said) <= plan.out /\ Does(w)
    BY <1>3 DEF Room, s
  <2> HIDE DEF w
  <2>4. Sound(w) /\ Carries(io, w)
    BY <2>2, <2>3, WriteSound
  <2>5. CutBy(calls, w.nul, left)
    BY <2>2, RunningParts DEF CutBy
  <2>6. QED
    BY <2>3, <2>4, <2>5, DoesStep
<1>4. QED
  BY <1>2, <1>3 DEF NewLine

(* eof and eoln *)
LEMMA EofStep ==
  ASSUME Running, NEW f \in FileIds, Eof(f) \/ Eoln(f)
  PROVE  Stepped
<1> DEFINE w == load_file(io, f)
<1>1. f \in 1 .. Len(io.files) /\ io \in World /\ Good(io, plan.disk)
      /\ (f = StandIn => StandIn \in plan.fids)
  BY FileIdGood, RunningParts
<1>2. w \in World /\ Good(w, plan.disk) /\ Reading(io, w)
  BY <1>1, LoadReads DEF Came
<1>3. Dies(io) \/ Does(w) \/ logical_end(w, f, "eoln")
  BY DEF Eof, Eoln
<1> HIDE DEF w
<1>4. CASE Dies(io)
  BY <1>1, <1>4, DiesStep, ReadingSelf
<1>5. CASE Does(w)
  BY <1>2, <1>5, ReadsStep
<1>6. CASE logical_end(w, f, "eoln")
  BY <1>1, <1>2, <1>6, LogicalEnd
<1>7. QED
  BY <1>3, <1>4, <1>5, <1>6

-----------------------------------------------------------------------------
(* Calls of get, printf, gets and puts begin. *)

(* get *)
LEMMA GetStep ==
  ASSUME Running, NEW f \in FileIds, Get(f)
  PROVE  Stepped
<1> DEFINE w == refresh_assoc(io, f)
           c == GetFrame(f)
<1>1. f \in 1 .. Len(io.files) /\ io \in World /\ Good(io, plan.disk)
      /\ (f = StandIn => StandIn \in plan.fids)
  BY FileIdGood, RunningParts
<1>2. /\ w \in World /\ Good(w, plan.disk) /\ Reading(io, w)
      /\ w.files[f].assoc \in Vars => w.files[f].buf = w.strs[w.files[f].assoc]
  BY <1>1, RefreshReads
<1>3. Enters(w, <<c>>)
  BY DEF Get
<1>4. f \in Nat /\ f \in 1 .. Len(w.files)
  <2> HIDE DEF w
  <2>1. Len(io.files) \in Nat
    BY <1>1, WorldParts
  <2>2. QED
    <3>1. Len(w.files) = Len(io.files)
      BY <1>2 DEF Reading, Works, Alike
    <3>2. QED
      BY <1>1, <2>1, <3>1
<1>5. c \in Frame /\ c.op = "get" /\ c.f = f /\ c.seen = {}
  BY <1>4 DEF Frame, GetFrames, GetFrame
<1> HIDE DEF w, c
<1>6. WeakBy(c, w)
  BY <1>2, <1>5 DEF WeakBy
<1>7. Sound(w) /\ Carries(io, w) /\ CutBy(calls, w.nul, left)
  BY <1>2, ReadSound, RunningParts
<1>8. QED
  BY <1>1, <1>3, <1>4, <1>5, <1>6, <1>7, Enter1

(* printf *)
LEMMA PrintfStep ==
  ASSUME Running, NEW f \in FileIds, Printf(f)
  PROVE  Stepped
<1> DEFINE c == PrintfFrame(f, Len(io.out))
<1>1. f \in 1 .. Len(io.files) /\ io \in World /\ Good(io, plan.disk) /\ pf \in PfState
      /\ (f = StandIn => StandIn \in plan.fids) /\ (pf.active => "printf" \in plan.uses)
      /\ Ordered(io) /\ CutBy(calls, io.nul, left)
  BY FileIdGood, RunningParts
<1>2. Enters(io, <<c>>) /\ "printf" \in plan.uses
  BY DEF Printf, Uses
<1>3. /\ Len(io.files) \in Nat /\ Len(io.out) \in Nat /\ Len(io.said) \in Nat /\ Len(io.shown) \in Nat
      /\ f \in Nat
  <2>1. Len(io.files) \in Nat /\ io.out \in Text /\ io.said \in Text /\ io.shown \in Text
    BY <1>1, WorldParts
  <2>2. f \in Nat
    BY <1>1, <2>1
  <2>3. QED
    BY <2>1, <2>2, Joined
<1>4. c \in Frame /\ c.op = "printf" /\ c.f = f /\ ~c.item /\ c.was = pf
      /\ c.said = Len(io.said) /\ c.start = Len(io.out)
  BY <1>1, <1>3 DEF Frame, PrintfFrames, PrintfFrame
<1>5. Len(io.said) = Len(io.shown) + Len(io.out)
  <2>1. io.out \in Text /\ io.shown \in Text /\ io.shown \o io.out = io.said
    BY <1>1, WorldParts DEF Ordered
  <2>2. QED
    BY <2>1, Joined
<1>6. c.said <= Len(io.shown) + c.start /\ c.said <= Len(io.said)
  BY <1>3, <1>4, <1>5
<1>7. Sound(io) /\ Carries(io, io)
  BY <1>1, ReadSound, ReadingSelf
<1> HIDE DEF c
<1>8. QED
  BY <1>1, <1>2, <1>4, <1>6, <1>7, Enter1

(* a dynamic part of a format *)
LEMMA HoleStep ==
  ASSUME Running, Hole
  PROVE  Stepped
<1> DEFINE c == [op |-> "hole"]
<1>1. io \in World /\ Good(io, plan.disk) /\ CutBy(calls, io.nul, left)
  BY RunningParts
<1>2. Enters(io, <<c>>)
  BY DEF Hole
<1>3. c \in Frame /\ c.op = "hole"
  BY DEF Frame, HoleFrames
<1>4. Sound(io) /\ Carries(io, io)
  BY <1>1, ReadSound, ReadingSelf
<1> HIDE DEF c
<1>5. QED
  BY <1>1, <1>2, <1>3, <1>4, Enter1

(* A call begins that is in a string file's. *)
LEMMA Enter2 ==
  ASSUME Running, NEW w, Sound(w), Carries(io, w), CutBy(calls, w.nul, left),
         NEW f, f = Len(io.files) + 1, f \in 1 .. Len(w.files), w.files[f].temp,
         NEW c \in Frame, c.f = f, c.op \in {"get", "printf"},
         NEW b \in Frame, b.f = f, b.op \in {"gets", "puts"},
         b.op = "puts" /\ b.cut => left \/ \E j \in 1 .. Len(calls) : calls[j].op = "printf",
         c.op = "get" => WeakBy(c, w),
         c.op = "printf" => ~c.item /\ (c.was.active => "printf" \in plan.uses),
         Enters(w, <<c, b>>)
  PROVE  Stepped
<1> DEFINE fr == <<c, b>>
           cs == fr \o calls
<1>1. calls \in Seq(Frame) /\ Len(calls) \in Nat /\ InCalls(calls, io, left) /\ Table(io)
      /\ Len(io.files) \in Nat
  BY RunningParts, WorldParts DEF Good
<1>2. fr \in Seq(Frame) /\ Len(fr) = 2 /\ fr[1] = c /\ fr[2] = b
  OBVIOUS
<1>3. /\ cs \in Seq(Frame) /\ Len(cs) = Len(calls) + 2 /\ cs[1] = c /\ cs[2] = b
      /\ \A i \in 1 .. Len(calls) : cs[i + 2] = calls[i] /\ i + 2 \in 3 .. Len(cs)
      /\ \A j \in 3 .. Len(cs) : j - 2 \in 1 .. Len(calls) /\ cs[j] = calls[j - 2]
  BY <1>1
<1>4. Fits(w) /\ Goes(w, cs)
  BY DEF Enters
<1> HIDE DEF fr, cs
<1>5. f # StandIn /\ f # StandOut
  BY <1>1 DEF Table, StandIn, StandOut
<1>6. OnTop(cs, 2)
  <2>1. ASSUME NEW j \in 3 .. Len(cs), cs[j].op # "hole" PROVE cs[j].f < f
    <3>1. j - 2 \in 1 .. Len(calls) /\ cs[j] = calls[j - 2] /\ InCall(calls, j - 2, io, left)
      BY <1>1, <1>3 DEF InCalls
    <3>2. cs[j].f \in 1 .. Len(io.files)
      BY <2>1, <3>1 DEF InCall
    <3>3. QED
      BY <1>1, <3>2
  <2>2. QED
    BY <1>3, <2>1 DEF OnTop, Outer
<1>7. (\E j \in 1 .. Len(calls) : calls[j].op = "printf") => \E j \in Outer(cs, 2) : cs[j].op = "printf"
  BY <1>3, SMTT(60) DEF Outer
<1>8. InCall(cs, 1, w, left)
  BY <1>3, <1>5 DEF InCall
<1>9. InCall(cs, 2, w, left)
  BY <1>3, <1>5, <1>6, <1>7 DEF InCall
<1>10. \A i \in 1 .. Len(fr) : InCall(cs, i, w, left) /\ (fr[i].op = "get" => WeakBy(fr[i], w))
  BY <1>2, <1>8, <1>9
<1>11. QED
  BY <1>2, <1>4, <1>10, EntersStep DEF cs

(* the entry of a string file *)
LEMMA TempNew ==
  /\ New([TempFile EXCEPT !.loaded = TRUE]) /\ [TempFile EXCEPT !.loaded = TRUE].temp
  /\ \A v \in Vars : LET e == [TempFile EXCEPT !.assoc = v] IN New(e) /\ e.temp
<1>1. /\ file_default \in File /\ file_default.assoc = Nobody /\ ~file_default.ondisk
      /\ ~file_default.dirty /\ ~file_default.loaded
      /\ ~file_default.on_end /\ ~file_default.on_value /\ ~file_default.on_line
  BY DEF file_default, File, Text
<1>2. Nobody \notin Names /\ Nobody \notin Vars
  BY Tokens
<1>3. /\ TempFile \in File /\ TempFile.assoc = Nobody /\ ~TempFile.ondisk /\ TempFile.temp
      /\ ~TempFile.dirty /\ ~TempFile.loaded
      /\ ~TempFile.on_end /\ ~TempFile.on_value /\ ~TempFile.on_line
  BY <1>1 DEF TempFile, File
<1>4. New([TempFile EXCEPT !.loaded = TRUE]) /\ [TempFile EXCEPT !.loaded = TRUE].temp
  BY <1>2, <1>3 DEF New, Entry, File
<1>5. ASSUME NEW v \in Vars
      PROVE  LET e == [TempFile EXCEPT !.assoc = v] IN New(e) /\ e.temp
  BY <1>2, <1>3 DEF New, Entry, File
<1>6. QED
  BY <1>4, <1>5

(* gets *)
LEMMA GetStringStep ==
  ASSUME Running, NEW v \in Vars, GetString(v)
  PROVE  Stepped
<1> DEFINE f == Len(io.files) + 1
           e == [TempFile EXCEPT !.assoc = v]
           w == file_push(io, e)
           u == refresh_assoc(w, f)
           c == GetFrame(f)
           b == [op |-> "gets", f |-> f]
<1>1. io \in World /\ Good(io, plan.disk) /\ Held(io) /\ Len(io.files) \in Nat /\ f \in Nat
  BY RunningParts, WorldParts
<1>2. New(e) /\ e.temp
  BY TempNew
<1>3. Enters(u, <<c, b>>)
  BY DEF GetString
<1>4. c \in Frame /\ c.op = "get" /\ c.f = f /\ c.seen = {}
  BY <1>1 DEF Frame, GetFrames, GetFrame
<1>5. b \in Frame /\ b.op = "gets" /\ b.f = f
  BY <1>1 DEF Frame, GetsFrames
<1> HIDE DEF e, c, b
<1>6. /\ w \in World /\ Good(w, plan.disk) /\ Apart(io, w) /\ Len(w.files) = f /\ w.files[f] = e
      /\ \A g \in 1 .. Len(io.files) : w.files[g] = io.files[g]
      /\ Held(w) /\ f \in 1 .. Len(w.files)
  BY <1>1, <1>2, PushGood, SMTT(30)
<1> HIDE DEF w
<1>7. /\ u \in World /\ Good(u, plan.disk) /\ Reading(w, u)
      /\ u.files[f].assoc \in Vars => u.files[f].buf = u.strs[u.files[f].assoc]
  BY <1>6, RefreshReads
<1>8. u.out = w.out /\ u.shown = w.shown /\ u.said = w.said /\ u.stdin = w.stdin
      /\ u.nul = w.nul
  BY <1>6 DEF refresh_assoc, World
<1> HIDE DEF u
<1>9. Held(u)
  BY <1>6, <1>7, AlikeHeld DEF Reading, Works
<1>10. Sound(u)
  BY <1>6, <1>7, <1>8, <1>9, ApartSound DEF Apart, Reading, Works
<1>11. Carries(io, u)
  <2>1. Len(io.files) <= Len(u.files) /\ Len(io.shown) <= Len(u.shown) /\ Len(io.said) <= Len(u.said)
        /\ u.old = io.old
    <3>1. Len(io.shown) \in Nat /\ Len(io.said) \in Nat
      BY <1>1, WorldParts, Joined
    <3>2. Len(u.files) = Len(w.files) /\ u.old = w.old
      BY <1>7 DEF Reading, Works, Alike
    <3>3. QED
      BY <1>1, <1>6, <1>8, <3>1, <3>2 DEF Apart
  <2>2. ASSUME NEW g \in 1 .. Len(io.files)
        PROVE  LET a == u.files[g].assoc
               IN /\ u.files[g].temp = io.files[g].temp
                  /\ a \in Vars /\ u.files[g].loaded =>
                     \/ io.files[g].assoc = a /\ io.files[g].loaded /\ u.files[g].buf = io.files[g].buf
                     \/ io.files[g].assoc = a /\ u.files[g].buf = io.strs[a]
                     \/ u.files[g].buf = u.strs[a]
    <3>1. g \in 1 .. Len(w.files) /\ w.files[g] = io.files[g]
      BY <1>1, <1>6
    <3>2. Like(w.files[g], u.files[g]) /\ w.strs = io.strs
      BY <1>6, <1>7, <3>1 DEF Reading, Works, Alike, Apart
    <3>3. w.files[g].assoc \in Vars /\ u.files[g].loaded =>
            \/ w.files[g].loaded /\ u.files[g].buf = w.files[g].buf
            \/ u.files[g].buf \in {w.strs[w.files[g].assoc], u.strs[w.files[g].assoc]}
      BY <1>7, <3>1 DEF Reading, Works
    <3>4. QED
      BY <3>1, <3>2, <3>3 DEF Like
  <2>3. QED
    BY <2>1, <2>2 DEF Carries
<1>12. u.files[f].temp /\ f \in 1 .. Len(u.files)
  BY <1>2, <1>6, <1>7 DEF Reading, Works, Alike, Like
<1>13. WeakBy(c, u)
  BY <1>4, <1>7 DEF WeakBy
<1>14. CutBy(calls, u.nul, left)
  BY <1>6, <1>8, RunningParts DEF Apart
<1> HIDE DEF f
<1>15. QED
  BY <1>3, <1>4, <1>5, <1>10, <1>11, <1>12, <1>13, <1>14, Enter2 DEF f

(* puts *)
LEMMA PutStringStep ==
  ASSUME Running, NEW v \in Vars, PutString(v)
  PROVE  Stepped
<1> DEFINE f == Len(io.files) + 1
           e == [TempFile EXCEPT !.loaded = TRUE]
           w == file_push(io, e)
           u == [w EXCEPT !.nul = FALSE]
           c == PrintfFrame(f, Len(io.out))
           b == [op |-> "puts", f |-> f, var |-> v, cut |-> io.nul]
<1>1. /\ io \in World /\ Good(io, plan.disk) /\ Held(io) /\ Len(io.files) \in Nat /\ f \in Nat
      /\ pf \in PfState /\ (pf.active => "printf" \in plan.uses) /\ io.nul \in BOOLEAN
      /\ CutBy(calls, io.nul, left) /\ Len(io.out) \in Nat /\ Len(io.said) \in Nat
      /\ Len(io.shown) \in Nat
  <2>1. io \in World
    BY RunningParts
  <2>2. Len(io.files) \in Nat /\ io.out \in Text /\ io.said \in Text /\ io.shown \in Text
        /\ io.nul \in BOOLEAN
    BY <2>1, WorldParts
  <2>3. f \in Nat
    BY <2>2
  <2> HIDE DEF f
  <2>4. QED
    BY <2>1, <2>2, <2>3, RunningParts, Joined
<1>2. New(e) /\ e.temp
  BY TempNew
<1>3. Enters(u, <<c, b>>)
  BY DEF PutString
<1>4. c \in Frame /\ c.op = "printf" /\ c.f = f /\ ~c.item /\ c.was = pf
  BY <1>1 DEF Frame, PrintfFrames, PrintfFrame
<1>5. b \in Frame /\ b.op = "puts" /\ b.f = f /\ b.cut = io.nul
  BY <1>1 DEF Frame, PutsFrames
<1> HIDE DEF e, c, b
<1>6. /\ w \in World /\ Good(w, plan.disk) /\ Apart(io, w) /\ Len(w.files) = f /\ w.files[f] = e
      /\ \A g \in 1 .. Len(io.files) : w.files[g] = io.files[g]
      /\ Held(w) /\ f \in 1 .. Len(w.files)
  BY <1>1, <1>2, PushGood
<1> HIDE DEF w
<1>7. u \in World /\ Good(u, plan.disk) /\ Alike(w, u) /\ ~u.nul /\ u.files = w.files
      /\ u.out = w.out /\ u.said = w.said /\ u.shown = w.shown /\ u.stdin = w.stdin
      /\ u.strs = w.strs /\ u.old = w.old
  BY <1>6, NulSet DEF Writing
<1> HIDE DEF u
<1>8. Held(u)
  BY <1>6, <1>7, AlikeHeld
<1>9. Sound(u)
  BY <1>6, <1>7, <1>8, ApartSound DEF Apart
<1>10. Carries(io, u)
  <2>1. Len(io.files) <= Len(u.files)
    BY <1>1, <1>6, <1>7
  <2>2. Len(io.shown) <= Len(u.shown) /\ Len(io.said) <= Len(u.said) /\ u.old = io.old
    BY <1>1, <1>6, <1>7 DEF Apart
  <2>3. \A g \in 1 .. Len(io.files) : u.files[g] = io.files[g]
    BY <1>6, <1>7
  <2>4. QED
    BY <2>1, <2>2, <2>3 DEF Carries
<1>11. u.files[f].temp /\ f \in 1 .. Len(u.files)
  BY <1>2, <1>6, <1>7
<1>12. CutBy(calls, u.nul, left)
  BY <1>7 DEF CutBy
<1>13. b.op = "puts" /\ b.cut => left \/ \E j \in 1 .. Len(calls) : calls[j].op = "printf"
  BY <1>1, <1>5 DEF CutBy
<1> HIDE DEF f
<1>14. QED
  BY <1>1, <1>3, <1>4, <1>5, <1>9, <1>10, <1>11, <1>12, <1>13, Enter2 DEF f

-----------------------------------------------------------------------------
(* Calls end. *)

(* Calls end that leave the table as it is. *)
LEMMA LeaveStep ==
  ASSUME Running, NEW cs \in Seq(Frame), NEW m, Around1(cs, calls, m), NEW w, Sound(w), Carries(io, w),
         Fits(w), \A i \in 1 .. m : calls[i].op = "printf" => ~calls[i].item,
         CutBy(cs, w.nul, left), Goes(w, cs)
  PROVE  Stepped
<1>1. w \in World
  BY DEF Sound
<1>2. InCalls(cs, w, left) /\ WeakSeen(cs, w) /\ Begun(cs, 0, pf, left)
  BY <1>1, Leaves
<1>3. QED
  BY <1>2, GoesStep

(* the world as it is *)
LEMMA Same ==
  ASSUME Running
  PROVE  Sound(io) /\ Carries(io, io) /\ Fits(io) /\ io \in World /\ Good(io, plan.disk)
<1>1. io \in World /\ Good(io, plan.disk) /\ Bounded(io)
  BY RunningParts
<1>2. Sound(io) /\ Carries(io, io)
  BY <1>1, ReadSound, ReadingSelf
<1>3. QED
  BY <1>1, <1>2 DEF Bounded, Fits

(* a dynamic part of a format ends *)
LEMMA HoleEndStep ==
  ASSUME Running, HoleEnd
  PROVE  Stepped
<1>1. calls # <<>> /\ Head(calls).op = "hole" /\ Goes(io, Tail(calls))
  BY DEF HoleEnd, Inside
<1>2. Head(calls) = calls[1] /\ Tail(calls) \in Seq(Frame) /\ Around1(Tail(calls), calls, 1)
  BY <1>1, HeadCall
<1>3. Sound(io) /\ Carries(io, io) /\ Fits(io)
  BY Same
<1>4. \A i \in 1 .. 1 : calls[i].op # "printf"
  BY <1>1, <1>2
<1>5. CutBy(Tail(calls), io.nul, left)
  BY <1>2, <1>4, RunningParts, Leaves
<1>6. QED
  BY <1>1, <1>2, <1>3, <1>4, <1>5, LeaveStep

(* The calls around that of a string file know nothing of its entry. *)
LEMMA PopCalls ==
  ASSUME NEW cs, NEW w, NEW v, NEW f, NEW l, InCalls(cs, w, l), WeakSeen(cs, w),
         \A i \in 1 .. Len(cs) : cs[i].op # "hole" => cs[i].f # f,
         \A g \in 1 .. Len(v.files) : v.files[g] = w.files[g],
         \A g \in 1 .. Len(w.files) : g # f => g \in 1 .. Len(v.files),
         v.strs = w.strs, v.shown = w.shown, v.said = w.said
  PROVE  InCalls(cs, v, l) /\ WeakSeen(cs, v)
<1>1. ASSUME NEW i \in 1 .. Len(cs)
      PROVE  InCall(cs, i, v, l) /\ (cs[i].op = "get" => WeakBy(cs[i], v))
  <2>1. InCall(cs, i, w, l) /\ (cs[i].op = "get" => WeakBy(cs[i], w))
    BY DEF InCalls, WeakSeen
  <2>2. cs[i].op # "hole" => /\ cs[i].f \in 1 .. Len(w.files) /\ cs[i].f \in 1 .. Len(v.files)
                             /\ v.files[cs[i].f] = w.files[cs[i].f]
    BY <2>1 DEF InCall
  <2>3. InCall(cs, i, v, l)
    BY <2>1, <2>2 DEF InCall
  <2>4. cs[i].op = "get" => WeakBy(cs[i], v)
    BY <2>1, <2>2 DEF WeakBy
  <2>5. QED
    BY <2>3, <2>4
<1>2. QED
  BY <1>1 DEF InCalls, WeakSeen

(* The call of gets, or of puts, around the first m, and those around it. *)
LEMMA StringCall ==
  ASSUME Running, NEW cs \in Seq(Frame), NEW m, Around1(cs, calls, m), cs # <<>>,
         Head(cs).op \in {"gets", "puts"}
  PROVE  /\ Head(cs) \in Frame /\ Head(cs).f \in 1 .. Len(io.files) /\ io.files[Head(cs).f].temp
         /\ Tail(cs) \in Seq(Frame) /\ Around1(Tail(cs), calls, m + 1)
         /\ m + 1 \in 1 .. Len(calls) /\ Head(cs) = calls[m + 1]
         /\ \A i \in 1 .. Len(Tail(cs)) : Tail(cs)[i].op # "hole" => Tail(cs)[i].f # Head(cs).f
         /\ Head(cs).op = "puts" /\ Head(cs).cut => CutBy(Tail(cs), TRUE, left)
<1> DEFINE c == Head(cs)
           ds == Tail(cs)
<1>1. /\ Len(cs) \in Nat /\ Len(calls) \in Nat /\ m \in Nat /\ Len(cs) + m = Len(calls)
      /\ \A i \in 1 .. Len(cs) : cs[i] = calls[i + m]
  BY DEF Around1
<1>2. /\ c = cs[1] /\ c \in Frame /\ 1 \in 1 .. Len(cs) /\ ds \in Seq(Frame) /\ Len(ds) = Len(cs) - 1
      /\ \A i \in 1 .. Len(ds) : ds[i] = cs[i + 1] /\ i + 1 \in 2 .. Len(cs)
  OBVIOUS
<1>3. InCalls(cs, io, left)
  BY Same, Leaves
<1> HIDE DEF c, ds
<1>4. InCall(cs, 1, io, left)
  BY <1>2, <1>3 DEF InCalls
<1>5. c.f \in 1 .. Len(io.files) /\ io.files[c.f].temp /\ OnTop(cs, 1)
  BY <1>2, <1>4 DEF InCall, c
<1>6. ASSUME NEW i \in 1 .. Len(ds), ds[i].op # "hole" PROVE ds[i].f # c.f
  <2>1. i + 1 \in Outer(cs, 1) /\ ds[i] = cs[i + 1] /\ i + 1 \in 1 .. Len(cs)
    BY <1>1, <1>2 DEF Outer
  <2>2. ds[i].f < c.f
    BY <1>2, <1>5, <1>6, <2>1 DEF OnTop
  <2>3. InCall(cs, i + 1, io, left)
    BY <1>3, <2>1 DEF InCalls
  <2>4. ds[i].f \in 1 .. Len(io.files) /\ Len(io.files) \in Nat
    BY <1>6, <2>1, <2>3, RunningParts, WorldParts DEF InCall
  <2>5. QED
    BY <1>5, <2>2, <2>4
<1>7. Around1(ds, calls, m + 1)
  <2>1. \A i \in 1 .. Len(ds) : ds[i] = calls[i + (m + 1)]
    <3>1. ASSUME NEW i \in 1 .. Len(ds) PROVE ds[i] = calls[i + (m + 1)]
      <4>1. ds[i] = cs[i + 1] /\ i + 1 \in 1 .. Len(cs) /\ (i + 1) + m = i + (m + 1)
        BY <1>1, <1>2
      <4>2. QED
        BY <1>1, <4>1
    <3>2. QED
      BY <3>1
  <2>2. Len(ds) \in Nat /\ m + 1 \in Nat /\ Len(ds) + (m + 1) = Len(calls)
    <3> DEFINE a == Len(cs)
               b == Len(ds)
               k == Len(calls)
    <3>1. a \in Nat /\ a >= 1 /\ b = a - 1 /\ m \in Nat /\ a + m = k
      BY <1>1, <1>2
    <3> HIDE DEF a, b, k
    <3>2. b \in Nat /\ m + 1 \in Nat /\ b + (m + 1) = k
      BY <3>1
    <3>3. QED
      BY <3>2 DEF b, k
  <2>3. QED
    BY <1>1, <2>1, <2>2 DEF Around1
<1>8. m + 1 \in 1 .. Len(calls) /\ c = calls[m + 1]
  <2>1. cs[1] = calls[1 + m] /\ 1 + m = m + 1 /\ m + 1 \in 1 .. Len(calls)
    BY <1>1, <1>2
  <2>2. QED
    BY <1>2, <2>1
<1>9. ASSUME c.op = "puts", c.cut PROVE CutBy(ds, TRUE, left)
  <2>1. left \/ \E j \in Outer(cs, 1) : cs[j].op = "printf"
    BY <1>2, <1>4, <1>9 DEF InCall
  <2>2. ASSUME NEW j \in Outer(cs, 1) PROVE j - 1 \in 1 .. Len(ds) /\ ds[j - 1] = cs[j]
    <3>1. j - 1 \in 1 .. Len(ds) /\ (j - 1) + 1 = j
      BY <1>1, <1>2 DEF Outer
    <3>2. ds[j - 1] = cs[(j - 1) + 1]
      BY <1>2, <3>1
    <3>3. QED
      BY <3>1, <3>2
  <2>3. QED
    BY <2>1, <2>2 DEF CutBy
<1>10. QED
  BY <1>2, <1>5, <1>6, <1>7, <1>8, <1>9 DEF c, ds

(* A call of get ends, and with it that of gets. *)
LEMMA GetsEndsStep ==
  ASSUME Running, NEW cs \in Seq(Frame), NEW m, Around1(cs, calls, m),
         \A i \in 1 .. m : calls[i].op # "printf", GetsEnds(io, cs)
  PROVE  Stepped
<1>1. Sound(io) /\ Carries(io, io) /\ Fits(io) /\ io \in World /\ Good(io, plan.disk)
  BY Same
<1>2. CutBy(cs, io.nul, left)
  BY RunningParts, Leaves
<1>3. CASE ~StringFile(io, cs)
  <2>1. Goes(io, cs)
    BY <1>3 DEF GetsEnds
  <2>2. QED
    BY <1>1, <1>2, <2>1, LeaveStep
<1>4. CASE StringFile(io, cs)
  <2> DEFINE f == Head(cs).f
             ds == Tail(cs)
             w == file_pop(io, f)
  <2>1. cs # <<>> /\ Head(cs).op = "gets"
    BY <1>4 DEF StringFile
  <2>2. Goes(w, ds)
    BY <1>4 DEF GetsEnds
  <2>3. /\ f \in 1 .. Len(io.files) /\ io.files[f].temp /\ ds \in Seq(Frame)
        /\ Around1(ds, calls, m + 1) /\ m + 1 \in 1 .. Len(calls) /\ Head(cs) = calls[m + 1]
        /\ \A i \in 1 .. Len(ds) : ds[i].op # "hole" => ds[i].f # f
    BY <2>1, StringCall
  <2>4. /\ w \in World /\ Good(w, plan.disk) /\ Apart(io, w) /\ Held(w)
        /\ Len(w.files) \in f - 1 .. Len(io.files)
        /\ \A g \in 1 .. Len(w.files) : w.files[g] = io.files[g]
        /\ \A g \in 1 .. Len(io.files) : g # f => g \in 1 .. Len(w.files)
    BY <1>1, <2>3, RunningParts, PopGood
  <2> HIDE DEF w, ds, f
  <2>5. Sound(w)
    BY <2>4, ApartSound DEF Apart
  <2>6. Fits(w)
    <3>1. Len(io.files) \in Nat /\ plan.files \in Nat /\ f \in Nat
      BY <1>1, <2>3, RunningParts, WorldParts, Shapes
    <3>2. QED
      BY <1>1, <2>4, <3>1 DEF Fits
  <2>7. \A i \in 1 .. m + 1 : calls[i].op # "printf"
    <3>1. m \in Nat
      BY DEF Around1
    <3>2. \A i \in 1 .. m + 1 : i \in 1 .. m \/ i = m + 1
      BY <3>1
    <3>3. QED
      BY <2>1, <2>3, <3>2
  <2>8. InCalls(ds, io, left) /\ WeakSeen(ds, io) /\ Begun(ds, 0, pf, left) /\ CutBy(ds, io.nul, left)
    BY <1>1, <2>3, <2>7, RunningParts, Leaves
  <2>9. InCalls(ds, w, left) /\ WeakSeen(ds, w)
    BY <2>3, <2>4, <2>8, PopCalls DEF Apart
  <2>10. CutBy(ds, w.nul, left)
    BY <2>4, <2>8 DEF Apart
  <2>11. QED
    BY <2>2, <2>3, <2>5, <2>6, <2>8, <2>9, <2>10, GoesStep
<1>5. QED
  BY <1>3, <1>4
(* get ends *)
LEMMA GetEndStep ==
  ASSUME Running, GetEnd
  PROVE  Stepped
<1>1. calls # <<>> /\ Head(calls).op = "get" /\ GetsEnds(io, Tail(calls))
  BY DEF GetEnd, Inside
<1>2. Head(calls) = calls[1] /\ Tail(calls) \in Seq(Frame) /\ Around1(Tail(calls), calls, 1)
  BY <1>1, HeadCall
<1>3. \A i \in 1 .. 1 : calls[i].op # "printf"
  BY <1>1, <1>2
<1>4. QED
  BY <1>1, <1>2, <1>3, GetsEndsStep

(* The string variable of puts gets the text of its file, which goes. *)
LEMMA PutsEndsStep ==
  ASSUME Running, NEW cs \in Seq(Frame), NEW m, Around1(cs, calls, m), cs # <<>>,
         Head(cs).op = "puts", \A i \in 1 .. m : calls[i].op = "printf" => ~calls[i].item,
         Goes(string_file_text(purge(io), Head(cs)), Tail(cs))
  PROVE  Stepped
<1> DEFINE c == Head(cs)
           f == c.f
           v == c.var
           ds == Tail(cs)
           b == purge(io).files[f].buf
           w1 == purge(io)
           w2 == [w1 EXCEPT !.strs[v] = b]
           w3 == file_pop(w2, f)
           w4 == [w3 EXCEPT !.nul = c.cut]
<1>1. /\ c \in Frame /\ c.op = "puts" /\ f \in 1 .. Len(io.files) /\ io.files[f].temp
      /\ ds \in Seq(Frame) /\ Around1(ds, calls, m + 1)
      /\ m + 1 \in 1 .. Len(calls) /\ c = calls[m + 1]
      /\ \A i \in 1 .. Len(ds) : ds[i].op # "hole" => ds[i].f # f
      /\ c.cut => CutBy(ds, TRUE, left)
  BY StringCall
<1>2. Goes(w4, ds)
  BY DEF string_file_text
<1>3. c.cut \in BOOLEAN /\ v \in Vars
  BY <1>1, FrameParts DEF PutsFrames
<1>4. io \in World /\ Good(io, plan.disk) /\ Held(io) /\ Fits(io)
  BY Same, RunningParts
<1>5. /\ w1 \in World /\ Good(w1, plan.disk) /\ Alike(io, w1) /\ w1.files = io.files
      /\ w1.strs = io.strs /\ w1.out = io.out /\ w1.said = io.said /\ w1.stdin = io.stdin
      /\ w1.shown = io.shown /\ w1.old = io.old
  BY <1>4, NulSet DEF purge, Writing
<1> HIDE DEF w1
<1>6. b \in Text
  BY <1>1, <1>4, <1>5, WorldParts, FileParts DEF w1
<1> HIDE DEF b, c, f, v, ds
<1>7. /\ w2 \in World /\ SameTable(w1, w2) /\ w2.out = w1.out /\ w2.shown = w1.shown
      /\ w2.said = w1.said /\ w2.stdin = w1.stdin /\ w2.old = w1.old
  BY <1>3, <1>5, <1>6 DEF World, SameTable
<1> HIDE DEF w2
<1>8. Good(w2, plan.disk) /\ Alike(w1, w2) /\ w2.files = io.files
  BY <1>5, <1>7, SameGood DEF SameTable
<1>9. Held(w2)
  BY <1>4, <1>5, <1>7, <1>8, AlikeHeld
<1>10. Carries(io, w2)
  <2>1. Len(io.files) \in Nat /\ Len(io.shown) \in Nat /\ Len(io.said) \in Nat
    BY <1>4, WorldParts, Joined
  <2>2. QED
    BY <1>5, <1>7, <1>8, <2>1 DEF Carries
<1>11. InCalls(ds, w2, left) /\ WeakSeen(ds, w2) /\ Begun(ds, 0, pf, left)
  <2>1. \A i \in 1 .. m + 1 : calls[i].op = "printf" => ~calls[i].item
    <3>1. m \in Nat
      BY DEF Around1
    <3>2. \A i \in 1 .. m + 1 : i \in 1 .. m \/ i = m + 1
      BY <3>1
    <3>3. QED
      BY <1>1, <3>2
  <2>2. QED
    BY <1>1, <1>7, <1>10, <2>1, Leaves
<1>12. /\ w3 \in World /\ Good(w3, plan.disk) /\ Apart(w2, w3) /\ Held(w3)
       /\ Len(w3.files) \in f - 1 .. Len(w2.files)
       /\ \A g \in 1 .. Len(w3.files) : w3.files[g] = w2.files[g]
       /\ \A g \in 1 .. Len(w2.files) : g # f => g \in 1 .. Len(w3.files)
  BY <1>1, <1>7, <1>8, <1>9, PopGood
<1> HIDE DEF w3
<1>13. InCalls(ds, w3, left) /\ WeakSeen(ds, w3)
  BY <1>1, <1>11, <1>12, PopCalls DEF Apart
<1>14. /\ w4 \in World /\ Good(w4, plan.disk) /\ w4.nul = c.cut /\ w4.files = w3.files
       /\ w4.strs = w3.strs /\ w4.out = w3.out /\ w4.said = w3.said /\ w4.stdin = w3.stdin
       /\ Alike(w3, w4) /\ w4.shown = w3.shown /\ w4.old = w3.old
  BY <1>3, <1>12, NulSet DEF Writing
<1> HIDE DEF w4
<1>15. InCalls(ds, w4, left) /\ WeakSeen(ds, w4)
  BY <1>13, <1>14 DEF InCalls, InCall, WeakSeen, WeakBy
<1>16. Held(w4)
  BY <1>12, <1>14, AlikeHeld
<1>17. Sound(w4)
  BY <1>5, <1>7, <1>12, <1>14, <1>16, ApartSound DEF Apart
<1>18. CutBy(ds, w4.nul, left)
  BY <1>1, <1>3, <1>14 DEF CutBy
<1>19. Fits(w4)
  <2>1. Len(io.files) \in Nat /\ plan.files \in Nat /\ f \in Nat
    BY <1>1, <1>4, RunningParts, WorldParts, Shapes
  <2>2. QED
    BY <1>4, <1>8, <1>12, <1>14, <2>1 DEF Fits
<1>20. QED
  BY <1>1, <1>2, <1>11, <1>14, <1>15, <1>17, <1>18, <1>19, GoesStep

(* printf, and puts with it, ends *)
LEMMA PrintfEndStep ==
  ASSUME Running, PrintfEnd
  PROVE  Stepped
<1> DEFINE cs == Tail(calls)
<1>1. calls # <<>> /\ Head(calls).op = "printf" /\ ~Head(calls).item
  BY DEF PrintfEnd, Inside
<1>2. Head(calls) = calls[1] /\ cs \in Seq(Frame) /\ Around1(cs, calls, 1)
  BY <1>1, HeadCall
<1>3. \A i \in 1 .. 1 : calls[i].op = "printf" => ~calls[i].item
  BY <1>1, <1>2
<1>4. \/ cs # <<>> /\ Head(cs).op = "puts" /\ Goes(string_file_text(purge(io), Head(cs)), Tail(cs))
      \/ Goes(purge(io), cs)
  BY DEF PrintfEnd
<1> HIDE DEF cs
<1>5. CASE cs # <<>> /\ Head(cs).op = "puts" /\ Goes(string_file_text(purge(io), Head(cs)), Tail(cs))
  BY <1>2, <1>3, <1>5, PutsEndsStep
<1>6. CASE Goes(purge(io), cs)
  <2> DEFINE w == purge(io)
  <2>1. w \in World /\ Good(w, plan.disk) /\ Writing(io, w) /\ ~w.nul /\ w.said = io.said
        /\ w.files = io.files
    BY Same, NulSet DEF purge
  <2>2. Goes(w, cs)
    BY <1>6
  <2> HIDE DEF w
  <2>3. Sound(w) /\ Carries(io, w)
    BY <2>1, RunningParts, WriteSound
  <2>4. Fits(w) /\ CutBy(cs, w.nul, left)
    BY <2>1, Same DEF Fits, CutBy
  <2>5. QED
    BY <1>2, <1>3, <2>2, <2>3, <2>4, LeaveStep
<1>7. QED
  BY <1>4, <1>5, <1>6

-----------------------------------------------------------------------------
(* Formatted output. *)

(* a value, or an insertion *)
LEMMA PrintfTextStep ==
  ASSUME Running, NEW s \in plan.pieces, NEW insertion \in BOOLEAN, PrintfText(s, insertion)
  PROVE  Stepped
<1> DEFINE f == Head(calls).f
           w == file_out(io, f, s)
           u == [w EXCEPT !.nul = FALSE]
<1>1. calls # <<>> /\ Head(calls).op = "printf" /\ io \in World /\ Good(io, plan.disk)
      /\ s \in Text /\ calls \in Seq(Frame)
  BY RunningParts, Shapes DEF PrintfText, Inside, Text
<1>2. Head(calls) = calls[1] /\ 1 \in 1 .. Len(calls) /\ InCall(calls, 1, io, left)
  BY <1>1, HeadCall
<1>3. f \in 1 .. Len(io.files)
  BY <1>1, <1>2 DEF InCall
<1>4. w \in World /\ Good(w, plan.disk) /\ Writing(io, w)
  BY <1>1, <1>3, FileOut DEF Wrote1
<1>5. Len(w.said) <= plan.out /\ (Does(w) \/ Does(u))
  BY DEF PrintfText, Room
<1>6. \A n : CutBy(calls, n, left)
  BY <1>1, <1>2 DEF CutBy
<1> HIDE DEF w, f
<1>7. CASE Does(w)
  <2>1. Sound(w) /\ Carries(io, w)
    BY <1>4, <1>5, WriteSound
  <2>2. QED
    BY <1>6, <1>7, <2>1, DoesStep
<1>8. CASE Does(u)
  <2>1. u \in World /\ Good(u, plan.disk) /\ Writing(w, u) /\ u.said = w.said
    BY <1>4, NulSet
  <2> HIDE DEF u
  <2>2. Writing(io, u)
    BY <1>1, <1>4, <2>1, WritingTrans
  <2>3. Sound(u) /\ Carries(io, u)
    BY <1>5, <2>1, <2>2, WriteSound
  <2>4. QED
    BY <1>6, <1>8, <2>3, DoesStep
<1>9. QED
  BY <1>5, <1>7, <1>8

(* What is known of the calls before a step that leaves them is known after it. *)
LEMMA CallsNext ==
  ASSUME NEW w, NEW cs, io' = w, calls' = cs, plan' = plan, left' = left, InCalls(cs, w, left)
  PROVE  (InCalls(calls, io, left))'
BY DEF InCalls, InCall

(* An item of a format begins, or ends: the call of printf and pf change. *)
LEMMA ItemStep ==
  ASSUME Running, calls # <<>>, NEW c, c = Head(calls), c.op = "printf",
         NEW d \in PrintfFrames, d.f = c.f, d.start = c.start, d.said = c.said,
         d.was.active => "printf" \in plan.uses,
         d.item => Begun(calls, 1, d.was, left),
         calls' = <<d>> \o Tail(calls),
         pf' \in PfState, pf'.active => "printf" \in plan.uses,
         \/ d.item /\ d.f = StandOut /\ pf'.start = d.start
         \/ Begun(calls, 1, pf', left),
         UNCHANGED <<io, status, plan, left>>
  PROVE  Stepped
<1> DEFINE cs == <<d>> \o Tail(calls)
<1>1. /\ calls \in Seq(Frame) /\ InCalls(calls, io, left) /\ Seen(calls, io) /\ Len(calls) \in Nat
      /\ Around1(Tail(calls), calls, 1) /\ Tail(calls) \in Seq(Frame) /\ c = calls[1]
      /\ CutBy(calls, io.nul, left) /\ InCall(calls, 1, io, left) /\ 1 \in 1 .. Len(calls)
  BY RunningParts, HeadCall
<1>2. d \in Frame /\ d.op = "printf"
  BY DEF Frame, PrintfFrames
<1>3. /\ cs \in Seq(Frame) /\ Len(cs) = Len(calls) /\ cs[1] = d
      /\ \A i \in 2 .. Len(calls) : cs[i] = calls[i]
  BY <1>1, <1>2
<1> HIDE DEF cs
<1>4. \A p : Begun(calls, 1, p, left) => Begun(cs, 1, p, left) /\ Begun(cs, 0, p, left)
  <2>1. Outer(cs, 1) = 2 .. Len(calls) /\ Outer(calls, 1) = 2 .. Len(calls)
    BY <1>3 DEF Outer
  <2>2. \A j \in 2 .. Len(calls) : j \in Outer(cs, 0)
    BY <1>1, <1>3 DEF Outer
  <2>3. QED
    BY <1>3, <2>1, <2>2 DEF Begun
<1>5. Begun(cs, 0, pf', left)
  <2>1. CASE d.item /\ d.f = StandOut /\ pf'.start = d.start
    <3>1. 1 \in Outer(cs, 0)
      BY <1>1, <1>3 DEF Outer
    <3>2. QED
      BY <1>2, <1>3, <2>1, <3>1 DEF Begun
  <2>2. QED
    BY <1>4, <2>1
<1>6. InCall(cs, 1, io, left)
  <2>1. d.item => Begun(cs, 1, d.was, left)
    BY <1>4
  <2>2. QED
    BY <1>1, <1>2, <1>3, <2>1 DEF InCall
<1>7. ASSUME NEW i \in 2 .. Len(calls) PROVE InCall(cs, i, io, left)
  <2>1. InCall(calls, i, io, left) /\ cs[i] = calls[i]
    BY <1>1, <1>3 DEF InCalls
  <2>2. \A j \in Outer(calls, i) : cs[j] = calls[j]
    BY <1>3, SMTT(30) DEF Outer
  <2>3. Outer(cs, i) = Outer(calls, i)
    BY <1>3 DEF Outer
  <2>4. i < Len(calls) => cs[i + 1] = calls[i + 1]
    BY <1>1, <1>3
  <2>5. QED
    BY <1>3, <2>1, <2>2, <2>3, <2>4, SMTT(60) DEF InCall, OnTop, Begun
<1>8. InCalls(cs, io, left)
  <2>1. \A i \in 1 .. Len(cs) : i = 1 \/ i \in 2 .. Len(calls)
    BY <1>1, <1>3
  <2>2. QED
    BY <1>6, <1>7, <2>1 DEF InCalls
<1>9. Seen(cs, io) /\ CutBy(cs, io.nul, left)
  <2>1. \A i \in 1 .. Len(cs) : i \in 1 .. Len(calls) /\ (i = 1 \/ cs[i] = calls[i])
    BY <1>1, <1>3
  <2>2. Seen(cs, io)
    BY <1>1, <1>2, <1>3, <2>1 DEF Seen
  <2>3. CutBy(cs, io.nul, left)
    BY <1>1, <1>2, <1>3 DEF CutBy
  <2>4. QED
    BY <2>2, <2>3
<1>10. io' = io /\ calls' = cs /\ status' = "running" /\ plan' = plan /\ left' = left
  BY DEF cs, Running
<1>11. TransputInv'
  <2>1. (InCalls(calls, io, left))'
    BY <1>8, <1>10, CallsNext
  <2>2. (Seen(calls, io) /\ CutBy(calls, io.nul, left) /\ Begun(calls, 0, pf, left))'
    BY <1>5, <1>9, <1>10
  <2>3. (Bounded(io))'
    BY <1>10, RunningParts DEF Bounded
  <2>4. /\ plan' \in Scenarios /\ left' \in BOOLEAN /\ calls' \in Seq(Frame) /\ io' \in World
        /\ Table(io') /\ Held(io') /\ ~io'.old /\ Saved(io', plan'.disk) /\ Ordered(io')
        /\ Len(io'.said) <= plan'.out
    BY <1>3, <1>10, RunningParts DEF Good
  <2>5. QED
    BY <1>10, <2>1, <2>2, <2>3, <2>4 DEF TransputInv
<1>12. Prompted /\ Keeps
  BY <1>10 DEF Prompted, Keeps
<1>13. QED
  BY <1>11, <1>12 DEF Stepped

(* an item begins *)
LEMMA PrintfItemStep ==
  ASSUME Running, PrintfItem
  PROVE  Stepped
<1> DEFINE c == Head(calls)
           d == [c EXCEPT !.item = TRUE, !.was = pf]
<1>1. /\ calls # <<>> /\ c.op = "printf" /\ ~c.item /\ calls' = <<d>> \o Tail(calls)
      /\ pf' = IF c.f = StandOut THEN [active |-> TRUE, start |-> c.start, item |-> Len(io.out)] ELSE pf
      /\ UNCHANGED <<io, status, plan, left>>
  BY DEF PrintfItem, Inside
<1>2. /\ c = calls[1] /\ c \in Frame /\ InCall(calls, 1, io, left) /\ Len(calls) \in Nat
      /\ pf \in PfState /\ (pf.active => "printf" \in plan.uses) /\ Begun(calls, 0, pf, left)
      /\ Len(io.out) \in Nat
  BY <1>1, HeadCall, RunningParts, WorldParts, Joined
<1>3. c \in PrintfFrames
  BY <1>1, <1>2, FrameParts
<1>4. c.f = StandOut => "printf" \in plan.uses
  BY <1>1, <1>2 DEF InCall
<1>5. Begun(calls, 1, pf, left)
  <2>1. \A j \in Outer(calls, 0) : j = 1 \/ j \in Outer(calls, 1)
    BY <1>2 DEF Outer
  <2>2. QED
    BY <1>1, <1>2, <2>1 DEF Begun
<1> HIDE DEF c
<1>6. /\ d \in PrintfFrames /\ d.f = c.f /\ d.start = c.start /\ d.said = c.said
      /\ d.was = pf /\ d.item
  BY <1>2, <1>3 DEF PrintfFrames
<1> HIDE DEF d
<1>7. pf' \in PfState /\ (pf'.active => "printf" \in plan.uses)
  BY <1>1, <1>2, <1>3, <1>4 DEF PfState, PrintfFrames
<1>8. \/ d.item /\ d.f = StandOut /\ pf'.start = d.start
      \/ Begun(calls, 1, pf', left)
  BY <1>1, <1>5, <1>6
<1>9. QED
  BY <1>1, <1>2, <1>5, <1>6, <1>7, <1>8, ItemStep DEF c

(* an item ends *)
LEMMA PrintfItemEndStep ==
  ASSUME Running, PrintfItemEnd
  PROVE  Stepped
<1> DEFINE c == Head(calls)
           d == [c EXCEPT !.item = FALSE]
<1>1. /\ calls # <<>> /\ c.op = "printf" /\ c.item /\ calls' = <<d>> \o Tail(calls)
      /\ pf' = c.was /\ UNCHANGED <<io, status, plan, left>>
  BY DEF PrintfItemEnd, Inside
<1>2. c = calls[1] /\ c \in Frame /\ InCall(calls, 1, io, left)
  BY <1>1, HeadCall
<1>3. c \in PrintfFrames
  BY <1>1, <1>2, FrameParts
<1>4. (c.was.active => "printf" \in plan.uses) /\ Begun(calls, 1, c.was, left)
  BY <1>1, <1>2 DEF InCall
<1> HIDE DEF c
<1>5. /\ d \in PrintfFrames /\ d.f = c.f /\ d.start = c.start /\ d.said = c.said
      /\ d.was = c.was /\ ~d.item
  BY <1>3 DEF PrintfFrames
<1> HIDE DEF d
<1>6. c.was \in PfState
  BY <1>3 DEF PrintfFrames
<1>7. QED
  BY <1>1, <1>4, <1>5, <1>6, ItemStep DEF c

-----------------------------------------------------------------------------
(* Reading by a call of get. *)

(* the file of a call of get in progress *)
LEMMA GetFile ==
  ASSUME Running, Inside({"get"}), NEW f, f = Head(calls).f
  PROVE  /\ f \in 1 .. Len(io.files) /\ (f = StandIn => StandIn \in plan.fids)
         /\ calls # <<>> /\ Head(calls).op = "get" /\ SeenBy(Head(calls), io)
<1>1. calls # <<>> /\ Head(calls).op = "get" /\ Seen(calls, io)
  BY RunningParts DEF Inside
<1>2. Head(calls) = calls[1] /\ InCall(calls, 1, io, left) /\ 1 \in 1 .. Len(calls)
  BY <1>1, HeadCall
<1>3. QED
  BY <1>1, <1>2 DEF InCall, Seen

(* Characters that have come are as fresh as the call. *)
LEMMA FreshCame ==
  ASSUME Running, Inside({"get"}), NEW f, f = Head(calls).f, NEW w, Came(io, w, f, plan.disk)
  PROVE  w.files[f].assoc \in Vars => Fresh(w, f)
<1>1. f \in 1 .. Len(io.files) /\ SeenBy(Head(calls), io) /\ io \in World
  BY GetFile, RunningParts
<1>2. SUFFICES ASSUME w.files[f].assoc \in Vars PROVE Fresh(w, f)
  OBVIOUS
<1> DEFINE b == w.files[f].buf
           p1 == io.files[f].pos
           p2 == w.files[f].pos
           S == Head(calls).seen
<1>3. /\ w \in World /\ Reading(io, w) /\ w.files[f].loaded
      /\ p2 <= Len(b) \/ p2 <= p1
  BY <1>2 DEF Came
<1>4. Like(io.files[f], w.files[f]) /\ w.strs = io.strs /\ f \in 1 .. Len(w.files)
  BY <1>1, <1>3 DEF Reading, Works, Alike
<1>5. b \in S
  <2>1. \/ io.files[f].loaded /\ w.files[f].buf = io.files[f].buf
        \/ w.files[f].buf = io.strs[io.files[f].assoc]
    BY <1>1, <1>2, <1>3, <1>4 DEF Reading, Works, Like
  <2>2. io.files[f].assoc \in Vars
    BY <1>2, <1>4 DEF Like
  <2>3. QED
    BY <1>1, <2>1, <2>2, SMTT(60) DEF SeenBy
<1>6. p1 \in Nat /\ p2 \in Nat /\ Len(b) \in Nat
  <2>1. io.files[f] \in File /\ w.files[f] \in File
    BY <1>1, <1>3, <1>4, WorldParts
  <2>2. QED
    BY <2>1, FileParts, Joined
<1> HIDE DEF b, p1, p2, S
<1>7. ASSUME NEW p \in p1 + 1 .. p2 PROVE \E s \in S : p <= Len(s) /\ s[p] = b[p]
  <2>1. p <= Len(b)
    BY <1>3, <1>6
  <2>2. QED
    BY <1>5, <2>1
<1>8. QED
  BY <1>7 DEF Fresh, b, p1, p2, S

(* Characters are taken. *)
LEMMA GotStep ==
  ASSUME Running, Inside({"get"}), NEW f, f = Head(calls).f, NEW w, Came(io, w, f, plan.disk),
         Got(w, f)
  PROVE  Stepped
<1>1. w \in World /\ Good(w, plan.disk) /\ Reading(io, w)
  BY DEF Came
<1>2. w.files[f].assoc \in Vars => Fresh(w, f)
  BY FreshCame
<1>3. ~io.old /\ w.old = io.old
  BY <1>1, RunningParts DEF Reading, Works
<1> DEFINE x == w.old \/ (w.files[f].assoc \in Vars /\ ~Fresh(w, f))
           v == [w EXCEPT !.old = x]
<1>4. x = FALSE
  BY <1>2, <1>3
<1>5. Does(v)
  BY DEF Got
<1> HIDE DEF x
<1>6. /\ v.files = w.files /\ v.handle = w.handle /\ v.opened = w.opened
      /\ v.disk = w.disk /\ v.strs = w.strs /\ v.puts = w.puts /\ v.out = w.out
      /\ v.shown = w.shown /\ v.said = w.said /\ v.stdin = w.stdin /\ v.nul = w.nul
      /\ v.old = x
  BY <1>1 DEF World
<1>7. v \in World
  BY <1>1, <1>4 DEF World
<1> HIDE DEF v
<1>8. v.old = w.old
  BY <1>1, <1>3, <1>4, <1>6, WorldParts, RunningParts
<1>9. Good(v, plan.disk)
  BY <1>1, <1>6, <1>7, SameGood, SMTT(30) DEF SameTable
<1>10. Reading(io, v)
  BY <1>1, <1>6, <1>8 DEF Reading, Works, Alike
<1>11. QED
  BY <1>5, <1>7, <1>9, <1>10, ReadsStep

(* What get reads for the next of its items. *)
LEMMA GetItemStep ==
  ASSUME Running, GetItem
  PROVE  Stepped
<1> DEFINE f == Head(calls).f
           d == plan.disk
           l == load_file(io, f)
           k == skip_spaces(io, f)
<1>1. Inside({"get"})
  BY DEF GetItem
<1>2. \/ ReadChar(f) \/ ReadInt(f) \/ ReadBool(f)
      \/ ReadString(f) \/ ReadNewLine(f) \/ ReadSpace(f)
  BY DEF GetItem
<1>3. /\ f \in 1 .. Len(io.files) /\ (f = StandIn => StandIn \in plan.fids)
      /\ calls # <<>> /\ Head(calls).op = "get"
  BY <1>1, GetFile
<1>4. io \in World /\ Good(io, d) /\ plan \in Scenarios
  BY RunningParts
<1>5. Came(io, l, f, d)
  BY <1>3, <1>4, LoadReads
<1>6. Came(io, k, f, d)
  BY <1>3, <1>4, <1>5, TakeWhileReads DEF skip_spaces
<1>7. l \in World /\ Good(l, d) /\ Reading(io, l) /\ k \in World /\ Good(k, d) /\ Reading(io, k)
  BY <1>5, <1>6 DEF Came
<1>8. Came(io, load_file(l, f), f, d) /\ Came(io, load_file(k, f), f, d)
  BY <1>3, <1>4, <1>5, <1>6, LoadAgain
<1>9. CASE ReadChar(f)
  <2>1. logical_end(l, f, "end") \/ (~at_end(l, f) /\ Got(Take(l, f), f))
    BY <1>9 DEF ReadChar
  <2> HIDE DEF l
  <2>2. CASE logical_end(l, f, "end")
    BY <1>3, <1>7, <2>2, LogicalEnd
  <2>3. CASE ~at_end(l, f) /\ Got(Take(l, f), f)
    <3>1. Came(io, Take(l, f), f, d)
      BY <1>3, <1>4, <1>5, <2>3, TakeReads
    <3>2. QED
      BY <1>1, <2>3, <3>1, GotStep
  <2>4. QED
    BY <2>1, <2>2, <2>3
<1>10. CASE ReadInt(f)
  <2> DEFINE v == read_number(k, f)
  <2>1. logical_end(k, f, "end") \/ value_error(k, f) \/ Got(v, f)
    BY <1>10 DEF ReadInt
  <2>2. Came(io, v, f, d)
    BY <1>3, <1>4, <1>8, TakeWhileReads DEF read_number
  <2> HIDE DEF k, v
  <2>3. CASE logical_end(k, f, "end")
    BY <1>3, <1>7, <2>3, LogicalEnd
  <2>4. CASE value_error(k, f)
    BY <1>3, <1>7, <2>4, ValueError
  <2>5. CASE Got(v, f)
    BY <1>1, <2>2, <2>5, GotStep
  <2>6. QED
    BY <2>1, <2>3, <2>4, <2>5
<1>11. CASE ReadBool(f)
  <2> DEFINE v == read_token(k, f)
  <2>1. logical_end(k, f, "end") \/ Got(v, f)
    BY <1>11 DEF ReadBool
  <2>2. Came(io, v, f, d)
    BY <1>3, <1>4, <1>8, TakeWhileReads DEF read_token
  <2> HIDE DEF k, v
  <2>3. CASE logical_end(k, f, "end")
    BY <1>3, <1>7, <2>3, LogicalEnd
  <2>4. CASE Got(v, f)
    BY <1>1, <2>2, <2>4, GotStep
  <2>5. QED
    BY <2>1, <2>3, <2>4
<1>12. CASE ReadString(f)
  <2> DEFINE v == read_line_str(l, f)
  <2>1. logical_end(l, f, "end") \/ Got(v, f)
    BY <1>12 DEF ReadString
  <2>2. Came(io, v, f, d)
    BY <1>3, <1>4, <1>8, TakeWhileReads DEF read_line_str
  <2> HIDE DEF l, v
  <2>3. CASE logical_end(l, f, "end")
    BY <1>3, <1>7, <2>3, LogicalEnd
  <2>4. CASE Got(v, f)
    BY <1>1, <2>2, <2>4, GotStep
  <2>5. QED
    BY <2>1, <2>3, <2>4
<1>13. CASE ReadNewLine(f)
  <2> DEFINE v == skip_line(io, f)
  <2>1. v \in World /\ Good(v, d) /\ Reading(io, v)
    BY <1>3, <1>4, SkipLineReads DEF Came
  <2>2. Does(v)
    BY <1>13 DEF ReadNewLine
  <2> HIDE DEF v
  <2>3. QED
    BY <2>1, <2>2, ReadsStep
<1>14. CASE ReadSpace(f)
  <2>1. \/ Does(l)
        \/ l.files[f].on_line /\ Event(l, f, "line")
        \/ ~at_end(l, f) /\ Got(Take(l, f), f)
    BY <1>14 DEF ReadSpace
  <2> HIDE DEF l
  <2>2. CASE Does(l)
    BY <1>7, <2>2, ReadsStep
  <2>3. CASE l.files[f].on_line /\ Event(l, f, "line")
    <3>1. Entry(l.files[f])
      BY <1>3, <1>7, ZenonT(30) DEF Good, Table, Reading, Works, Alike
    <3>2. ~l.files[f].temp
      BY <2>3, <3>1 DEF Entry
    <3>3. QED
      BY <1>3, <1>7, <2>3, <3>2, EventStep, ZenonT(30)
  <2>4. CASE ~at_end(l, f) /\ Got(Take(l, f), f)
    <3>1. Came(io, Take(l, f), f, d)
      BY <1>3, <1>4, <1>5, <2>4, TakeReads
    <3>2. QED
      BY <1>1, <2>4, <3>1, GotStep
  <2>5. QED
    BY <2>1, <2>2, <2>3, <2>4
<1>15. QED
  BY <1>2, <1>9, <1>10, <1>11, <1>12, <1>13, <1>14

-----------------------------------------------------------------------------
(* Event routines that give TRUE or FALSE. *)

(* TRUE: the call goes on, is abandoned, or ends. *)
LEMMA EventTrueStep ==
  ASSUME Running, EventTrue
  PROVE  Stepped
<1> DEFINE e == Head(calls)
           cs == Tail(calls)
<1>1. calls # <<>> /\ e.op = "event"
  BY DEF EventTrue, Inside
<1>2. /\ e = calls[1] /\ e \in Frame /\ cs \in Seq(Frame) /\ Around1(cs, calls, 1)
      /\ InCall(calls, 1, io, left) /\ calls \in Seq(Frame)
  BY <1>1, HeadCall, RunningParts
<1>3. e \in EventFrames /\ e.f \in 1 .. Len(io.files)
  BY <1>1, <1>2, FrameParts DEF InCall
<1>4. \A i \in 1 .. 1 : calls[i].op # "printf"
  BY <1>1, <1>2
<1>5. CutBy(cs, io.nul, left)
  BY <1>2, <1>4, RunningParts, Leaves
<1>6. /\ e.why = "line" =>
           LET w == load_file(io, e.f) IN Goes(IF at_end(w, e.f) THEN w ELSE Take(w, e.f), cs)
      /\ e.why \in {"set", "eoln"} => Goes(io, cs)
      /\ e.why \in {"end", "value"} => GetsEnds(io, Tail(cs))
  BY DEF EventTrue
<1>7. e.why \in {"line", "set", "eoln", "end", "value"}
  BY <1>3 DEF EventFrames
<1> HIDE DEF e, cs
<1>8. CASE e.why = "line"
  <2> DEFINE l == load_file(io, e.f)
             w == IF at_end(l, e.f) THEN l ELSE Take(l, e.f)
  <2>1. Goes(w, cs)
    BY <1>6, <1>8
  <2>2. io \in World /\ Good(io, plan.disk) /\ Came(io, l, e.f, plan.disk)
    BY <1>3, Same, LoadReads
  <2> HIDE DEF l
  <2>3. Came(io, w, e.f, plan.disk)
    BY <1>3, <2>2, TakeReads
  <2> HIDE DEF w
  <2>4. w \in World /\ Good(w, plan.disk) /\ Reading(io, w)
    BY <2>3 DEF Came
  <2>5. Sound(w) /\ Carries(io, w) /\ w.nul = io.nul
    BY <2>4, ReadSound
  <2>6. Fits(w)
    BY <2>4, Same DEF Fits, Reading, Works, Alike
  <2>7. QED
    BY <1>2, <1>4, <1>5, <2>1, <2>5, <2>6, LeaveStep
<1>9. CASE e.why \in {"set", "eoln"}
  BY <1>2, <1>4, <1>5, <1>6, <1>9, Same, LeaveStep
<1>10. CASE e.why \in {"end", "value"}
  <2>1. 1 < Len(calls) /\ calls[1 + 1].op = "get"
    BY <1>1, <1>2, <1>10 DEF InCall
  <2>2. cs # <<>> /\ Len(calls) \in Nat
    BY <1>2, <2>1 DEF Around1
  <2>3. Tail(cs) \in Seq(Frame) /\ Len(Tail(cs)) = Len(cs) - 1 /\ Len(cs) >= 1
        /\ \A i \in 1 .. Len(Tail(cs)) : Tail(cs)[i] = cs[i + 1] /\ i + 1 \in 1 .. Len(cs)
    BY <1>2, <2>2
  <2>4. Around1(Tail(cs), calls, 2)
    <3> DEFINE ds == Tail(cs)
    <3>1. Len(ds) \in Nat /\ Len(ds) = Len(cs) - 1 /\ Len(cs) + 1 = Len(calls) /\ Len(cs) \in Nat
          /\ Len(calls) \in Nat
      BY <1>2, <2>3 DEF Around1
    <3>2. \A i \in 1 .. Len(ds) : ds[i] = calls[i + 2]
      <4>1. ASSUME NEW i \in 1 .. Len(ds) PROVE ds[i] = calls[i + 2]
        <5>1. ds[i] = cs[i + 1] /\ i + 1 \in 1 .. Len(cs) /\ (i + 1) + 1 = i + 2
          BY <2>3
        <5>2. cs[i + 1] = calls[(i + 1) + 1]
          BY <1>2, <5>1 DEF Around1
        <5>3. QED
          BY <5>1, <5>2
      <4>2. QED
        BY <4>1
    <3> HIDE DEF ds
    <3>3. Len(ds) + 2 = Len(calls)
      BY <3>1
    <3>4. QED
      BY <3>1, <3>2, <3>3 DEF Around1, ds
  <2>5. \A i \in 1 .. 2 : calls[i].op # "printf"
    BY <1>1, <1>2, <2>1
  <2>6. GetsEnds(io, Tail(cs))
    BY <1>6, <1>10
  <2>7. QED
    BY <2>3, <2>4, <2>5, <2>6, GetsEndsStep
<1>11. QED
  BY <1>7, <1>8, <1>9, <1>10

-----------------------------------------------------------------------------
(* Jumps. *)

(* The string files of calls of gets are taken off one after the other. *)
Undone(v, n) ==
  /\ v \in World /\ Good(v, plan.disk) /\ Held(v) /\ Apart(io, v) /\ Len(v.files) <= Len(io.files)
  /\ \A g \in 1 .. Len(v.files) : v.files[g] = io.files[g]
  /\ \A i \in n + 1 .. Len(calls) : calls[i].op = "gets" => calls[i].f \in 1 .. Len(v.files)
(* One more of them goes. *)
LEMMA UndoneOne ==
  ASSUME Running, NEW n \in 1 .. Len(calls), NEW v, Undone(v, n - 1), calls[n].op = "gets"
  PROVE  Undone(file_pop(v, calls[n].f), n)
<1> DEFINE f == calls[n].f
           u == file_pop(v, f)
<1>1. /\ calls \in Seq(Frame) /\ InCalls(calls, io, left) /\ Len(calls) \in Nat /\ n \in Nat
      /\ (n - 1) + 1 = n /\ n \in (n - 1) + 1 .. Len(calls) /\ io \in World
  BY RunningParts
<1>2. InCall(calls, n, io, left)
  BY <1>1 DEF InCalls
<1>3. f \in 1 .. Len(v.files)
  BY <1>1 DEF Undone
<1>4. v.files[f].temp /\ OnTop(calls, n)
  BY <1>2, <1>3 DEF InCall, Undone
<1>5. v \in World /\ Good(v, plan.disk) /\ Held(v) /\ Apart(io, v) /\ Len(v.files) <= Len(io.files)
      /\ \A g \in 1 .. Len(v.files) : v.files[g] = io.files[g]
  BY DEF Undone
<1> HIDE DEF f
<1>6. /\ u \in World /\ Good(u, plan.disk) /\ Apart(v, u) /\ Held(u)
      /\ Len(u.files) \in f - 1 .. Len(v.files)
      /\ \A g \in 1 .. Len(u.files) : u.files[g] = v.files[g]
      /\ \A g \in 1 .. Len(v.files) : g # f => g \in 1 .. Len(u.files)
  BY <1>3, <1>4, <1>5, PopGood
<1> HIDE DEF u
<1>7. Len(u.files) \in Nat /\ Len(v.files) \in Nat /\ Len(io.files) \in Nat /\ f \in Nat
  BY <1>1, <1>3, <1>5, <1>6, WorldParts
<1>8. Len(u.files) <= Len(io.files) /\ Len(u.files) <= Len(v.files)
  BY <1>5, <1>6, <1>7
<1>9. \A g \in 1 .. Len(u.files) : u.files[g] = io.files[g]
  BY <1>5, <1>6, <1>7, <1>8
<1>10. ASSUME NEW i \in n + 1 .. Len(calls), calls[i].op = "gets"
       PROVE  calls[i].f \in 1 .. Len(u.files)
  <2>1. i \in (n - 1) + 1 .. Len(calls) /\ i \in Outer(calls, n)
    BY <1>1 DEF Outer
  <2>2. calls[i].f \in 1 .. Len(v.files)
    BY <1>10, <2>1 DEF Undone
  <2>3. calls[i].f < f
    BY <1>4, <1>10, <2>1 DEF OnTop, f
  <2>4. QED
    BY <1>6, <1>7, <2>2, <2>3
<1>11. Apart(io, u)
  BY <1>5, <1>6 DEF Apart
<1>12. QED
  BY <1>6, <1>8, <1>9, <1>10, <1>11 DEF Undone, u, f
(* All of them go, and nothing else does. *)
LEMMA UnwoundGood ==
  ASSUME Running
  PROVE  Undone(Unwound(io), Len(calls))
<1>1. /\ calls \in Seq(Frame) /\ InCalls(calls, io, left) /\ Len(calls) \in Nat
      /\ io \in World /\ Good(io, plan.disk) /\ Held(io) /\ Len(io.files) \in Nat
  BY RunningParts, WorldParts
<1>2. PICK g : Ended1(io, g)
  BY <1>1, UnwoundLoop
<1> DEFINE S == {n \in 0 .. Len(calls) : Undone(g[n], n)}
<1>3. 0 \in S
  <2>1. g[0] = io
    BY <1>2 DEF Ended1
  <2>2. \A i \in 1 .. Len(calls) : calls[i].op = "gets" => calls[i].f \in 1 .. Len(io.files)
    BY <1>1 DEF InCalls, InCall
  <2>3. \A i \in 0 + 1 .. Len(calls) : i \in 1 .. Len(calls)
    BY <1>1
  <2>4. Undone(io, 0)
    BY <1>1, <2>2, <2>3 DEF Undone, Apart
  <2>5. QED
    BY <1>1, <2>1, <2>4
<1>4. ASSUME NEW i \in 0 .. Len(calls), i \in S, i < Len(calls) PROVE i + 1 \in S
  <2>1. i + 1 \in 1 .. Len(calls) /\ (i + 1) - 1 = i
    BY <1>1, <1>4
  <2>2. g[i + 1] = IF calls[i + 1].op = "gets" THEN file_pop(g[i], calls[i + 1].f) ELSE g[i]
    BY <1>2, <2>1 DEF Ended1
  <2>3. Undone(g[i], (i + 1) - 1)
    BY <1>4, <2>1
  <2>4. Undone(g[i + 1], i + 1)
    <3>1. CASE calls[i + 1].op = "gets"
      BY <2>1, <2>2, <2>3, <3>1, UndoneOne
    <3>2. CASE calls[i + 1].op # "gets"
      <4>1. \A j \in (i + 1) + 1 .. Len(calls) : j \in ((i + 1) - 1) + 1 .. Len(calls)
        BY <1>1, <2>1
      <4>2. QED
        BY <2>2, <2>3, <3>2, <4>1 DEF Undone
    <3>3. QED
      BY <3>1, <3>2
  <2>5. QED
    BY <1>1, <2>1, <2>4
<1> HIDE DEF S
<1>5. \A i \in 0 .. Len(calls) : i \in S /\ i < Len(calls) => i + 1 \in S
  BY <1>4
<1>6. \A i \in 0 .. Len(calls) : i \in S
  BY <1>1, <1>3, <1>5, Steps
<1>7. Undone(g[Len(calls)], Len(calls))
  BY <1>1, <1>6 DEF S
<1>8. QED
  BY <1>2, <1>7 DEF Ended1

(* A jump to a label of the main program. *)
LEMMA JumpStep ==
  ASSUME Running, Jump
  PROVE  Stepped
<1> DEFINE w == Unwound(io)
<1>1. /\ io' = w /\ calls' = <<>> /\ pf' = pf /\ status' = "running" /\ plan' = plan
      /\ left' = (left \/ \E i \in 1 .. Len(calls) : calls[i].op = "printf")
  BY DEF Jump, Running
<1>2. /\ w \in World /\ Good(w, plan.disk) /\ Held(w) /\ Apart(io, w)
      /\ Len(w.files) <= Len(io.files)
  BY UnwoundGood DEF Undone
<1> HIDE DEF w
<1>3. Sound(w)
  BY <1>2, ApartSound DEF Apart
<1>4. left' \in BOOLEAN
  BY <1>1, RunningParts
<1>5. CutBy(<<>>, w.nul, left')
  BY <1>1, <1>2, RunningParts DEF CutBy, Apart
<1>6. Begun(<<>>, 0, pf, left')
  <2>1. \A j \in Outer(calls, 0) : j \in 1 .. Len(calls)
    BY DEF Outer
  <2>2. QED
    BY <1>1, <2>1, RunningParts DEF Begun
<1>7. Bounded(w)
  <2>1. Len(w.files) \in Nat /\ Len(io.files) \in Nat /\ plan.files \in Nat
    BY <1>2, RunningParts, WorldParts, Shapes
  <2>2. Len(io.files) <= plan.files /\ Len(io.shown) + Len(io.out) <= plan.out + 1
    BY RunningParts DEF Bounded
  <2>3. Len(w.files) <= plan.files
    BY <1>2, <2>1, <2>2
  <2>4. w.shown = io.shown /\ w.out = io.out
    BY <1>2 DEF Apart
  <2>5. QED
    BY <2>2, <2>3, <2>4 DEF Bounded
<1>8. TransputInv'
  <2>1. <<>> \in Seq(Frame) /\ Len(<<>>) = 0 /\ 1 .. 0 = {}
    OBVIOUS
  <2>2. (InCalls(calls, io, left) /\ Seen(calls, io))'
    BY <1>1, <2>1 DEF InCalls, Seen
  <2>3. (CutBy(calls, io.nul, left) /\ Begun(calls, 0, pf, left))'
    BY <1>1, <1>5, <1>6
  <2>4. (Bounded(io))'
    BY <1>1, <1>7 DEF Bounded
  <2>5. /\ plan' \in Scenarios /\ left' \in BOOLEAN /\ calls' \in Seq(Frame) /\ io' \in World
        /\ Table(io') /\ Held(io') /\ ~io'.old /\ Saved(io', plan'.disk) /\ Ordered(io')
        /\ Len(io'.said) <= plan'.out /\ pf' \in PfState /\ (pf'.active => "printf" \in plan'.uses)
    BY <1>1, <1>3, <1>4, <2>1, RunningParts DEF Sound, Good
  <2>6. QED
    BY <1>1, <2>2, <2>3, <2>4, <2>5 DEF TransputInv
<1>9. Prompted /\ Keeps
  BY <1>1, <1>2 DEF Prompted, Keeps, Apart
<1>10. QED
  BY <1>8, <1>9 DEF Stepped

-----------------------------------------------------------------------------
(* The end of the program. *)

(* The last of the output is shown, and all that was said with it. *)
LEMMA FinalParts ==
  ASSUME Running
  PROVE  LET v == flush_final(io)
         IN /\ v \in World /\ Good(v, plan.disk) /\ Held(v) /\ Bounded(v) /\ ~v.old
            /\ v.nul = io.nul /\ v.said = io.said /\ v.stdin = io.stdin /\ IsPrefix(v.said, v.shown)
<1> DEFINE v == flush_final(io)
<1>1. /\ io \in World /\ Good(io, plan.disk) /\ Held(io) /\ Bounded(io) /\ ~io.old /\ Ordered(io)
      /\ Len(io.said) <= plan.out /\ plan.out \in Nat
  BY RunningParts, Shapes
<1>2. v \in World /\ Shows(io, v)
  BY <1>1, FlushFinal
<1> HIDE DEF v
<1>3. SameTable(io, v) /\ v.nul = io.nul /\ v.said = io.said /\ v.stdin = io.stdin /\ v.out = <<>>
      /\ v.files = io.files /\ ~v.old
  BY <1>1, <1>2 DEF Shows, SameTable
<1>4. Good(v, plan.disk) /\ Held(v)
  BY <1>1, <1>2, <1>3, SameGood, AlikeHeld
<1>5. PICK t \in Text : Len(t) <= 1 /\ v.shown = (io.shown \o io.out) \o t
  BY <1>2 DEF Shows
<1>6. io.said \in Text /\ v.shown = io.said \o t /\ v.shown \in Text
  BY <1>1, <1>2, <1>5, WorldParts DEF Ordered
<1>7. Len(io.said \o t) = Len(io.said) + Len(t) /\ Len(io.said) \in Nat /\ Len(t) \in Nat
  BY <1>6, Joined
<1>8. Len(io.said) <= Len(v.shown)
  BY <1>6, <1>7
<1>9. \A i \in 1 .. Len(io.said) : io.said[i] = v.shown[i]
  BY <1>6, JoinedAt
<1>10. IsPrefix(v.said, v.shown)
  BY <1>3, <1>6, <1>8, <1>9, Prefix
<1>11. Bounded(v)
  <2> DEFINE a == Len(io.said)
             b == Len(t)
             c == Len(v.shown)
             k == plan.out
  <2>1. a \in Nat /\ b \in Nat /\ b <= 1 /\ c = a + b /\ a <= k /\ k \in Nat /\ Len(v.out) = 0
    BY <1>1, <1>3, <1>5, <1>6, <1>7
  <2> HIDE DEF a, b, c, k
  <2>2. c + 0 <= k + 1
    BY <2>1
  <2>3. Len(v.shown) + Len(v.out) <= plan.out + 1
    BY <2>1, <2>2 DEF c, k
  <2>4. Len(v.files) <= plan.files
    BY <1>1, <1>3 DEF Bounded
  <2>5. QED
    BY <2>3, <2>4 DEF Bounded
<1>12. QED
  BY <1>2, <1>3, <1>4, <1>10, <1>11 DEF v

(* A program that has ended is in order. *)
LEMMA EndsStep ==
  ASSUME Running, NEW v, NEW s, v \in World, Good(v, plan.disk), Held(v), Bounded(v), ~v.old,
         v.nul = io.nul, v.stdin = io.stdin, IsPrefix(v.said, v.shown), s \in {"finished", "stopped"},
         s = "finished" =>
           \A n \in Names :
             /\ \A f \in 1 .. Len(v.files) : v.puts[n] = {f} => v.disk[n] = v.files[f].buf
             /\ v.puts[n] = {} => v.disk[n] \in {plan.disk[n], Nobody},
         Ends(v, s)
  PROVE  Stepped
<1>1. /\ io' = v /\ status' = s /\ calls' = calls /\ pf' = pf /\ plan' = plan /\ left' = left
  BY DEF Ends
<1>2. TransputInv'
  <2>1. (Bounded(io))'
    BY <1>1 DEF Bounded
  <2>2. (CutBy(calls, io.nul, left))'
    BY <1>1, RunningParts
  <2>3. /\ plan' \in Scenarios /\ left' \in BOOLEAN /\ calls' \in Seq(Frame) /\ io' \in World
        /\ Table(io') /\ Held(io') /\ ~io'.old /\ pf' \in PfState
        /\ (pf'.active => "printf" \in plan'.uses) /\ IsPrefix(io'.said, io'.shown)
        /\ status' \in {"finished", "stopped"}
    BY <1>1, RunningParts DEF Good
  <2>4. status' = "finished" =>
          \A n \in Names :
            /\ \A f \in 1 .. Len(io'.files) : io'.puts[n] = {f} => io'.disk[n] = io'.files[f].buf
            /\ io'.puts[n] = {} => io'.disk[n] \in {plan'.disk[n], Nobody}
    BY <1>1
  <2>5. QED
    BY <2>1, <2>2, <2>3, <2>4 DEF TransputInv
<1>3. Prompted /\ Keeps
  BY <1>1 DEF Prompted, Keeps
<1>4. QED
  BY <1>2, <1>3 DEF Stepped

(* stop *)
LEMMA StopStep ==
  ASSUME Running, Stop
  PROVE  Stepped
<1> DEFINE v == flush_final(io)
<1>1. Ends(v, "stopped")
  BY DEF Stop
<1>2. /\ v \in World /\ Good(v, plan.disk) /\ Held(v) /\ Bounded(v) /\ ~v.old
      /\ v.nul = io.nul /\ v.stdin = io.stdin /\ IsPrefix(v.said, v.shown)
  BY FinalParts
<1> HIDE DEF v
<1>3. QED
  BY <1>1, <1>2, EndsStep

(* the end of the main program: every file is saved *)
LEMMA FinishStep ==
  ASSUME Running, Finish
  PROVE  Stepped
<1> DEFINE u == flush_final(io)
           v == write_back(u)
<1>1. Ends(v, "finished")
  BY DEF Finish
<1>2. /\ u \in World /\ Good(u, plan.disk) /\ Held(u) /\ Bounded(u) /\ ~u.old
      /\ u.nul = io.nul /\ u.stdin = io.stdin /\ IsPrefix(u.said, u.shown)
  BY FinalParts
<1> HIDE DEF u
<1>3. /\ v \in World /\ Good(v, plan.disk) /\ Alike(u, v) /\ Apart(u, v) /\ v.puts = u.puts
      /\ \A f \in 1 .. Len(u.files) : v.files[f].ondisk => ~Waits(v.files[f])
  BY <1>2, WriteBack
<1> HIDE DEF v
<1>4. Held(v)
  BY <1>2, <1>3, AlikeHeld
<1>5. Bounded(v) /\ ~v.old /\ v.nul = io.nul /\ v.stdin = io.stdin /\ IsPrefix(v.said, v.shown)
      /\ Len(v.files) = Len(u.files)
  BY <1>2, <1>3 DEF Bounded, Apart, Alike
<1>6. ASSUME NEW n \in Names
      PROVE  /\ \A f \in 1 .. Len(v.files) : v.puts[n] = {f} => v.disk[n] = v.files[f].buf
             /\ v.puts[n] = {} => v.disk[n] \in {plan.disk[n], Nobody}
  <2>1. Saving(v, n, plan.disk)
    BY <1>3 DEF Good, Saved
  <2>2. ASSUME NEW f \in 1 .. Len(v.files), v.puts[n] = {f} PROVE v.disk[n] = v.files[f].buf
    <3>1. f # 0 /\ 0 \notin v.puts[n] /\ f \in v.puts[n] \ {0}
      BY <1>3, <2>2, WorldParts
    <3>2. v.files[f].ondisk
      BY <2>1, <3>1 DEF Saving, Wrote
    <3>3. ~Waits(v.files[f])
      BY <1>3, <1>5, <2>2, <3>2
    <3>4. QED
      BY <2>1, <2>2, <3>1, <3>3 DEF Saving
  <2>3. QED
    BY <2>1, <2>2 DEF Saving
<1>7. QED
  BY <1>1, <1>3, <1>4, <1>5, <1>6, EndsStep

(* a false event routine and a run-time error *)
LEMMA ErrorStep ==
  ASSUME Running, EventFalse \/ RuntimeError
  PROVE  Stepped
<1>1. Dies(io)
  BY DEF EventFalse, RuntimeError
<1>2. QED
  BY <1>1, Same, DiesStep, ReadingSelf

-----------------------------------------------------------------------------
(* The invariant. *)

(* It holds when the program begins. *)
LEMMA InitInv ==
  ASSUME Init
  PROVE  TransputInv
<1>1. /\ plan \in Scenarios /\ calls = <<>> /\ status = "running" /\ left = FALSE
      /\ pf = [active |-> FALSE, start |-> 0, item |-> 0]
  BY DEF Init
<1>2. /\ plan.disk \in [Names -> Seq(Char) \cup {Nobody}] /\ plan.stdin \in Seq(Seq(Char))
      /\ plan.files \in Nat /\ plan.files >= 4 /\ plan.out \in Nat
  BY <1>1, Shapes
<1>3. /\ io.files = [f \in 1 .. 4 |-> file_default] /\ io.handle = [h \in Handles |-> 0]
      /\ io.opened = [h \in Handles |-> Nobody] /\ io.disk = plan.disk
      /\ io.strs = [v \in Vars |-> <<>>] /\ io.puts = [n \in Names |-> {}] /\ io.out = <<>>
      /\ io.shown = <<>> /\ io.said = <<>> /\ io.stdin = plan.stdin /\ io.nul = FALSE /\ io.old = FALSE
  BY DEF Init
<1>4. /\ file_default \in File /\ Entry(file_default) /\ ~file_default.temp /\ ~file_default.ondisk
      /\ file_default.assoc = Nobody
  BY DEF file_default, File, Text, Entry
<1>5. io.files \in Seq(File) /\ Len(io.files) = 4 /\ \A f \in 1 .. 4 : io.files[f] = file_default
  BY <1>3, <1>4
<1>6. <<>> \in Text /\ Len(<<>>) = 0
  BY DEF Text
<1>7. io \in World
  <2>1. /\ io.handle \in [Handles -> Nat] /\ io.opened \in [Handles -> Denoted \cup {Nobody}]
        /\ io.disk \in [Names -> Text \cup {Nobody}] /\ io.strs \in [Vars -> Text]
        /\ io.puts \in [Names -> SUBSET Nat] /\ io.stdin \in Seq(Text)
    BY <1>2, <1>3, <1>6 DEF Text
  <2>2. io = [files |-> io.files, handle |-> io.handle, opened |-> io.opened, disk |-> io.disk,
              strs |-> io.strs, puts |-> io.puts, out |-> io.out, shown |-> io.shown,
              said |-> io.said, stdin |-> io.stdin, nul |-> io.nul, old |-> io.old]
    BY DEF Init
  <2>3. QED
    BY <1>3, <1>5, <1>6, <2>1, <2>2 DEF World
<1>8. Table(io)
  BY <1>4, <1>5 DEF Table, StandIn
<1>9. Held(io)
  BY <1>3 DEF Held
<1>10. Saved(io, plan.disk)
  BY <1>3, <1>4, <1>5 DEF Saved, Saving
<1>11. Ordered(io)
  <2>1. <<>> \o <<>> = <<>>
    BY <1>6, Joined
  <2>2. QED
    BY <1>3, <2>1 DEF Ordered
<1>12. Bounded(io)
  BY <1>2, <1>3, <1>5, <1>6 DEF Bounded
<1>13. InCalls(calls, io, left) /\ Seen(calls, io)
  BY <1>1, <1>6 DEF InCalls, Seen
<1>14. CutBy(calls, io.nul, left) /\ Begun(calls, 0, pf, left)
  BY <1>1, <1>3 DEF CutBy, Begun
<1>15. pf \in PfState /\ ~pf.active /\ calls \in Seq(Frame) /\ left \in BOOLEAN
  <2>1. pf \in PfState
    BY <1>1 DEF PfState
  <2>2. ~pf.active
    BY <1>1
  <2>3. calls \in Seq(Frame) /\ left \in BOOLEAN
    <3>1. calls = <<>> /\ left = FALSE
      BY <1>1
    <3>2. <<>> \in Seq(Frame)
      OBVIOUS
    <3>3. calls \in Seq(Frame)
      BY <3>1, <3>2
    <3>4. left \in BOOLEAN
      BY <3>1
    <3>5. QED
      BY <3>3, <3>4
  <2>4. QED
    BY <2>1, <2>2, <2>3
<1>16. Len(io.said) <= plan.out /\ ~io.old
  BY <1>2, <1>3, <1>6
<1>17. QED
  BY <1>1, <1>7, <1>8, <1>9, <1>10, <1>11, <1>12, <1>13, <1>14, <1>15, <1>16 DEF TransputInv

(* The operations on files. *)
LEMMA FileActionsStep ==
  ASSUME Running, FileActions
  PROVE  Stepped
<1>1. CASE \E fv \in Handles \cup FileValues :
             (\E n \in Names : Open(fv, n) \/ Establish(fv, n)) \/ Create(fv) \/ \E v \in Vars : Associate(fv, v)
  BY <1>1, OpenStep
<1>2. CASE \E f \in FileIds : Close(f) \/ Scratch(f) \/ Reset(f) \/ \E k \in {-1, 1} : Set(f, k)
  BY <1>2, CloseStep, ScratchStep, ResetStep, SetStep
<1>3. CASE \E f \in FileIds : (\E e \in {"end", "value", "line"} : On(f, e)) \/ MakeTerm(f, {"x"})
  BY <1>3, OnStep, TermStep
<1>4. QED
  BY <1>1, <1>2, <1>3 DEF FileActions

(* The calls that read and write. *)
LEMMA CallActionsStep ==
  ASSUME Running, CallActions
  PROVE  Stepped
<1>1. CASE \E v \in Vars : (\E s \in plan.texts : Assign(v, s)) \/ GetString(v) \/ PutString(v)
  BY <1>1, AssignStep, GetStringStep, PutStringStep
<1>2. CASE \E f \in FileIds :
             (\E items \in plan.items : Put(f, items)) \/ NewLine(f) \/ Eof(f) \/ Eoln(f) \/ Get(f) \/ Printf(f)
  BY <1>2, PutStep, NewLineStep, EofStep, GetStep, PrintfStep
<1>3. CASE GetItem \/ GetEnd
  BY <1>3, GetItemStep, GetEndStep
<1>4. CASE PrintfItem \/ PrintfItemEnd \/ PrintfEnd \/ Hole \/ HoleEnd
  BY <1>4, PrintfItemStep, PrintfItemEndStep, PrintfEndStep, HoleStep, HoleEndStep
<1>5. CASE \E s \in plan.pieces, i \in BOOLEAN : PrintfText(s, i)
  BY <1>5, PrintfTextStep
<1>6. QED
  BY <1>1, <1>2, <1>3, <1>4, <1>5 DEF CallActions

(* Only the running program makes a step. *)
LEMMA NextRuns ==
  ASSUME Next
  PROVE  status = "running"
<1>1. CASE FileActions
  BY <1>1, ZenonT(30) DEF FileActions, Open, Establish, Create, Associate, Close, Scratch, Reset, Set, On,
              MakeTerm, Uses, Runs
<1>2. CASE CallActions
  BY <1>2 DEF CallActions, Assign, GetString, PutString, Put, NewLine, Eof, Eoln, Get, Printf,
              GetItem, GetEnd, PrintfItem, PrintfItemEnd, PrintfEnd, Hole, HoleEnd, PrintfText,
              Uses, Runs, Inside
<1>3. CASE EventTrue \/ EventFalse \/ Jump \/ RuntimeError \/ Stop \/ Finish
  BY <1>3 DEF EventTrue, EventFalse, Jump, RuntimeError, Stop, Finish, Uses, Runs, Inside
<1>4. QED
  BY <1>1, <1>2, <1>3 DEF Next

(* Every step keeps it, and does what the properties say of a step. *)
LEMMA NextStep ==
  ASSUME TransputInv, Next
  PROVE  Stepped
<1>1. Running
  BY NextRuns DEF Running
<1>2. QED
  BY <1>1, FileActionsStep, CallActionsStep, EventTrueStep, ErrorStep, JumpStep, StopStep, FinishStep
     DEF Next

(* Nothing changes in a step of somebody else. *)
LEMMA StutterStep ==
  ASSUME TransputInv, UNCHANGED vars
  PROVE  TransputInv'
<1>1. io' = io /\ calls' = calls /\ pf' = pf /\ status' = status /\ plan' = plan /\ left' = left
  BY DEF vars
<1>2. (Bounded(io))'
  BY <1>1 DEF TransputInv, Bounded
<1>3. (CutBy(calls, io.nul, left))'
  BY <1>1 DEF TransputInv
<1>4. status = "running" => (InCalls(calls, io, left))'
  BY <1>1, CallsNext DEF TransputInv
<1>5. status = "running" =>
        (Saved(io, plan.disk) /\ Ordered(io) /\ Len(io.said) <= plan.out /\ Seen(calls, io)
         /\ Begun(calls, 0, pf, left))'
  BY <1>1 DEF TransputInv
<1>6. (/\ plan \in Scenarios /\ left \in BOOLEAN /\ pf \in PfState /\ calls \in Seq(Frame)
       /\ status \in {"running", "finished", "stopped", "died"}
       /\ io \in World /\ Table(io) /\ Held(io) /\ ~io.old
       /\ (pf.active => "printf" \in plan.uses))'
  BY <1>1 DEF TransputInv
<1>7. (/\ status \in {"finished", "stopped"} => IsPrefix(io.said, io.shown)
       /\ status = "finished" =>
            \A n \in Names :
              /\ \A f \in 1 .. Len(io.files) : io.puts[n] = {f} => io.disk[n] = io.files[f].buf
              /\ io.puts[n] = {} => io.disk[n] \in {plan.disk[n], Nobody})'
  BY <1>1 DEF TransputInv
<1>8. QED
  BY <1>1, <1>2, <1>3, <1>4, <1>5, <1>6, <1>7 DEF TransputInv

-----------------------------------------------------------------------------
(* What holds in every program. *)

(* The inductive invariant: files, calls in progress, the texts that wait to be saved and
   standard output are in order after every step of the program. *)
THEOREM TransputInvariantHolds == Spec => []TransputInv
<1>1. Init => TransputInv
  BY InitInv
<1>2. TransputInv /\ [Next]_vars => TransputInv'
  BY NextStep, StutterStep DEF Stepped
<1>3. QED
  BY <1>1, <1>2, PTL DEF Spec

(* Every file, call and text is one the program can have, with text to save only in a loaded
   buffer, and output stays within its bound, the end of a line that a run-time error adds
   included. *)
THEOREM TypesHold == Spec => []TypeOK
<1>1. ASSUME TransputInv PROVE TypeOK
  <2>1. /\ io \in World /\ Table(io) /\ Held(io) /\ Bounded(io) /\ plan \in Scenarios
        /\ status \in {"running", "finished", "stopped", "died"}
        /\ pf.active => "printf" \in plan.uses
    BY <1>1 DEF TransputInv
  <2>2. /\ \A f \in 1 .. Len(io.files) : io.files[f] \in File /\ Entry(io.files[f])
        /\ Len(io.files) \in Nat /\ io.handle \in [Handles -> Nat]
        /\ io.disk \in [Names -> Text \cup {Nobody}] /\ io.out \in Text /\ io.shown \in Text
        /\ plan.files \in Nat /\ plan.out \in Nat
    BY <2>1, WorldParts, Shapes DEF Table
  <2>3. ASSUME NEW f \in 1 .. Len(io.files)
        PROVE  LET e == io.files[f]
               IN e.name \in Names \cup {Nobody} /\ e.assoc \in Vars \cup {Nobody} /\ e.pos \in Nat
                  /\ (e.ondisk => e.name \in Names) /\ (e.dirty => e.loaded)
    BY <2>2, FileParts DEF Entry
  <2>4. ASSUME NEW h \in Handles PROVE io.handle[h] \in 0 .. plan.files
    <3>1. io.handle[h] \in Nat /\ Len(io.files) <= plan.files
      BY <2>1, <2>2 DEF Bounded
    <3>2. io.handle[h] # 0 => io.handle[h] \in 5 .. Len(io.files)
      BY <2>1 DEF Held
    <3>3. QED
      BY <2>2, <3>1, <3>2
  <2>5. \A n \in Names : io.disk[n] = Nobody \/ io.disk[n] \in Seq(Char)
    BY <2>2 DEF Text
  <2>6. ASSUME NEW s \in Text, Len(s) <= plan.out + 1 PROVE s \in Texts(plan.out + 1)
    <3>1. Len(s) \in 0 .. plan.out + 1
      BY <2>2, <2>6, Joined
    <3>2. s \in [1 .. Len(s) -> Char]
      BY DEF Text
    <3>3. QED
      BY <3>1, <3>2 DEF Texts
  <2>7. Len(io.out) <= plan.out + 1 /\ Len(io.shown) <= plan.out + 1
    <3> DEFINE a == Len(io.shown)
               b == Len(io.out)
               k == plan.out
    <3>1. a \in Nat /\ b \in Nat /\ k \in Nat /\ a + b <= k + 1
      BY <2>1, <2>2, Joined DEF Bounded
    <3> HIDE DEF a, b, k
    <3>2. a <= k + 1 /\ b <= k + 1
      BY <3>1
    <3>3. QED
      BY <3>2 DEF a, b, k
  <2>8. io.out \in Texts(plan.out + 1) /\ io.shown \in Texts(plan.out + 1)
    BY <2>2, <2>6, <2>7
  <2>9. QED
    BY <2>1, <2>3, <2>4, <2>5, <2>8 DEF TypeOK
<1>2. QED
  BY <1>1, TransputInvariantHolds, PTL

(* A FILE variable denotes what it was last opened as: neither the end of a string file nor a
   jump out of one takes its entry away. *)
THEOREM HandlesKept == Spec => []HandlesStable
<1>1. ASSUME TransputInv PROVE HandlesStable
  <2>1. Held(io)
    BY <1>1 DEF TransputInv
  <2>2. QED
    BY <2>1 DEF Held, HandlesStable
<1>2. QED
  BY <1>1, TransputInvariantHolds, PTL

(* All that was given to standard output is in the buffer or out, once and in order, and is out
   when the program has finished or stopped. *)
THEOREM OutputKept == Spec => []OutputInOrder
<1>1. TransputInv => OutputInOrder
  BY DEF TransputInv, Ordered, OutputInOrder
<1>2. QED
  BY <1>1, TransputInvariantHolds, PTL

(* A NUL cuts standard output no longer than the call that wrote it, in behaviours in which no
   formatted call was left by a jump: with left set nothing is claimed. *)
THEOREM CutsEnd == Spec => []NulCutEnds
<1>1. ASSUME TransputInv PROVE NulCutEnds
  <2>1. CutBy(calls, io.nul, left)
    BY <1>1 DEF TransputInv
  <2>2. calls = <<>> => 1 .. Len(calls) = {}
    OBVIOUS
  <2>3. QED
    BY <2>1, <2>2 DEF CutBy, NulCutEnds
<1>2. QED
  BY <1>1, TransputInvariantHolds, PTL

(* A character read from an associated string was in it at that place at some time since the
   call of get began. *)
THEOREM StringsFresh == Spec => []NeverOlderThanCall
<1>1. TransputInv => NeverOlderThanCall
  BY DEF TransputInv, NeverOlderThanCall
<1>2. QED
  BY <1>1, TransputInvariantHolds, PTL

(* What the program wrote to a file through one opening is on the disk when it has finished; a
   file that nobody wrote is as it was, or scratched. *)
THEOREM WritersSaved == Spec => []SoleWriterSaved
<1>1. TransputInv => SoleWriterSaved
  BY DEF TransputInv, SoleWriterSaved
<1>2. QED
  BY <1>1, TransputInvariantHolds, PTL

(* A line of standard input is taken only when everything said before is out. *)
THEOREM PromptsPrecede == Spec => PromptFirst
<1>1. ASSUME TransputInv, [Next]_vars PROVE [io'.stdin # io.stdin => io'.shown = io.said]_vars
  <2>1. CASE Next
    BY <1>1, <2>1, NextStep DEF Stepped, Prompted
  <2>2. CASE UNCHANGED vars
    BY <2>2
  <2>3. QED
    BY <1>1, <2>1, <2>2
<1>2. QED
  BY <1>1, TransputInvariantHolds, PTL DEF Spec, PromptFirst

(* A run-time error takes back nothing that was said before the formatted calls in progress, in
   behaviours in which no formatted call was left by a jump: with left set nothing is claimed. *)
THEOREM DeathKeeps == Spec => KeptAtDeath
<1>1. ASSUME TransputInv, [Next]_vars PROVE [status' = "died" /\ ~left => Kept]_vars
  <2>1. CASE Next
    BY <1>1, <2>1, NextStep DEF Stepped, Keeps
  <2>2. CASE UNCHANGED vars
    BY <2>2
  <2>3. QED
    BY <1>1, <2>1, <2>2
<1>2. QED
  BY <1>1, TransputInvariantHolds, PTL DEF Spec, KeptAtDeath

=============================================================================
