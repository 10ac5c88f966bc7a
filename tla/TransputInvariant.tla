-------------------------- MODULE TransputInvariant --------------------------
(****************************************************************************)
(* The inductive invariant of Transput, and what each operation on files    *)
(* keeps of it.                                                             *)
(****************************************************************************)
EXTENDS Transput, Induction, SequenceTheorems

-----------------------------------------------------------------------------
(* The inductive invariant.  The parts about files are stated of a world w, the record io,
   so that what a step computes is led through them operation by operation. *)

Text == Seq(Char)
File ==
  [name : Names \cup {Nobody}, assoc : Vars \cup {Nobody}, buf : Text, pos : Nat,
   term : SUBSET Char, chan : {3, 4}, loaded : BOOLEAN, ondisk : BOOLEAN, reading : BOOLEAN,
   writing : BOOLEAN, dirty : BOOLEAN, eof : BOOLEAN, on_end : BOOLEAN, on_value : BOOLEAN,
   on_line : BOOLEAN, temp : BOOLEAN]
Denoted == (Names \cup {Nobody}) \X (Vars \cup {Nobody})
World ==
  [files : Seq(File), handle : [Handles -> Nat], opened : [Handles -> Denoted \cup {Nobody}],
   disk : [Names -> Text \cup {Nobody}], strs : [Vars -> Text], puts : [Names -> SUBSET Nat],
   out : Text, shown : Text, said : Text, stdin : Seq(Text), nul : BOOLEAN, old : BOOLEAN]

(* string files are on no disk and raise no events; text to save is in a buffer that is not
   taken from a string *)
Entry(e) ==
  /\ e.ondisk => e.name \in Names /\ e.assoc = Nobody /\ ~e.temp
  /\ e.dirty => e.loaded /\ e.assoc = Nobody
  /\ e.temp => ~e.on_end /\ ~e.on_value /\ ~e.on_line
Table(w) ==
  /\ Len(w.files) >= 4
  /\ \A f \in 1 .. Len(w.files) : Entry(w.files[f])
  /\ \A f \in 1 .. 4 : ~w.files[f].temp
  /\ ~w.files[StandIn].ondisk /\ w.files[StandIn].assoc = Nobody

(* the handles hold entries behind those of the standard files *)
Held(w) ==
  \A h \in Handles : w.handle[h] # 0 =>
    /\ w.handle[h] \in 5 .. Len(w.files)
    /\ Denotes(w.files[w.handle[h]]) = w.opened[h]
    /\ ~w.files[w.handle[h]].temp

(* What is to be saved under a name is in an entry that has written under it; the only one
   that has is there still, and its text is on the disk d became, or waits to be written. *)
Wrote(w, n, f) ==
  \/ f = 0
  \/ /\ f \in 1 .. Len(w.files) /\ ~w.files[f].temp
     /\ 0 \in w.puts[n] \/ (w.files[f].name = n /\ w.files[f].ondisk)
Waits(e) == e.dirty /\ e.writing
Saving(w, n, d) ==
  /\ \A f \in 1 .. Len(w.files) :
       w.files[f].ondisk /\ w.files[f].dirty /\ w.files[f].name = n => f \in w.puts[n]
  /\ \A f \in w.puts[n] : Wrote(w, n, f)
  /\ \A f \in w.puts[n] \ {0} :
       w.puts[n] = {f} => Waits(w.files[f]) \/ w.disk[n] = w.files[f].buf
  /\ w.puts[n] = {} => w.disk[n] \in {d[n], Nobody}
Saved(w, d) == \A n \in Names : Saving(w, n, d)

Good(w, d) == w \in World /\ Table(w) /\ Saved(w, d)

Ordered(w) == w.shown \o w.out = w.said

(* the calls in progress, innermost first *)
PfState == [active : BOOLEAN, start : Nat, item : Nat]
EventFrames  == [op : {"event"}, f : Nat, why : {"set", "eoln", "end", "value", "line"}]
GetFrames    == [op : {"get"}, f : Nat, seen : SUBSET Text]
GetsFrames   == [op : {"gets"}, f : Nat]
PrintfFrames == [op : {"printf"}, f : Nat, start : Nat, said : Nat, item : BOOLEAN, was : PfState]
PutsFrames   == [op : {"puts"}, f : Nat, var : Vars, cut : BOOLEAN]
HoleFrames   == [op : {"hole"}]
Frame ==
  EventFrames \cup GetFrames \cup GetsFrames \cup PrintfFrames \cup PutsFrames \cup HoleFrames

Outer(cs, i) == i + 1 .. Len(cs)

(* a string file is behind all entries that the calls around it use *)
OnTop(cs, i) == \A j \in Outer(cs, i) : cs[j].op # "hole" => cs[j].f < cs[i].f

(* the formatted call that discard_unpurged takes pf's places from is in progress *)
Begun(cs, i, p, l) ==
  p.active => \/ l
              \/ \E j \in Outer(cs, i) : /\ cs[j].op = "printf" /\ cs[j].f = StandOut
                                         /\ cs[j].item /\ cs[j].start = p.start

InCall(cs, i, w, l) ==
  LET c == cs[i]
  IN /\ c.op # "hole" => /\ c.f \in 1 .. Len(w.files)
                         /\ c.f = StandIn => StandIn \in plan.fids
     /\ c.op \in {"gets", "puts"} => w.files[c.f].temp /\ OnTop(cs, i)
     /\ c.op = "event" => /\ ~w.files[c.f].temp
                          /\ c.why \in {"end", "value"} => i < Len(cs) /\ cs[i + 1].op = "get"
     /\ c.op = "puts" /\ c.cut => l \/ \E j \in Outer(cs, i) : cs[j].op = "printf"
     /\ c.op = "printf" => /\ c.was.active => "printf" \in plan.uses
                           /\ c.item => Begun(cs, i, c.was, l)
     /\ c.op = "printf" /\ c.f = StandOut =>
          /\ "printf" \in plan.uses
          /\ c.said <= Len(w.shown) + c.start /\ c.said <= Len(w.said)
InCalls(cs, w, l) == \A i \in 1 .. Len(cs) : InCall(cs, i, w, l)

(* the values the string of a call of get has had since it began, with that in the buffer *)
SeenBy(c, w) ==
  LET a == w.files[c.f].assoc
  IN a \in Vars => /\ w.strs[a] \in c.seen
                   /\ w.files[c.f].loaded => w.files[c.f].buf \in c.seen
Seen(cs, w) == \A i \in 1 .. Len(cs) : cs[i].op = "get" => SeenBy(cs[i], w)

CutBy(cs, nul, l) == nul => l \/ \E j \in 1 .. Len(cs) : cs[j].op = "printf"

Bounded(w) ==
  Len(w.files) <= plan.files /\ Len(w.shown) + Len(w.out) <= plan.out + 1

TransputInv ==
  /\ plan \in Scenarios /\ left \in BOOLEAN /\ pf \in PfState /\ calls \in Seq(Frame)
  /\ status \in {"running", "finished", "stopped", "died"}
  /\ io \in World /\ Table(io) /\ Held(io) /\ Bounded(io) /\ ~io.old
  /\ pf.active => "printf" \in plan.uses
  /\ CutBy(calls, io.nul, left)
  /\ status = "running" =>
       /\ Saved(io, plan.disk) /\ Ordered(io) /\ Len(io.said) <= plan.out
       /\ InCalls(calls, io, left) /\ Seen(calls, io) /\ Begun(calls, 0, pf, left)
  /\ status \in {"finished", "stopped"} => IsPrefix(io.said, io.shown)
  /\ status = "finished" =>
       \A n \in Names :
         /\ \A f \in 1 .. Len(io.files) : io.puts[n] = {f} => io.disk[n] = io.files[f].buf
         /\ io.puts[n] = {} => io.disk[n] \in {plan.disk[n], Nobody}

-----------------------------------------------------------------------------
(* Entries and worlds. *)

(* Texts one after the other. *)
LEMMA Joined ==
  ASSUME NEW a \in Text, NEW b \in Text
  PROVE  /\ a \o b \in Text /\ Len(a \o b) = Len(a) + Len(b) /\ a \o <<>> = a /\ <<>> \o a = a
         /\ Len(a) <= Len(a \o b) /\ Len(a) \in Nat
BY DEF Text
(* Joining is associative. *)
LEMMA Thrice ==
  ASSUME NEW a \in Text, NEW b \in Text, NEW c \in Text
  PROVE  (a \o b) \o c = a \o (b \o c)
<1> DEFINE s == (a \o b) \o c
           t == a \o (b \o c)
<1>1. Len(a) \in Nat /\ Len(b) \in Nat /\ Len(c) \in Nat
  BY DEF Text
<1>2. /\ s \in Seq(Char) /\ t \in Seq(Char)
      /\ Len(s) = Len(a) + Len(b) + Len(c) /\ Len(t) = Len(a) + Len(b) + Len(c)
  BY DEF Text
<1>3. ASSUME NEW i \in 1 .. Len(a) + Len(b) + Len(c) PROVE s[i] = t[i]
  <2>1. CASE i <= Len(a)
    BY <1>1, <2>1 DEF Text
  <2>2. CASE i > Len(a) /\ i <= Len(a) + Len(b)
    BY <1>1, <2>2 DEF Text
  <2>3. CASE i > Len(a) + Len(b)
    BY <1>1, <2>3 DEF Text
  <2>4. QED
    BY <1>1, <2>1, <2>2, <2>3
<1> HIDE DEF s, t
<1>4. s = t
  BY <1>2, <1>3, SeqEqual
<1>5. QED
  BY <1>4 DEF s, t

(* A sequence with one element replaced. *)
LEMMA Swapped ==
  ASSUME NEW S, NEW s \in Seq(S), NEW i \in 1 .. Len(s), NEW x \in S, NEW t, t = [s EXCEPT ![i] = x]
  PROVE  /\ t \in Seq(S) /\ Len(t) = Len(s) /\ t[i] = x
         /\ \A j \in 1 .. Len(s) : j # i => t[j] = s[j]
BY ExceptSeq

(* the fields of a world *)
LEMMA WorldParts ==
  ASSUME NEW w \in World
  PROVE  /\ w.files \in Seq(File) /\ Len(w.files) \in Nat
         /\ \A f \in 1 .. Len(w.files) : w.files[f] \in File
         /\ w.handle \in [Handles -> Nat] /\ w.opened \in [Handles -> Denoted \cup {Nobody}]
         /\ w.disk \in [Names -> Text \cup {Nobody}] /\ w.strs \in [Vars -> Text]
         /\ w.puts \in [Names -> SUBSET Nat] /\ w.out \in Text /\ w.shown \in Text
         /\ w.said \in Text /\ w.stdin \in Seq(Text) /\ w.nul \in BOOLEAN /\ w.old \in BOOLEAN
BY DEF World

(* the fields of an entry *)
LEMMA FileParts ==
  ASSUME NEW e \in File
  PROVE  /\ e.name \in Names \cup {Nobody} /\ e.assoc \in Vars \cup {Nobody} /\ e.buf \in Text
         /\ e.pos \in Nat /\ e.term \in SUBSET Char /\ e.chan \in {3, 4}
         /\ e.loaded \in BOOLEAN /\ e.ondisk \in BOOLEAN /\ e.reading \in BOOLEAN
         /\ e.writing \in BOOLEAN /\ e.dirty \in BOOLEAN /\ e.eof \in BOOLEAN
         /\ e.on_end \in BOOLEAN /\ e.on_value \in BOOLEAN /\ e.on_line \in BOOLEAN
         /\ e.temp \in BOOLEAN
BY DEF File

(* worlds that have all but their files the same *)
Around(w, v) ==
  /\ v.handle = w.handle /\ v.opened = w.opened /\ v.disk = w.disk /\ v.strs = w.strs
  /\ v.puts = w.puts /\ v.out = w.out /\ v.shown = w.shown /\ v.said = w.said
  /\ v.stdin = w.stdin /\ v.nul = w.nul /\ v.old = w.old

(* One entry of the table is replaced. *)
Entered(w, f, e, v) ==
  /\ v.files \in Seq(File) /\ Len(v.files) = Len(w.files) /\ v.files[f] = e
  /\ \A g \in 1 .. Len(w.files) : g # f => v.files[g] = w.files[g]
(* The table with an entry replaced is a table of entries, and nothing else changes. *)
LEMMA EntrySet ==
  ASSUME NEW w \in World, NEW f \in 1 .. Len(w.files), NEW e \in File,
         NEW v, v = [w EXCEPT !.files[f] = e]
  PROVE  v \in World /\ Entered(w, f, e, v) /\ Around(w, v)
<1>1. v.files = [w.files EXCEPT ![f] = e] /\ Around(w, v)
  BY DEF World, Around
<1>2. w.files \in Seq(File)
  BY WorldParts
<1>3. Entered(w, f, e, v)
  BY <1>1, <1>2, Swapped DEF Entered
<1>4. v \in World
  BY <1>3 DEF World, Entered
<1>5. QED
  BY <1>1, <1>3, <1>4

(* the same file: what it denotes, and whether it is a string file *)
Like(d, e) == e.name = d.name /\ e.assoc = d.assoc /\ e.temp = d.temp
Alike(w, v) ==
  /\ Len(v.files) = Len(w.files) /\ \A g \in 1 .. Len(w.files) : Like(w.files[g], v.files[g])
  /\ v.handle = w.handle /\ v.opened = w.opened

(* e is d after something that saves nothing and gives nothing to save *)
Tended(d, e) ==
  /\ Like(d, e) /\ e.ondisk = d.ondisk
  /\ e.ondisk => e.buf = d.buf /\ e.writing = d.writing /\ e.dirty = d.dirty
  /\ e.dirty => e.loaded /\ e.assoc = Nobody
  /\ e.temp => ~e.on_end /\ ~e.on_value /\ ~e.on_line

(* What handles hold is not changed by operations on the files. *)
LEMMA AlikeHeld ==
  ASSUME NEW w \in World, NEW v \in World, Alike(w, v), Held(w)
  PROVE  Held(v)
<1>1. ASSUME NEW h \in Handles, v.handle[h] # 0
      PROVE  /\ v.handle[h] \in 5 .. Len(v.files) /\ ~v.files[v.handle[h]].temp
             /\ Denotes(v.files[v.handle[h]]) = v.opened[h]
  <2>1. PICK g : g = w.handle[h]
    OBVIOUS
  <2>2. v.handle[h] = g /\ v.opened[h] = w.opened[h] /\ Len(v.files) = Len(w.files)
    BY <2>1 DEF Alike
  <2>3. g \in 5 .. Len(w.files) /\ ~w.files[g].temp /\ Denotes(w.files[g]) = w.opened[h]
    BY <1>1, <2>1, <2>2 DEF Held
  <2>4. g \in 1 .. Len(w.files)
    BY <2>3, WorldParts
  <2>5. Like(w.files[g], v.files[g])
    BY <2>4 DEF Alike
  <2>6. QED
    BY <2>2, <2>3, <2>5 DEF Like, Denotes
<1>2. QED
  BY <1>1 DEF Held

(* Likeness is transitive. *)
LEMMA AlikeTrans ==
  ASSUME NEW w, NEW v, NEW u, Alike(w, v), Alike(v, u)
  PROVE  Alike(w, u)
<1>1. Len(u.files) = Len(w.files) /\ u.handle = w.handle /\ u.opened = w.opened
  BY DEF Alike
<1>2. ASSUME NEW g \in 1 .. Len(w.files) PROVE Like(w.files[g], u.files[g])
  <2>1. Like(w.files[g], v.files[g]) /\ Like(v.files[g], u.files[g])
    BY DEF Alike
  <2>2. QED
    BY <2>1 DEF Like
<1>3. QED
  BY <1>1, <1>2 DEF Alike

(* Nothing is lost with an entry tended to. *)
LEMMA TendedGood ==
  ASSUME NEW d, NEW w \in World, Good(w, d), NEW f \in 1 .. Len(w.files), NEW e \in File,
         Tended(w.files[f], e), NEW v \in World, Entered(w, f, e, v), Around(w, v)
  PROVE  Good(v, d) /\ Alike(w, v)
<1>1. Alike(w, v)
  BY DEF Alike, Like, Tended, Entered, Around
<1>2. Table(v)
  <2>1. Entry(e)
    BY DEF Good, Table, Entry, Tended, Like
  <2>2. \A g \in 1 .. Len(v.files) : Entry(v.files[g])
    BY <2>1 DEF Entered, Good, Table
  <2>3. Len(w.files) >= 4 /\ Len(w.files) \in Nat
    BY WorldParts DEF Good, Table
  <2>4. \A g \in 1 .. Len(w.files) :
          v.files[g].ondisk = w.files[g].ondisk /\ Like(w.files[g], v.files[g])
    BY <1>1 DEF Entered, Tended, Alike
  <2>5. Len(v.files) = Len(w.files) /\ Table(w)
    BY DEF Entered, Good
  <2>6. \A g \in 1 .. 4 : g \in 1 .. Len(w.files)
    BY <2>3
  <2>7. \A g \in 1 .. 4 : ~v.files[g].temp
    BY <2>4, <2>5, <2>6 DEF Table, Like
  <2>8. ~v.files[StandIn].ondisk /\ v.files[StandIn].assoc = Nobody
    <3>1. StandIn \in 1 .. Len(w.files)
      BY <2>6 DEF StandIn
    <3>2. QED
      BY <2>4, <2>5, <3>1 DEF Table, Like
  <2>9. QED
    BY <2>2, <2>3, <2>5, <2>7, <2>8 DEF Table
<1>3. ASSUME NEW n \in Names PROVE Saving(v, n, d)
  <2>1. \A g \in 1 .. Len(w.files) :
          /\ v.files[g].ondisk = w.files[g].ondisk
          /\ v.files[g].name = w.files[g].name /\ v.files[g].temp = w.files[g].temp
          /\ v.files[g].ondisk => /\ v.files[g].buf = w.files[g].buf
                                  /\ v.files[g].writing = w.files[g].writing
                                  /\ v.files[g].dirty = w.files[g].dirty
    BY DEF Entered, Tended, Like
  <2>2. Saving(w, n, d) /\ w.puts[n] \subseteq Nat
    BY <1>3, WorldParts DEF Good, Saved
  <2>3. Len(v.files) = Len(w.files) /\ v.puts = w.puts /\ v.disk = w.disk
    BY DEF Entered, Around
  <2>4. ASSUME NEW g \in w.puts[n] PROVE Wrote(v, n, g)
    <3>1. Wrote(w, n, g)
      BY <2>2 DEF Saving
    <3>2. QED
      BY <2>1, <2>3, <3>1 DEF Wrote
  <2>5. \A g \in w.puts[n] \ {0} : w.puts[n] = {g} => g \in 1 .. Len(w.files) /\ w.files[g].ondisk
    BY <2>2 DEF Saving, Wrote
  <2>6. \A g \in w.puts[n] \ {0} : w.puts[n] = {g} /\ Waits(w.files[g]) => Waits(v.files[g])
    BY <2>1, <2>5 DEF Waits
  <2>7. \A g \in w.puts[n] \ {0} :
          w.puts[n] = {g} => Waits(v.files[g]) \/ w.disk[n] = v.files[g].buf
    BY <2>1, <2>2, <2>5, <2>6 DEF Saving
  <2>8. \A g \in 1 .. Len(w.files) :
          v.files[g].ondisk /\ v.files[g].dirty /\ v.files[g].name = n => g \in w.puts[n]
    BY <2>1, <2>2 DEF Saving
  <2>9. QED
    BY <2>2, <2>3, <2>4, <2>7, <2>8 DEF Saving
<1>4. QED
  BY <1>1, <1>2, <1>3 DEF Good, Saved

(* What an operation on the files may do to the buffers of strings: what is there afterwards
   was there, or is the string, before or after.  Output grows. *)
Works(w, v) ==
  /\ Alike(w, v) /\ v.old = w.old /\ Len(w.shown) <= Len(v.shown) /\ Len(w.said) <= Len(v.said)
  /\ \A g \in 1 .. Len(w.files) : w.files[g].assoc \in Vars /\ v.files[g].loaded =>
       LET a == w.files[g].assoc
       IN \/ w.files[g].loaded /\ v.files[g].buf = w.files[g].buf
          \/ v.files[g].buf \in {w.strs[a], v.strs[a]}

(* the terminal and the strings are as they were *)
Apart(w, v) ==
  /\ v.strs = w.strs /\ v.out = w.out /\ v.shown = w.shown /\ v.said = w.said
  /\ v.stdin = w.stdin /\ v.nul = w.nul /\ v.old = w.old

(* Saving a file: afterwards nothing of it waits. *)
Saves(w, f, v) ==
  /\ Alike(w, v) /\ Apart(w, v) /\ v.puts = w.puts
  /\ \A g \in 1 .. Len(w.files) :
       /\ g # f => v.files[g] = w.files[g]
       /\ v.files[g].buf = w.files[g].buf /\ v.files[g].loaded = w.files[g].loaded
       /\ v.files[g].ondisk = w.files[g].ondisk /\ v.files[g].on_end = w.files[g].on_end
       /\ v.files[g].dirty => w.files[g].dirty
       /\ v.files[g].writing = w.files[g].writing
  /\ v.files[f].ondisk => ~Waits(v.files[f])
(* Saving a file loses nothing. *)
LEMMA FlushGood ==
  ASSUME NEW d, NEW w \in World, Good(w, d), NEW f \in 1 .. Len(w.files)
  PROVE  LET v == file_flush(w, f) IN Good(v, d) /\ v \in World /\ Saves(w, f, v)
<1> DEFINE e == w.files[f]
           v == file_flush(w, f)
<1>1. e \in File /\ Entry(e)
  BY WorldParts DEF Good, Table
<1>2. CASE ~(e.ondisk /\ e.dirty /\ e.writing)
  <2>1. v = w
    BY <1>2 DEF file_flush
  <2>2. Saves(w, f, w)
    BY <1>2 DEF Saves, Alike, Like, Apart, Waits
  <2>3. QED
    BY <2>1, <2>2
<1>3. CASE e.ondisk /\ e.dirty /\ e.writing
  <2> DEFINE e1 == [e EXCEPT !.dirty = FALSE]
             u == [w EXCEPT !.files[f] = e1]
             dk == [w.disk EXCEPT ![e.name] = e.buf]
  <2>1. e1 \in File /\ e.name \in Names /\ e.buf \in Text
    BY <1>1, <1>3 DEF File, Entry
  <2>2. u \in World /\ Entered(w, f, e1, u) /\ Around(w, u)
    BY <2>1, EntrySet
  <2>3. v = [u EXCEPT !.disk = dk]
    BY <1>3 DEF file_flush, World
  <2>4. dk \in [Names -> Text \cup {Nobody}]
    BY <2>1, WorldParts
  <2>5. /\ v \in World /\ v.disk = dk /\ v.files = u.files /\ v.handle = u.handle
        /\ v.opened = u.opened /\ v.strs = u.strs /\ v.puts = u.puts /\ v.out = u.out
        /\ v.shown = u.shown /\ v.said = u.said /\ v.stdin = u.stdin /\ v.nul = u.nul
        /\ v.old = u.old
    <3> HIDE DEF u, dk, v
    <3>1. QED
      BY <2>2, <2>3, <2>4 DEF World
  <2>6. /\ e1.name = e.name /\ e1.assoc = e.assoc /\ e1.temp = e.temp /\ e1.ondisk = e.ondisk
        /\ e1.buf = e.buf /\ e1.loaded = e.loaded /\ ~e1.dirty /\ e1.writing = e.writing
        /\ e1.on_end = e.on_end /\ e1.on_value = e.on_value /\ e1.on_line = e.on_line
    BY <1>1 DEF File
  <2> HIDE DEF u, e1, v
  <2>7. Saves(w, f, v)
    BY <2>2, <2>5, <2>6 DEF Saves, Alike, Like, Apart, Around, Entered, Waits
  <2>8. Table(v)
    <3>1. Entry(e1)
      BY <1>1, <2>6 DEF Entry
    <3>2. \A g \in 1 .. Len(v.files) : Entry(v.files[g])
      BY <2>2, <2>5, <3>1 DEF Entered, Good, Table
    <3>3. Len(w.files) >= 4 /\ Len(w.files) \in Nat
      BY WorldParts DEF Good, Table
    <3>4. QED
      BY <2>7, <3>2, <3>3, SMTT(60) DEF Saves, Alike, Like, Good, Table, StandIn
  <2>9. ASSUME NEW n \in Names PROVE Saving(v, n, d)
    <3>1. /\ Saving(w, n, d) /\ w.puts[n] \subseteq Nat /\ w.disk \in [Names -> Text \cup {Nobody}]
      BY <2>9, WorldParts DEF Good, Saved
    <3>2. v.puts = w.puts /\ Len(v.files) = Len(w.files)
      BY <2>7 DEF Saves, Alike
    <3>3. \A g \in 1 .. Len(w.files) :
            /\ v.files[g].name = w.files[g].name /\ v.files[g].temp = w.files[g].temp
            /\ v.files[g].ondisk = w.files[g].ondisk /\ v.files[g].buf = w.files[g].buf
            /\ v.files[g].dirty => w.files[g].dirty
            /\ g # f => v.files[g] = w.files[g]
      BY <2>7 DEF Saves, Alike, Like
    <3>4. \A g \in w.puts[n] : Wrote(v, n, g)
      BY <3>1, <3>2, <3>3 DEF Saving, Wrote
    <3>5. v.disk[n] = IF n = e.name THEN e.buf ELSE w.disk[n]
      BY <2>1, <2>5, <3>1
    <3>6. f \in w.puts[e.name]
      BY <1>3, <2>1, WorldParts DEF Good, Saved, Saving
    <3>7. \A g \in w.puts[n] \ {0} : w.puts[n] = {g} =>
            g \in 1 .. Len(w.files) /\ w.files[g].name = n
      BY <3>1 DEF Saving, Wrote
    <3>8. ASSUME NEW g \in w.puts[n] \ {0}, w.puts[n] = {g}
          PROVE  Waits(v.files[g]) \/ v.disk[n] = v.files[g].buf
      <4>1. g \in 1 .. Len(w.files) /\ w.files[g].name = n
        BY <3>7, <3>8
      <4>2. CASE n = e.name
        <5>1. g = f
          BY <3>6, <3>8, <4>2
        <5>2. QED
          BY <3>3, <3>5, <4>1, <4>2, <5>1
      <4>3. CASE n # e.name
        <5>1. g # f
          BY <4>1, <4>3
        <5>2. QED
          BY <3>1, <3>3, <3>5, <3>8, <4>1, <4>3, <5>1 DEF Saving
      <4>4. QED
        BY <4>2, <4>3
    <3>9. w.puts[n] = {} => v.disk[n] \in {d[n], Nobody}
      BY <3>1, <3>5, <3>6 DEF Saving
    <3>10. QED
      BY <3>1, <3>2, <3>3, <3>4, <3>8, <3>9 DEF Saving
  <2>10. Good(v, d) /\ v \in World /\ Saves(w, f, v)
    BY <2>5, <2>7, <2>8, <2>9 DEF Good, Saved
  <2>11. QED
    BY <2>10 DEF v
<1>4. QED
  BY <1>2, <1>3

(* A file is scratched. *)
LEMMA ScratchGood ==
  ASSUME NEW d, NEW w \in World, Good(w, d), NEW f \in 1 .. Len(w.files), w.files[f].ondisk
  PROVE  LET v == scratch(w, f) IN Good(v, d) /\ v \in World /\ Works(w, v) /\ Apart(w, v)
<1> DEFINE e == w.files[f]
           e1 == [e EXCEPT !.ondisk = FALSE, !.dirty = FALSE]
           u == [w EXCEPT !.files[f] = e1]
           dk == [w.disk EXCEPT ![e.name] = Nobody]
           ps == [w.puts EXCEPT ![e.name] = IF @ \subseteq {f} THEN {} ELSE @ \cup {0}]
           v == scratch(w, f)
<1>1. e \in File /\ Entry(e) /\ e.name \in Names
  BY WorldParts DEF Good, Table, Entry
<1>2. e1 \in File
  BY <1>1 DEF File
<1>3. u \in World /\ Entered(w, f, e1, u) /\ Around(w, u)
  BY <1>2, EntrySet
<1>4. v = [u EXCEPT !.disk = dk, !.puts = ps]
  BY DEF scratch, World
<1>5. dk \in [Names -> Text \cup {Nobody}] /\ ps \in [Names -> SUBSET Nat]
  BY <1>1, WorldParts
<1>6. /\ v \in World /\ v.disk = dk /\ v.files = u.files /\ v.handle = u.handle
      /\ v.opened = u.opened /\ v.strs = u.strs /\ v.puts = ps /\ v.out = u.out
      /\ v.shown = u.shown /\ v.said = u.said /\ v.stdin = u.stdin /\ v.nul = u.nul
      /\ v.old = u.old
  <2> HIDE DEF u, dk, ps, v
  <2>1. QED
    BY <1>3, <1>4, <1>5 DEF World
<1>7. /\ e1.name = e.name /\ e1.assoc = e.assoc /\ e1.temp = e.temp /\ ~e1.ondisk
      /\ e1.buf = e.buf /\ e1.loaded = e.loaded /\ ~e1.dirty
      /\ e1.on_end = e.on_end /\ e1.on_value = e.on_value /\ e1.on_line = e.on_line
  BY <1>1 DEF File
<1>8. \A n \in Names : /\ v.disk[n] = IF n = e.name THEN Nobody ELSE w.disk[n]
                       /\ v.puts[n] = IF n = e.name
                                      THEN IF w.puts[n] \subseteq {f} THEN {} ELSE w.puts[n] \cup {0}
                                      ELSE w.puts[n]
  <2>1. w.disk \in [Names -> Text \cup {Nobody}] /\ w.puts \in [Names -> SUBSET Nat]
    BY WorldParts
  <2>2. \A n \in Names : dk[n] = IF n = e.name THEN Nobody ELSE w.disk[n]
    BY <2>1
  <2>3. \A n \in Names : ps[n] = IF n = e.name
                                 THEN IF w.puts[n] \subseteq {f} THEN {} ELSE w.puts[n] \cup {0}
                                 ELSE w.puts[n]
    BY <2>1
  <2>4. v.disk = dk /\ v.puts = ps
    BY <1>6
  <2> HIDE DEF v, dk, ps, u
  <2>5. QED
    BY <2>2, <2>3, <2>4
<1> HIDE DEF u, e1, v, dk, ps
<1>9. Works(w, v) /\ Apart(w, v)
  <2>1. Len(w.shown) \in Nat /\ Len(w.said) \in Nat
    BY WorldParts DEF Text
  <2>2. QED
    <3>1. Apart(w, v)
      BY <1>6, <1>3 DEF Apart, Around
    <3>2. Alike(w, v)
      <4>1. Len(v.files) = Len(w.files) /\ \A g \in 1 .. Len(w.files) : g # f => v.files[g] = w.files[g]
        BY <1>3, <1>6 DEF Entered
      <4>2. v.files[f] = e1 /\ Like(w.files[f], e1)
        BY <1>1, <1>3, <1>6, <1>7 DEF Entered, Like
      <4>3. v.handle = w.handle /\ v.opened = w.opened
        BY <1>3, <1>6 DEF Around
      <4>4. QED
        BY <4>1, <4>2, <4>3 DEF Alike, Like
    <3>3. v.old = w.old /\ v.shown = w.shown /\ v.said = w.said
      BY <3>1 DEF Apart
    <3>4. \A g \in 1 .. Len(w.files) : v.files[g].buf = w.files[g].buf /\ v.files[g].loaded = w.files[g].loaded
      BY <1>3, <1>6, <1>7 DEF Entered
    <3>5. QED
      BY <2>1, <3>1, <3>2, <3>3, <3>4 DEF Works
<1>10. Table(v)
  <2>1. Entry(e1)
    BY <1>1, <1>7 DEF Entry
  <2>2. \A g \in 1 .. Len(v.files) : Entry(v.files[g])
    BY <1>3, <1>6, <2>1 DEF Entered, Good, Table
  <2>3. Len(w.files) >= 4 /\ Len(w.files) \in Nat
    BY WorldParts DEF Good, Table
  <2>4. QED
    BY <1>3, <1>6, <1>7, <2>2, <2>3, SMTT(60) DEF Entered, Good, Table, StandIn
<1>11. ASSUME NEW n \in Names PROVE Saving(v, n, d)
  <2>1. Saving(w, n, d) /\ w.puts[n] \subseteq Nat
    BY <1>11, WorldParts DEF Good, Saved
  <2>2. Len(v.files) = Len(w.files)
    BY <1>3, <1>6 DEF Entered
  <2>3. \A g \in 1 .. Len(w.files) :
          /\ v.files[g].name = w.files[g].name /\ v.files[g].temp = w.files[g].temp
          /\ g # f => v.files[g] = w.files[g]
          /\ v.files[g].dirty => g # f
    BY <1>3, <1>6, <1>7 DEF Entered
  <2>4. CASE n = e.name /\ w.puts[n] \subseteq {f}
    <3>1. v.puts[n] = {} /\ v.disk[n] = Nobody
      BY <1>8, <2>4
    <3>2. \A g \in 1 .. Len(w.files) : ~(v.files[g].ondisk /\ v.files[g].dirty /\ v.files[g].name = n)
      BY <2>1, <2>3, <2>4 DEF Saving
    <3>3. QED
      BY <2>2, <3>1, <3>2 DEF Saving
  <2>5. CASE n = e.name /\ ~(w.puts[n] \subseteq {f})
    <3>1. v.puts[n] = w.puts[n] \cup {0}
      BY <1>8, <2>5
    <3>2. \A g \in v.puts[n] \ {0} : v.puts[n] # {g}
      BY <3>1
    <3>3. v.puts[n] # {}
      BY <3>1
    <3>4. \A g \in v.puts[n] : Wrote(v, n, g)
      BY <2>1, <2>2, <2>3, <3>1 DEF Saving, Wrote
    <3>5. \A g \in 1 .. Len(v.files) :
            v.files[g].ondisk /\ v.files[g].dirty /\ v.files[g].name = n => g \in v.puts[n]
      BY <2>1, <2>2, <2>3, <3>1 DEF Saving
    <3>6. QED
      BY <3>2, <3>3, <3>4, <3>5 DEF Saving
  <2>6. CASE n # e.name
    <3>1. v.puts[n] = w.puts[n] /\ v.disk[n] = w.disk[n]
      BY <1>8, <2>6
    <3>2. \A g \in w.puts[n] : Wrote(v, n, g)
      BY <2>1, <2>2, <2>3, <2>6, <3>1 DEF Saving, Wrote
    <3>3. \A g \in w.puts[n] \ {0} : w.puts[n] = {g} => g \in 1 .. Len(w.files) /\ g # f
      BY <2>1, <2>6 DEF Saving, Wrote
    <3>4. QED
      BY <2>1, <2>2, <2>3, <3>1, <3>2, <3>3 DEF Saving
  <2>7. QED
    BY <2>4, <2>5, <2>6
<1>12. Good(v, d) /\ v \in World /\ Works(w, v) /\ Apart(w, v)
  BY <1>6, <1>9, <1>10, <1>11 DEF Good, Saved
<1>13. QED
  BY <1>12 DEF v

(* A world with the same files and disk is as good. *)
SameTable(w, v) ==
  /\ v.files = w.files /\ v.handle = w.handle /\ v.opened = w.opened
  /\ v.disk = w.disk /\ v.puts = w.puts
(* Nothing of it depends on the terminal or the strings. *)
LEMMA SameGood ==
  ASSUME NEW d, NEW w, Good(w, d), NEW v \in World, SameTable(w, v)
  PROVE  Good(v, d) /\ Alike(w, v)
BY DEF Good, SameTable, Table, Saved, Saving, Wrote, Waits, Alike, Like

(* What reading does: strings, disk and what was said stay, pending output may be shown, and is
   before a line of standard input is taken. *)
Reading(w, v) ==
  /\ Works(w, v) /\ v.strs = w.strs /\ v.disk = w.disk /\ v.puts = w.puts
  /\ v.said = w.said /\ v.nul = w.nul
  /\ \/ v.shown = w.shown /\ v.out = w.out /\ v.stdin = w.stdin
     \/ v.shown = w.shown \o w.out /\ v.out = <<>>
(* Reading goes on from reading. *)
LEMMA ReadingTrans ==
  ASSUME NEW w \in World, NEW v \in World, NEW u \in World, Reading(w, v), Reading(v, u)
  PROVE  Reading(w, u)
<1>1. Alike(w, u)
  BY AlikeTrans DEF Reading, Works
<1>2. Len(w.files) \in Nat /\ w.shown \in Text /\ w.out \in Text /\ w.shown \o w.out \in Text
  <2>1. w.shown \in Text /\ w.out \in Text
    BY WorldParts
  <2>2. QED
    BY <2>1, WorldParts DEF Text
<1>3. /\ Len(w.shown) \in Nat /\ Len(v.shown) \in Nat /\ Len(u.shown) \in Nat
      /\ Len(w.said) \in Nat
  BY WorldParts DEF Text
<1>4. (w.shown \o w.out) \o <<>> = w.shown \o w.out
  BY <1>2 DEF Text
<1>5. \/ u.shown = w.shown /\ u.out = w.out /\ u.stdin = w.stdin
      \/ u.shown = w.shown \o w.out /\ u.out = <<>>
  BY <1>4 DEF Reading
<1>6. \A g \in 1 .. Len(w.files) : (w.files[g].assoc \in Vars /\ u.files[g].loaded) =>
        \/ w.files[g].loaded /\ u.files[g].buf = w.files[g].buf
        \/ u.files[g].buf = w.strs[w.files[g].assoc]
  <2>1. SUFFICES ASSUME NEW g \in 1 .. Len(w.files), w.files[g].assoc \in Vars, u.files[g].loaded
                 PROVE  \/ w.files[g].loaded /\ u.files[g].buf = w.files[g].buf
                        \/ u.files[g].buf = w.strs[w.files[g].assoc]
    OBVIOUS
  <2>2. PICK a : a = w.files[g].assoc
    OBVIOUS
  <2>3. v.files[g].assoc = a /\ g \in 1 .. Len(v.files)
    BY <2>2 DEF Reading, Works, Alike, Like
  <2>4. v.strs = w.strs /\ u.strs = w.strs
    BY DEF Reading
  <2>5. (v.files[g].loaded /\ u.files[g].buf = v.files[g].buf) \/ u.files[g].buf = w.strs[a]
    BY <2>1, <2>2, <2>3, <2>4 DEF Reading, Works
  <2>6. v.files[g].loaded => \/ w.files[g].loaded /\ v.files[g].buf = w.files[g].buf
                             \/ v.files[g].buf = w.strs[a]
    BY <2>1, <2>2, <2>4 DEF Reading, Works
  <2>7. QED
    BY <2>2, <2>5, <2>6
<1>7. Works(w, u)
  <2>1. u.old = w.old /\ Len(w.shown) <= Len(v.shown) /\ Len(v.shown) <= Len(u.shown)
    BY DEF Works, Reading
  <2>2. Len(w.shown) <= Len(u.shown)
    BY <1>3, <2>1
  <2>3. Len(w.said) <= Len(u.said)
    BY <1>3 DEF Reading
  <2>4. QED
    BY <1>1, <1>6, <2>1, <2>2, <2>3 DEF Works
<1>8. QED
  BY <1>5, <1>7 DEF Reading
(* Nothing read is reading. *)
LEMMA ReadingSelf ==
  ASSUME NEW w \in World
  PROVE  Reading(w, w)
BY WorldParts DEF Reading, Works, Alike, Like, Text

(* What writing does: the same text is added to what is said and what is pending. *)
Writing(w, v) ==
  /\ Alike(w, v) /\ v.disk = w.disk /\ v.shown = w.shown /\ v.stdin = w.stdin /\ v.old = w.old
  /\ \E t \in Text : v.out = w.out \o t /\ v.said = w.said \o t
  /\ \A g \in 1 .. Len(w.files) : w.files[g].assoc \in Vars =>
       v.files[g].loaded = w.files[g].loaded /\ v.files[g].buf = w.files[g].buf
(* Writing goes on from writing. *)
LEMMA WritingTrans ==
  ASSUME NEW w \in World, NEW v \in World, NEW u \in World, Writing(w, v), Writing(v, u)
  PROVE  Writing(w, u)
<1>1. Alike(w, u)
  BY AlikeTrans DEF Writing
<1>2. PICK s \in Text : v.out = w.out \o s /\ v.said = w.said \o s
  BY DEF Writing
<1>3. PICK t \in Text : u.out = v.out \o t /\ u.said = v.said \o t
  BY DEF Writing
<1>4. w.out \in Text /\ w.said \in Text
  BY WorldParts
<1>5. u.out = w.out \o (s \o t) /\ u.said = w.said \o (s \o t) /\ s \o t \in Text
  <2>1. (w.out \o s) \o t = w.out \o (s \o t)
    BY <1>4, Thrice, ZenonT(30)
  <2>2. (w.said \o s) \o t = w.said \o (s \o t)
    BY <1>4, Thrice, ZenonT(30)
  <2>3. s \o t \in Text
    BY Joined
  <2>4. QED
    BY <1>2, <1>3, <2>1, <2>2, <2>3
<1>6. Len(w.files) \in Nat
  BY WorldParts
<1>7. \A g \in 1 .. Len(w.files) : w.files[g].assoc \in Vars =>
        u.files[g].loaded = w.files[g].loaded /\ u.files[g].buf = w.files[g].buf
  BY DEF Writing, Alike, Like
<1>8. QED
  BY <1>1, <1>5, <1>7 DEF Writing
(* Nothing written is writing. *)
LEMMA WritingSelf ==
  ASSUME NEW w \in World
  PROVE  Writing(w, w)
<1>1. w.out \in Text /\ w.said \in Text /\ <<>> \in Text
  BY WorldParts DEF Text
<1>2. w.out = w.out \o <<>> /\ w.said = w.said \o <<>>
  BY <1>1 DEF Text
<1>3. QED
  BY <1>1, <1>2 DEF Writing, Alike, Like
(* Writing is an operation on files that keeps the order of the output, *)
LEMMA WritingWorks ==
  ASSUME NEW w \in World, NEW v \in World, Writing(w, v)
  PROVE  Works(w, v) /\ (Ordered(w) => Ordered(v))
<1>1. PICK t \in Text : v.out = w.out \o t /\ v.said = w.said \o t
  BY DEF Writing
<1>2. w.out \in Text /\ w.said \in Text /\ w.shown \in Text
  BY WorldParts
<1>3. Len(w.said) <= Len(v.said) /\ Len(w.shown) <= Len(w.shown)
  BY <1>1, <1>2 DEF Text
<1>4. (w.shown \o w.out) \o t = w.shown \o (w.out \o t)
  BY <1>2, Thrice
<1>5. Ordered(w) => Ordered(v)
  BY <1>1, <1>4 DEF Ordered, Writing
<1>6. Works(w, v)
  BY <1>3 DEF Works, Writing
<1>7. QED
  BY <1>5, <1>6
(* and so is reading, with everything said before shown when a line is taken. *)
LEMMA ReadingWorks ==
  ASSUME NEW w \in World, NEW v \in World, Reading(w, v)
  PROVE  /\ Works(w, v) /\ (Ordered(w) => Ordered(v))
         /\ Ordered(w) /\ v.stdin # w.stdin => v.shown = w.said
<1>1. w.out \in Text /\ w.shown \in Text /\ w.shown \o w.out \in Text
  <2>1. w.out \in Text /\ w.shown \in Text
    BY WorldParts
  <2>2. QED
    BY <2>1 DEF Text
<1>2. (w.shown \o w.out) \o <<>> = w.shown \o w.out
  BY <1>1 DEF Text
<1>3. QED
  BY <1>2 DEF Reading, Ordered

-----------------------------------------------------------------------------
(* Reading. *)

(* An entry is tended to on the way to a character. *)
LEMMA TendedReads ==
  ASSUME NEW d, NEW w \in World, Good(w, d), NEW f \in 1 .. Len(w.files), NEW e \in File,
         Tended(w.files[f], e), NEW v, v = [w EXCEPT !.files[f] = e],
         e.assoc \in Vars /\ e.loaded =>
           (w.files[f].loaded /\ e.buf = w.files[f].buf) \/ e.buf = w.strs[e.assoc]
  PROVE  v \in World /\ Good(v, d) /\ Reading(w, v) /\ Entered(w, f, e, v) /\ Around(w, v)
<1>1. v \in World /\ Entered(w, f, e, v) /\ Around(w, v)
  BY EntrySet
<1>2. Good(v, d) /\ Alike(w, v)
  BY <1>1, TendedGood
<1>3. Len(w.shown) \in Nat /\ Len(w.said) \in Nat
  BY WorldParts DEF Text
<1>4. Works(w, v)
  <2>1. v.old = w.old /\ v.shown = w.shown /\ v.said = w.said /\ v.strs = w.strs
    BY <1>1 DEF Around
  <2>2. v.files[f] = e /\ e.assoc = w.files[f].assoc
    BY <1>1 DEF Entered, Tended, Like
  <2>3. \A g \in 1 .. Len(w.files) : g # f => v.files[g] = w.files[g]
    BY <1>1 DEF Entered
  <2>4. \A g \in 1 .. Len(w.files) : w.files[g].assoc \in Vars /\ v.files[g].loaded =>
          \/ w.files[g].loaded /\ v.files[g].buf = w.files[g].buf
          \/ v.files[g].buf = w.strs[w.files[g].assoc]
    BY <2>2, <2>3
  <2>5. QED
    <3>1. Len(w.shown) <= Len(v.shown) /\ Len(w.said) <= Len(v.said)
      BY <1>3, <2>1
    <3>2. QED
      BY <1>2, <2>1, <2>4, <3>1 DEF Works
<1>5. QED
  BY <1>1, <1>2, <1>4 DEF Reading, Around

(* Pending output is shown. *)
LEMMA FlushOut ==
  ASSUME NEW d, NEW w \in World, Good(w, d)
  PROVE  LET v == io_flush_out(w)
         IN v \in World /\ Good(v, d) /\ Reading(w, v) /\ v.out = <<>> /\ v.files = w.files
            /\ v.stdin = w.stdin
<1> DEFINE v == io_flush_out(w)
<1>1. w.shown \in Text /\ w.out \in Text /\ w.shown \o w.out \in Text /\ <<>> \in Text
      /\ Len(w.shown) \in Nat /\ Len(w.out) \in Nat /\ Len(w.said) \in Nat
      /\ Len(w.shown \o w.out) = Len(w.shown) + Len(w.out)
  <2>1. w.shown \in Text /\ w.out \in Text /\ w.said \in Text
    BY WorldParts
  <2>2. QED
    BY <2>1, Joined DEF Text
<1>2. /\ v.shown = w.shown \o w.out /\ v.out = <<>> /\ v.files = w.files /\ v.handle = w.handle
      /\ v.opened = w.opened /\ v.disk = w.disk /\ v.strs = w.strs /\ v.puts = w.puts
      /\ v.said = w.said /\ v.stdin = w.stdin /\ v.nul = w.nul /\ v.old = w.old
  BY DEF World, io_flush_out
<1>3. v \in World
  <2> DEFINE t == w.shown \o w.out
  <2>1. v = [[w EXCEPT !.shown = t] EXCEPT !.out = <<>>] /\ t \in Text
    BY <1>1 DEF io_flush_out
  <2> HIDE DEF v, t
  <2>2. QED
    BY <1>1, <2>1 DEF World
<1>4. Good(v, d) /\ Alike(w, v)
  <2> HIDE DEF v
  <2>1. QED
    BY <1>2, <1>3, SameGood DEF SameTable
<1> HIDE DEF v
<1>5. Works(w, v)
  <2>1. Len(w.shown) <= Len(v.shown) /\ Len(w.said) <= Len(v.said) /\ v.old = w.old
    <3>1. Len(w.shown) <= Len(w.shown \o w.out) /\ w.said \in Text
      BY WorldParts, Joined
    <3>2. Len(w.said) <= Len(w.said)
      BY <3>1 DEF Text
    <3>3. QED
      BY <1>2, <3>1, <3>2
  <2>2. v.files = w.files
    BY <1>2
  <2>3. QED
    BY <1>4, <2>1, <2>2 DEF Works
<1>6. v \in World /\ Good(v, d) /\ Reading(w, v) /\ v.out = <<>> /\ v.files = w.files
      /\ v.stdin = w.stdin
  BY <1>2, <1>3, <1>4, <1>5 DEF Reading
<1>7. QED
  BY <1>6 DEF v

(* A line of standard input is taken. *)
LEMMA FetchLine ==
  ASSUME NEW d, NEW w \in World, Good(w, d)
  PROVE  LET v == fetch_line(w) IN v \in World /\ Good(v, d) /\ Reading(w, v)
<1> DEFINE u == io_flush_out(w)
           v == NextLine(u)
           e0 == u.files[StandIn]
           e == [e0 EXCEPT !.loaded = TRUE, !.reading = TRUE]
<1>1. u \in World /\ Good(u, d) /\ Reading(w, u) /\ u.out = <<>> /\ u.stdin = w.stdin
  BY FlushOut
<1> HIDE DEF u
<1>2. StandIn \in 1 .. Len(u.files) /\ e0 \in File /\ Entry(e0) /\ ~e0.ondisk /\ e0.assoc = Nobody
  BY <1>1, WorldParts DEF Good, Table, StandIn
<1>3. e \in File /\ Tended(e0, e) /\ e.assoc = Nobody
  BY <1>2 DEF File, Tended, Like, Entry
<1>4. Nobody \notin Vars
  BY Tokens
<1>5. CASE u.stdin = <<>>
  <2> DEFINE e1 == [e EXCEPT !.eof = TRUE]
  <2>1. e1 \in File /\ Tended(e0, e1) /\ e1.assoc = Nobody
    BY <1>2 DEF File, Tended, Like, Entry
  <2>2. v = [u EXCEPT !.files[StandIn] = e1]
    BY <1>5 DEF NextLine
  <2> HIDE DEF e, e1, v
  <2>3. v \in World /\ Good(v, d) /\ Reading(u, v)
    BY <1>1, <1>2, <1>4, <2>1, <2>2, TendedReads
  <2>4. Reading(w, v)
    BY <1>1, <2>3, ReadingTrans
  <2>5. QED
    BY <2>3, <2>4 DEF v, fetch_line, u
<1>6. CASE u.stdin # <<>>
  <2> DEFINE e1 == [e EXCEPT !.buf = @ \o Head(u.stdin)]
             x == [u EXCEPT !.files[StandIn] = e1]
             tl == Tail(u.stdin)
  <2>1. u.stdin \in Seq(Text) /\ Head(u.stdin) \in Text /\ tl \in Seq(Text)
    BY <1>1, <1>6, WorldParts
  <2>2. e.buf \o Head(u.stdin) \in Text
    <3>1. e.buf \in Text
      BY <1>3, FileParts
    <3>2. QED
      BY <2>1, <3>1, Joined
  <2>3. e1 \in File /\ Tended(e0, e1) /\ e1.assoc = Nobody
    <3> DEFINE s == e.buf \o Head(u.stdin)
    <3>1. e1 = [e EXCEPT !.buf = s]
      BY <1>3 DEF File
    <3> HIDE DEF s, e, e1
    <3>2. QED
      BY <1>2, <1>3, <2>2, <3>1 DEF File, Tended, Like, Entry, s
  <2>4. v = [x EXCEPT !.stdin = tl]
    BY <1>1, <1>6 DEF NextLine, World
  <2> HIDE DEF e, e1
  <2>5. x \in World /\ Good(x, d) /\ Reading(u, x)
    BY <1>1, <1>2, <1>4, <2>3, TendedReads
  <2> HIDE DEF x, v, tl
  <2>6. /\ v \in World /\ v.shown = x.shown /\ v.out = x.out /\ v.files = x.files
        /\ v.handle = x.handle /\ v.opened = x.opened /\ v.disk = x.disk /\ v.strs = x.strs
        /\ v.puts = x.puts /\ v.said = x.said /\ v.nul = x.nul /\ v.old = x.old
    BY <2>1, <2>4, <2>5 DEF World
  <2>7. Good(v, d) /\ Alike(x, v)
    BY <2>5, <2>6, SameGood DEF SameTable
  <2>8. Reading(u, v)
    <3>1. Alike(u, v)
      BY <2>5, <2>7, AlikeTrans DEF Reading, Works
    <3>2. u.shown \o <<>> = u.shown
      BY <1>1, WorldParts, Joined
    <3>3. Works(u, v)
      BY <2>5, <2>6, <3>1 DEF Works, Reading
    <3>4. QED
      BY <1>1, <2>5, <2>6, <3>2, <3>3 DEF Reading
  <2>9. Reading(w, v)
    BY <1>1, <2>6, <2>8, ReadingTrans
  <2>10. QED
    BY <2>6, <2>7, <2>9 DEF v, fetch_line, u
<1>7. QED
  BY <1>5, <1>6

(* v is w after something that takes characters of file f: those of a string are before its end *)
Came(w, v, f, d) ==
  /\ v \in World /\ Good(v, d) /\ Reading(w, v)
  /\ v.files[f].assoc \in Vars =>
       /\ v.files[f].loaded
       /\ v.files[f].pos <= Len(v.files[f].buf) \/ v.files[f].pos <= w.files[f].pos

(* A file is loaded. *)
LEMMA LoadReads ==
  ASSUME NEW d, NEW w \in World, Good(w, d), NEW f \in 1 .. Len(w.files)
  PROVE  Came(w, load_file(w, f), f, d)
<1> DEFINE e == w.files[f]
           v == load_file(w, f)
<1>1. e \in File /\ Entry(e) /\ Nobody \notin Vars /\ e.pos \in Nat
  BY Tokens, WorldParts, FileParts DEF Good, Table
<1>2. CASE v = w /\ (e.loaded \/ e.assoc \notin Vars)
  <2>1. e.pos <= e.pos
    BY <1>1
  <2>2. QED
    BY <1>1, <1>2, <2>1, ReadingSelf DEF Came
<1>3. CASE f = StandIn /\ v = fetch_line(w)
  <2>1. v \in World /\ Good(v, d) /\ Reading(w, v)
    BY <1>3, FetchLine
  <2>2. v.files[f].assoc = Nobody
    BY <1>3, <2>1 DEF Good, Table
  <2>3. QED
    BY <1>1, <2>1, <2>2 DEF Came
<1>4. CASE f # StandIn /\ ~e.loaded /\ e.assoc \in Vars
  <2> DEFINE e1 == [e EXCEPT !.buf = w.strs[e.assoc], !.pos = 0, !.loaded = TRUE]
  <2>1. v = [w EXCEPT !.files[f] = e1]
    BY <1>4 DEF load_file
  <2>2. w.strs[e.assoc] \in Text
    BY <1>4, WorldParts
  <2>3. e1 \in File /\ e1.buf = w.strs[e.assoc] /\ e1.pos = 0 /\ e1.loaded /\ Tended(e, e1)
    BY <1>1, <1>4, <2>2 DEF File, Tended, Like, Entry
  <2> HIDE DEF e1, v
  <2>4. v \in World /\ Good(v, d) /\ Reading(w, v) /\ v.files[f] = e1
    <3>1. e1.assoc = e.assoc
      BY <2>3 DEF Tended, Like
    <3>2. QED
      BY <2>1, <2>3, <3>1, TendedReads DEF Entered
  <2>5. e1.pos <= Len(e1.buf)
    BY <2>2, <2>3 DEF Text
  <2>6. Came(w, v, f, d)
    BY <2>3, <2>4, <2>5 DEF Came
  <2>7. QED
    BY <2>6 DEF v
<1>5. CASE f # StandIn /\ ~e.loaded /\ e.assoc \notin Vars
  <2> DEFINE e1 == [e EXCEPT !.loaded = TRUE]
  <2>1. v = [w EXCEPT !.files[f] = e1]
    BY <1>5 DEF load_file
  <2>2. e1 \in File /\ Tended(e, e1) /\ e1.assoc \notin Vars
    BY <1>1, <1>5 DEF File, Tended, Like, Entry
  <2> HIDE DEF e1, v
  <2>3. v \in World /\ Good(v, d) /\ Reading(w, v) /\ v.files[f] = e1
    BY <2>1, <2>2, TendedReads DEF Entered
  <2>4. Came(w, v, f, d)
    BY <2>2, <2>3 DEF Came
  <2>5. QED
    BY <2>4 DEF v
<1>6. f = StandIn => e.assoc \notin Vars
  BY <1>1 DEF Good, Table
<1>7. \/ v = w /\ (e.loaded \/ e.assoc \notin Vars)
      \/ f = StandIn /\ v = fetch_line(w)
      \/ f # StandIn /\ ~e.loaded /\ e.assoc \in Vars
      \/ f # StandIn /\ ~e.loaded /\ e.assoc \notin Vars
  BY <1>6 DEF load_file
<1>8. QED
  BY <1>2, <1>3, <1>4, <1>5, <1>7
(* A file that characters came from is loaded again. *)
LEMMA LoadAgain ==
  ASSUME NEW d, NEW w \in World, NEW f \in 1 .. Len(w.files), NEW v, Came(w, v, f, d)
  PROVE  Came(w, load_file(v, f), f, d)
<1> DEFINE u == load_file(v, f)
<1>1. f \in 1 .. Len(v.files) /\ v \in World /\ Good(v, d)
  BY DEF Came, Reading, Works, Alike
<1>2. Came(v, u, f, d)
  BY <1>1, LoadReads
<1>3. CASE v.files[f].assoc \in Vars
  <2>1. Nobody \notin Vars /\ v.files[StandIn].assoc = Nobody
    BY <1>1, Tokens DEF Good, Table
  <2>2. u = v
    BY <1>3, <2>1 DEF load_file, Came
  <2>3. QED
    BY <2>2
<1>4. CASE v.files[f].assoc \notin Vars
  <2> HIDE DEF u
  <2>1. u.files[f].assoc = v.files[f].assoc
    BY <1>1, <1>2 DEF Came, Reading, Works, Alike, Like
  <2>2. Reading(w, u)
    BY <1>1, <1>2, ReadingTrans DEF Came
  <2>3. Came(w, u, f, d)
    BY <1>2, <1>4, <2>1, <2>2 DEF Came
  <2>4. QED
    BY <2>3, SMTT(30) DEF u
<1>5. QED
  BY <1>3, <1>4

(* A character is taken. *)
LEMMA TakeReads ==
  ASSUME NEW d, NEW w \in World, NEW f \in 1 .. Len(w.files), NEW v, Came(w, v, f, d),
         ~at_end(v, f)
  PROVE  Came(w, Take(v, f), f, d)
<1> DEFINE e == v.files[f]
           e1 == [e EXCEPT !.pos = @ + 1, !.reading = TRUE]
           u == Take(v, f)
<1>1. f \in 1 .. Len(v.files) /\ v \in World /\ Good(v, d) /\ Reading(w, v)
  BY DEF Came, Reading, Works, Alike
<1>2. e \in File /\ Entry(e) /\ e.pos \in Nat /\ Len(e.buf) \in Nat
  BY <1>1, WorldParts, FileParts DEF Good, Table, Text
<1>3. u = [v EXCEPT !.files[f] = e1]
  BY DEF Take
<1>4. e1 \in File /\ Tended(e, e1) /\ e1.buf = e.buf /\ e1.loaded = e.loaded /\ e1.pos = e.pos + 1
      /\ e1.assoc = e.assoc
  <2> DEFINE p == e.pos + 1
  <2>1. p \in Nat /\ e1 = [e EXCEPT !.pos = p, !.reading = TRUE]
    BY <1>2 DEF File
  <2> HIDE DEF p, e1
  <2>2. e1 \in File /\ Tended(e, e1) /\ e1.buf = e.buf /\ e1.loaded = e.loaded /\ e1.pos = p
        /\ e1.assoc = e.assoc
    BY <1>2, <2>1 DEF File, Tended, Like, Entry
  <2>3. QED
    BY <2>2 DEF p
<1>5. e1.pos <= Len(e1.buf)
  BY <1>2, <1>4 DEF at_end
<1> HIDE DEF e1, u
<1>6. u \in World /\ Good(u, d) /\ Reading(v, u) /\ u.files[f] = e1
  BY <1>1, <1>3, <1>4, TendedReads DEF Entered
<1>7. Reading(w, u)
  BY <1>1, <1>6, ReadingTrans
<1>8. Came(w, u, f, d)
  BY <1>4, <1>5, <1>6, <1>7 DEF Came
<1>9. QED
  BY <1>8 DEF u

(* Characters are taken one after the other. *)
LEMMA TakeWhileLoop ==
  ASSUME NEW w, NEW f, NEW cs, NEW k, k = MaxText * (1 + Len(plan.stdin)), k \in Nat
  PROVE  \E g : /\ g[0] = load_file(w, f)
                /\ \A n \in 1 .. k :
                     g[n] = IF at_end(g[n - 1], f) \/ peek_char(g[n - 1], f) \notin cs
                            THEN g[n - 1] ELSE load_file(Take(g[n - 1], f), f)
                /\ TakeWhile(w, f, cs) = g[k]
<1> DEFINE Next1(v) == IF at_end(v, f) \/ peek_char(v, f) \notin cs THEN v ELSE load_file(Take(v, f), f)
           Def(g, m) == g = [n \in 0 .. m |-> IF n = 0 THEN load_file(w, f)
                                              ELSE LET v == g[n - 1] IN Next1(v)]
           S == {m \in Nat : \E g : Def(g, m)}
<1>1. 0 \in S
  <2>1. Def([n \in 0 .. 0 |-> load_file(w, f)], 0)
    OBVIOUS
  <2>2. QED
    BY <2>1
<1>2. ASSUME NEW m \in Nat, m \in S PROVE m + 1 \in S
  <2>1. PICK g : Def(g, m)
    BY <1>2
  <2> DEFINE h == [n \in 0 .. m + 1 |-> IF n = m + 1 THEN Next1(g[m]) ELSE g[n]]
  <2> HIDE DEF Next1
  <2>2. ASSUME NEW n \in 0 .. m + 1
        PROVE  h[n] = IF n = 0 THEN load_file(w, f) ELSE Next1(h[n - 1])
    BY <2>1
  <2>3. h = [n \in 0 .. m + 1 |-> h[n]]
    OBVIOUS
  <2> HIDE DEF h
  <2>4. [n \in 0 .. m + 1 |-> h[n]]
        = [n \in 0 .. m + 1 |-> IF n = 0 THEN load_file(w, f) ELSE Next1(h[n - 1])]
    BY <2>2
  <2>5. Def(h, m + 1)
    BY <2>3, <2>4
  <2>6. QED
    BY <2>5
<1>3. k \in S
  <2> HIDE DEF S
  <2>1. \A i \in 0 .. k : i \in S /\ i < k => i + 1 \in S
    BY <1>2
  <2>2. \A i \in 0 .. k : i \in S
    BY <1>1, <2>1, Steps
  <2>3. QED
    BY <2>2
<1> DEFINE c == CHOOSE g1 : Def(g1, k)
<1>4. Def(c, k)
  BY <1>3
<1>5. TakeWhile(w, f, cs) = c[k]
  BY DEF TakeWhile
<1> HIDE DEF c, Next1
<1>6. c[0] = load_file(w, f) /\ \A n \in 1 .. k : c[n] = Next1(c[n - 1])
  BY <1>4
<1>7. QED
  BY <1>5, <1>6 DEF Next1

(* What is taken comes as single characters do. *)
LEMMA TakeWhileReads ==
  ASSUME plan \in Scenarios, NEW d, NEW w \in World, NEW f \in 1 .. Len(w.files), NEW v,
         NEW cs, Came(w, load_file(v, f), f, d)
  PROVE  Came(w, TakeWhile(v, f, cs), f, d)
<1> DEFINE k == MaxText * (1 + Len(plan.stdin))
<1>1. k \in Nat /\ k = MaxText * (1 + Len(plan.stdin))
  BY Shapes
<1> HIDE DEF k
<1>2. PICK g : /\ g[0] = load_file(v, f)
               /\ \A n \in 1 .. k :
                     g[n] = IF at_end(g[n - 1], f) \/ peek_char(g[n - 1], f) \notin cs
                            THEN g[n - 1] ELSE load_file(Take(g[n - 1], f), f)
               /\ TakeWhile(v, f, cs) = g[k]
  BY <1>1, TakeWhileLoop
<1> DEFINE S == {n \in 0 .. k : Came(w, g[n], f, d)}
<1>3. 0 \in S
  BY <1>1, <1>2
<1>4. ASSUME NEW n \in 0 .. k, n \in S, n < k PROVE n + 1 \in S
  <2> DEFINE u == g[n]
  <2>1. Came(w, u, f, d)
    BY <1>4
  <2>2. /\ n + 1 \in 1 .. k /\ (n + 1) - 1 = n
        /\ g[n + 1] = IF at_end(u, f) \/ peek_char(u, f) \notin cs
                      THEN u ELSE load_file(Take(u, f), f)
    BY <1>1, <1>2, <1>4
  <2> HIDE DEF u
  <2>3. Came(w, g[n + 1], f, d)
    <3>1. CASE at_end(u, f) \/ peek_char(u, f) \notin cs
      BY <2>1, <2>2, <3>1
    <3>2. CASE ~at_end(u, f) /\ peek_char(u, f) \in cs
      <4>1. Came(w, Take(u, f), f, d)
        BY <2>1, <3>2, TakeReads
      <4>2. Came(w, load_file(Take(u, f), f), f, d)
        BY <4>1, LoadAgain
      <4>3. QED
        BY <2>2, <3>2, <4>2
    <3>3. QED
      BY <3>1, <3>2
  <2>4. QED
    BY <2>2, <2>3
<1>5. k \in S
  <2> HIDE DEF S
  <2>1. \A n \in 0 .. k : n \in S /\ n < k => n + 1 \in S
    BY <1>4
  <2>2. \A n \in 0 .. k : n \in S
    BY <1>1, <1>3, <2>1, Steps
  <2>3. QED
    BY <1>1, <2>2
<1>6. QED
  BY <1>2, <1>5

(* A line is skipped. *)
LEMMA SkipLineReads ==
  ASSUME plan \in Scenarios, NEW d, NEW w \in World, Good(w, d), NEW f \in 1 .. Len(w.files)
  PROVE  Came(w, skip_line(w, f), f, d)
<1> DEFINE v == TakeWhile(w, f, InText \ {Ended})
<1>1. Came(w, v, f, d)
  <2>1. Came(w, load_file(w, f), f, d)
    BY LoadReads
  <2>2. QED
    BY <2>1, TakeWhileReads
<1> HIDE DEF v
<1>2. ~at_end(v, f) => Came(w, Take(v, f), f, d)
  BY <1>1, TakeReads
<1>3. QED
  BY <1>1, <1>2 DEF skip_line, v

(* The string of an associated file is read afresh. *)
LEMMA RefreshReads ==
  ASSUME NEW d, NEW w \in World, Good(w, d), NEW f \in 1 .. Len(w.files)
  PROVE  LET v == refresh_assoc(w, f)
         IN /\ v \in World /\ Good(v, d) /\ Reading(w, v)
            /\ v.files[f].assoc \in Vars => v.files[f].buf = v.strs[v.files[f].assoc]
<1> DEFINE e == w.files[f]
           e1 == [e EXCEPT !.buf = w.strs[e.assoc], !.loaded = TRUE]
           v == refresh_assoc(w, f)
<1>1. CASE e.assoc \notin Vars \/ w.strs[e.assoc] = e.buf
  <2>1. v = w
    BY <1>1 DEF refresh_assoc
  <2>2. QED
    BY <1>1, <2>1, ReadingSelf
<1>2. CASE e.assoc \in Vars /\ w.strs[e.assoc] # e.buf
  <2>1. e \in File /\ Entry(e) /\ Nobody \notin Vars /\ w.strs[e.assoc] \in Text
    BY <1>2, Tokens, WorldParts DEF Good, Table
  <2>2. e1 \in File /\ Tended(e, e1) /\ e1.buf = w.strs[e.assoc] /\ e1.assoc = e.assoc
    BY <1>2, <2>1 DEF File, Tended, Like, Entry
  <2>3. v = [w EXCEPT !.files[f] = e1]
    BY <1>2 DEF refresh_assoc
  <2> HIDE DEF e1, v
  <2>4. v \in World /\ Good(v, d) /\ Reading(w, v) /\ v.files[f] = e1 /\ v.strs = w.strs
    BY <2>2, <2>3, TendedReads DEF Entered, Around
  <2>5. v.files[f].assoc \in Vars => v.files[f].buf = v.strs[v.files[f].assoc]
    BY <2>2, <2>4
  <2>6. QED
    BY <2>4, <2>5 DEF v
<1>3. QED
  BY <1>1, <1>2

-----------------------------------------------------------------------------
(* Writing. *)

(* A NUL in a text has a first place. *)
LEMMA UpToText ==
  ASSUME NEW s \in Text, NEW c, Has(s, c)
  PROVE  UpTo(s, c) \in Text
<1> DEFINE T == {i \in 1 .. Len(s) : s[i] = c}
           P(i) == s[i] = c /\ ~Has(SubSeq(s, 1, i - 1), c)
<1>1. s \in Seq(Char) /\ Len(s) \in Nat
  BY DEF Text
<1>2. PICK x \in T : \A y \in T : x <= y
  <2>1. T \subseteq Nat /\ T # {}
    BY <1>1 DEF Has
  <2> HIDE DEF T
  <2>2. QED
    BY <2>1, LeastNumber
<1>3. x \in 1 .. Len(s) /\ s[x] = c
  OBVIOUS
<1>4. ~Has(SubSeq(s, 1, x - 1), c)
  <2>1. SUFFICES ASSUME Has(SubSeq(s, 1, x - 1), c) PROVE FALSE
    OBVIOUS
  <2>2. Len(SubSeq(s, 1, x - 1)) = x - 1
    BY <1>1, <1>3
  <2>3. PICK j \in 1 .. x - 1 : SubSeq(s, 1, x - 1)[j] = c
    BY <2>1, <2>2 DEF Has
  <2>4. j \in T /\ ~(x <= j)
    BY <1>1, <1>3, <2>3
  <2>5. QED
    BY <1>2, <2>4
<1> DEFINE k == CHOOSE i \in 1 .. Len(s) : P(i)
<1>5. k \in 1 .. Len(s)
  <2>1. P(x)
    BY <1>3, <1>4
  <2> HIDE DEF P
  <2>2. QED
    BY <1>3, <2>1
<1>6. UpTo(s, c) = SubSeq(s, 1, k - 1)
  BY DEF UpTo
<1> HIDE DEF k
<1>7. SubSeq(s, 1, k - 1) \in Text
  BY <1>1, <1>5 DEF Text
<1>8. QED
  BY <1>6, <1>7

(* What a text does to a file. *)
Wrote1(w, v, d, s) ==
  v \in World /\ Good(v, d) /\ Writing(w, v) /\ (v.nul => w.nul \/ Has(s, Nul))

(* A text for the terminal. *)
LEMMA OutText ==
  ASSUME NEW d, NEW w \in World, Good(w, d), NEW f, NEW s \in Text
  PROVE  Wrote1(w, out_text(w, f, s), d, s)
<1> DEFINE t == IF Has(s, Nul) THEN UpTo(s, Nul) ELSE s
           b == Has(s, Nul)
           v == out_text(w, f, s)
<1>1. t \in Text /\ b \in BOOLEAN
  BY UpToText DEF Has
<1>2. w.out \in Text /\ w.said \in Text /\ w.nul \in BOOLEAN /\ <<>> \in Text
  BY WorldParts DEF Text
<1>3. CASE w.nul
  <2>1. v = w
    BY <1>3 DEF out_text
  <2>2. QED
    BY <1>3, <2>1, WritingSelf DEF Wrote1
<1>4. CASE ~w.nul
  <2> DEFINE x == IF f = StandOut THEN t ELSE <<>>
             o == w.out \o x
             a == w.said \o x
  <2>1. x \in Text
    BY <1>1, <1>2
  <2>2. o \in Text /\ a \in Text
    <3> HIDE DEF x
    <3>1. QED
      BY <1>2, <2>1, Joined
  <2>3. w.out \o <<>> = w.out /\ w.said \o <<>> = w.said
    BY <1>2, Joined
  <2>4. v = [w EXCEPT !.nul = b, !.out = o, !.said = a]
    <3>1. CASE f = StandOut
      BY <1>4, <3>1 DEF out_text, World
    <3>2. CASE f # StandOut
      <4>1. v = [w EXCEPT !.nul = b] /\ o = w.out /\ a = w.said
        BY <1>4, <2>3, <3>2 DEF out_text
      <4> HIDE DEF v, b, o, a
      <4>2. QED
        BY <4>1 DEF World
    <3>3. QED
      BY <3>1, <3>2
  <2> HIDE DEF v, t, b, o, a, x
  <2>5. /\ v \in World /\ v.files = w.files /\ v.handle = w.handle /\ v.opened = w.opened
        /\ v.disk = w.disk /\ v.strs = w.strs /\ v.puts = w.puts /\ v.shown = w.shown
        /\ v.stdin = w.stdin /\ v.old = w.old /\ v.out = o /\ v.said = a /\ v.nul = b
    BY <1>1, <2>2, <2>4 DEF World
  <2>6. Good(v, d) /\ Alike(w, v)
    BY <2>5, SameGood DEF SameTable
  <2>7. \E y \in Text : v.out = w.out \o y /\ v.said = w.said \o y
    BY <2>1, <2>5 DEF o, a
  <2>8. Writing(w, v)
    BY <2>5, <2>6, <2>7 DEF Writing
  <2>9. Wrote1(w, v, d, s)
    BY <2>5, <2>6, <2>8 DEF Wrote1, b
  <2>10. QED
    BY <2>9 DEF v
<1>5. QED
  BY <1>3, <1>4

(* A text is added to the string of an associated file. *)
LEMMA StringOut ==
  ASSUME NEW d, NEW w \in World, Good(w, d), NEW f \in 1 .. Len(w.files), NEW s \in Text,
         w.files[f].assoc \in Vars, f \notin {StandOut, StandError}
  PROVE  Wrote1(w, file_out(w, f, s), d, s)
<1> DEFINE e == w.files[f]
           e1 == IF e.writing THEN e ELSE [e EXCEPT !.writing = TRUE, !.reading = FALSE]
           u == [w EXCEPT !.files[f] = e1]
           q == [w.strs EXCEPT ![e.assoc] = IF e.writing THEN @ \o s ELSE <<>> \o s]
           v == file_out(w, f, s)
<1>1. /\ e \in File /\ Entry(e) /\ Nobody \notin Vars /\ w.strs \in [Vars -> Text]
      /\ w.strs[e.assoc] \in Text /\ <<>> \in Text
  BY Tokens, WorldParts DEF Good, Table, Text
<1>2. e1 \in File /\ Tended(e, e1) /\ e1.loaded = e.loaded /\ e1.buf = e.buf
  <2>1. CASE e.writing
    BY <1>1, <2>1 DEF Tended, Like, Entry
  <2>2. CASE ~e.writing
    <3>1. PICK x : x = [e EXCEPT !.writing = TRUE, !.reading = FALSE]
      OBVIOUS
    <3>2. /\ x \in File /\ Like(e, x) /\ x.ondisk = e.ondisk /\ x.dirty = e.dirty
          /\ x.loaded = e.loaded /\ x.buf = e.buf
      BY <1>1, <3>1 DEF File, Like
    <3>3. /\ ~e.ondisk /\ (e.dirty => e.loaded /\ e.assoc = Nobody)
          /\ (e.temp => ~e.on_end /\ ~e.on_value /\ ~e.on_line)
      BY <1>1 DEF Entry
    <3>4. x.on_end = e.on_end /\ x.on_value = e.on_value /\ x.on_line = e.on_line
      BY <1>1, <3>1 DEF File
    <3>5. Tended(e, x)
      BY <3>2, <3>3, <3>4 DEF Tended, Like
    <3>6. QED
      BY <2>2, <3>1, <3>2, <3>5
  <2>3. QED
    BY <2>1, <2>2
<1>3. q \in [Vars -> Text]
  <2>1. w.strs[e.assoc] \o s \in Text /\ <<>> \o s \in Text
    BY <1>1, Joined
  <2>2. QED
    BY <1>1, <2>1
<1>4. v = [u EXCEPT !.strs = q]
  <2>1. CASE e.writing
    <3>1. v = [w EXCEPT !.strs[e.assoc] = @ \o s]
      BY <2>1 DEF file_out, turn_to_writing
    <3>2. u = w
      BY <2>1 DEF World
    <3>3. q = [w.strs EXCEPT ![e.assoc] = @ \o s]
      BY <2>1
    <3>4. QED
      BY <3>1, <3>2, <3>3 DEF World
  <2>2. CASE ~e.writing
    <3> DEFINE t == [w EXCEPT !.strs[e.assoc] = <<>>, !.files[f] = e1]
    <3>1. t = turn_to_writing(w, f)
      BY <2>2 DEF turn_to_writing
    <3>2. t.strs = [w.strs EXCEPT ![e.assoc] = <<>>] /\ t.files = [w.files EXCEPT ![f] = e1]
      BY DEF World
    <3>3. v = [t EXCEPT !.strs[e.assoc] = @ \o s]
      BY <3>1 DEF file_out
    <3>4. v = [t EXCEPT !.strs = [t.strs EXCEPT ![e.assoc] = t.strs[e.assoc] \o s]]
      BY <3>3
    <3>5. [t.strs EXCEPT ![e.assoc] = t.strs[e.assoc] \o s] = q
      <4> HIDE DEF t
      <4>1. t.strs[e.assoc] = <<>>
        BY <1>1, <3>2
      <4>2. QED
        BY <1>1, <2>2, <3>2, <4>1
    <3> HIDE DEF q, e1, v
    <3>6. [t EXCEPT !.strs = q] = [u EXCEPT !.strs = q]
      BY DEF World
    <3>7. QED
      BY <3>4, <3>5, <3>6
  <2>3. QED
    BY <2>1, <2>2
<1> HIDE DEF e1, u, q, v
<1>5. u \in World /\ Entered(w, f, e1, u) /\ Around(w, u)
  BY <1>2, EntrySet DEF u
<1>6. Good(u, d) /\ Alike(w, u)
  BY <1>2, <1>5, TendedGood
<1>7. /\ v \in World /\ v.files = u.files /\ v.handle = u.handle /\ v.opened = u.opened
      /\ v.disk = u.disk /\ v.strs = q /\ v.puts = u.puts /\ v.shown = u.shown
      /\ v.stdin = u.stdin /\ v.old = u.old /\ v.out = u.out /\ v.said = u.said /\ v.nul = u.nul
  BY <1>3, <1>4, <1>5 DEF World
<1>8. Good(v, d) /\ Alike(u, v)
  BY <1>6, <1>7, SameGood DEF SameTable
<1>9. Alike(w, v)
  BY <1>6, <1>8, AlikeTrans
<1>10. w.out \o <<>> = w.out /\ w.said \o <<>> = w.said
  BY WorldParts, Joined
<1>11. Writing(w, v)
  BY <1>1, <1>2, <1>5, <1>7, <1>9, <1>10 DEF Writing, Entered, Around
<1>12. Wrote1(w, v, d, s)
  BY <1>5, <1>7, <1>8, <1>11 DEF Wrote1, Around
<1>13. QED
  BY <1>12 DEF v

(* A text is added to the buffer of a file, to be saved if the file is on the disk. *)
LEMMA BufferOut ==
  ASSUME NEW d, NEW w \in World, Good(w, d), NEW f \in 1 .. Len(w.files), NEW s \in Text,
         w.files[f].assoc = Nobody
  PROVE  Wrote1(w, write_buffer(w, f, s), d, s)
<1> DEFINE e == w.files[f]
           b == e.buf \o s
           e1 == [e EXCEPT !.dirty = TRUE, !.loaded = TRUE, !.buf = b, !.writing = TRUE]
           u == [w EXCEPT !.files[f] = e1]
           v == write_buffer(w, f, s)
<1>1. e \in File /\ Entry(e) /\ Nobody \notin Vars /\ b \in Text
  <2>1. e \in File /\ Entry(e) /\ Nobody \notin Vars
    BY Tokens, WorldParts DEF Good, Table
  <2>2. e.buf \in Text
    BY <2>1, FileParts
  <2>3. QED
    BY <2>1, <2>2, Joined
<1> HIDE DEF b
<1>2. /\ e1 \in File /\ e1.dirty /\ e1.loaded /\ e1.writing /\ e1.ondisk = e.ondisk
      /\ Like(e, e1) /\ Entry(e1)
  BY <1>1 DEF File, Like, Entry
<1>3. u \in World /\ Entered(w, f, e1, u) /\ Around(w, u)
  BY <1>2, EntrySet
<1>4. w.out \o <<>> = w.out /\ w.said \o <<>> = w.said /\ <<>> \in Text
  BY WorldParts, Joined DEF Text
<1>5. v = IF e.ondisk THEN [u EXCEPT !.puts[e.name] = @ \cup {f}] ELSE u
  <2> DEFINE x == [e EXCEPT !.dirty = TRUE, !.loaded = TRUE]
             y == [x EXCEPT !.buf = @ \o s, !.writing = TRUE]
  <2>1. y = e1 /\ x.ondisk = e.ondisk /\ x.name = e.name
    BY <1>1 DEF File, b
  <2>2. v = Grown(w, f, s, x)
    BY DEF write_buffer
  <2>3. Grown(w, f, s, x) = LET n == [w EXCEPT !.files[f] = y]
                            IN IF x.ondisk THEN [n EXCEPT !.puts[x.name] = @ \cup {f}] ELSE n
    BY DEF Grown
  <2> HIDE DEF x, y, e1, v
  <2>4. QED
    BY <2>1, <2>2, <2>3
<1>6. CASE ~e.ondisk
  <2>1. v = u
    BY <1>5, <1>6
  <2>2. Tended(e, e1)
    BY <1>2, <1>6 DEF Tended, Entry
  <2> HIDE DEF e1, u, v
  <2>3. Good(u, d) /\ Alike(w, u)
    BY <1>2, <1>3, <2>2, TendedGood
  <2>4. Writing(w, u)
    BY <1>1, <1>3, <1>4, <2>3 DEF Writing, Entered, Around
  <2>5. Wrote1(w, u, d, s)
    BY <1>3, <2>3, <2>4 DEF Wrote1, Around
  <2>6. QED
    BY <2>1, <2>5 DEF v
<1>7. CASE e.ondisk
  <2> DEFINE ps == [w.puts EXCEPT ![e.name] = @ \cup {f}]
  <2>1. w.puts \in [Names -> SUBSET Nat] /\ e.name \in Names /\ f \in Nat /\ f # 0 /\ ~e.temp
    BY <1>1, <1>7, WorldParts DEF Entry
  <2>2. ps \in [Names -> SUBSET Nat]
    BY <2>1
  <2>3. u.puts = w.puts
    BY <1>3 DEF Around
  <2>4. v = [u EXCEPT !.puts = ps]
    BY <1>5, <1>7, <2>3
  <2>5. \A n \in Names : ps[n] = IF n = e.name THEN w.puts[n] \cup {f} ELSE w.puts[n]
    BY <2>1
  <2> HIDE DEF e1, u, v, ps
  <2>6. /\ v \in World /\ v.files = u.files /\ v.handle = u.handle /\ v.opened = u.opened
        /\ v.disk = u.disk /\ v.strs = u.strs /\ v.puts = ps /\ v.shown = u.shown
        /\ v.stdin = u.stdin /\ v.old = u.old /\ v.out = u.out /\ v.said = u.said /\ v.nul = u.nul
    BY <1>3, <2>2, <2>4 DEF World
  <2>7. Alike(w, v)
    BY <1>2, <1>3, <2>6 DEF Alike, Like, Entered, Around
  <2>8. Table(v)
    <3>1. \A g \in 1 .. Len(v.files) : Entry(v.files[g])
      BY <1>2, <1>3, <2>6 DEF Entered, Good, Table
    <3>2. Len(w.files) >= 4 /\ Len(w.files) \in Nat /\ f # StandIn
      BY <1>7, WorldParts DEF Good, Table
    <3>3. v.files[StandIn] = w.files[StandIn]
      BY <1>3, <2>6, <3>2 DEF Entered, StandIn
    <3>4. QED
      BY <2>7, <3>1, <3>2, <3>3, SMTT(60) DEF Good, Table, Alike, Like
  <2>9. ASSUME NEW n \in Names PROVE Saving(v, n, d)
    <3>1. Saving(w, n, d) /\ w.puts[n] \subseteq Nat
      BY <2>1, <2>9 DEF Good, Saved
    <3>2. /\ v.puts[n] = (IF n = e.name THEN w.puts[n] \cup {f} ELSE w.puts[n])
          /\ Len(v.files) = Len(w.files) /\ v.disk = w.disk /\ v.files[f] = e1
          /\ \A g \in 1 .. Len(w.files) : g # f => v.files[g] = w.files[g]
      BY <1>3, <2>5, <2>6 DEF Entered, Around
    <3>3. e1.name = e.name /\ e1.temp = e.temp
      BY <1>2 DEF Like
    <3>4. ASSUME NEW g \in v.puts[n] PROVE Wrote(v, n, g)
      <4>1. CASE g \in w.puts[n] /\ g # f
        BY <3>1, <3>2, <4>1 DEF Saving, Wrote
      <4>2. CASE g \in w.puts[n] /\ g = f
        BY <1>2, <1>7, <2>1, <3>1, <3>2, <3>3, <4>2 DEF Saving, Wrote
      <4>3. CASE g \notin w.puts[n]
        BY <1>2, <1>7, <2>1, <3>2, <3>3, <4>3 DEF Wrote
      <4>4. QED
        BY <4>1, <4>2, <4>3
    <3>5. CASE n = e.name
      <4>1. \A g \in v.puts[n] \ {0} : v.puts[n] = {g} => g = f
        BY <3>2, <3>5
      <4>2. Waits(v.files[f]) /\ v.puts[n] # {}
        BY <1>2, <3>2, <3>5 DEF Waits
      <4>3. QED
        BY <3>1, <3>2, <3>4, <3>5, <4>1, <4>2, SMTT(30) DEF Saving
    <3>6. CASE n # e.name
      <4>1. \A g \in w.puts[n] \ {0} : w.puts[n] = {g} => g \in 1 .. Len(w.files) /\ g # f
        BY <3>1, <3>6 DEF Saving, Wrote
      <4>2. v.puts[n] = w.puts[n] /\ v.disk[n] = w.disk[n]
        BY <3>2, <3>6
      <4>3. \A g \in 1 .. Len(w.files) : v.files[g].name = n => v.files[g] = w.files[g]
        BY <3>2, <3>3, <3>6
      <4>4. \A g \in w.puts[n] \ {0} :
              w.puts[n] = {g} => Waits(v.files[g]) \/ v.disk[n] = v.files[g].buf
        BY <3>1, <3>2, <4>1, <4>2 DEF Saving
      <4>5. QED
        BY <3>1, <3>2, <3>4, <4>2, <4>3, <4>4 DEF Saving
    <3>7. QED
      BY <3>5, <3>6
  <2>10. Good(v, d)
    BY <2>6, <2>8, <2>9 DEF Good, Saved
  <2>11. Writing(w, v)
    BY <1>1, <1>3, <1>4, <2>6, <2>7 DEF Writing, Entered, Around
  <2>12. Wrote1(w, v, d, s)
    BY <1>3, <2>6, <2>10, <2>11 DEF Wrote1, Around
  <2>13. QED
    BY <2>12 DEF v
<1>8. QED
  BY <1>6, <1>7

(* A text for any file. *)
LEMMA FileOut ==
  ASSUME NEW d, NEW w \in World, Good(w, d), NEW f \in 1 .. Len(w.files), NEW s \in Text
  PROVE  Wrote1(w, file_out(w, f, s), d, s)
<1>1. CASE f \in {StandOut, StandError}
  BY <1>1, OutText DEF file_out
<1>2. CASE f \notin {StandOut, StandError} /\ w.files[f].assoc \in Vars
  BY <1>2, StringOut
<1>3. CASE f \notin {StandOut, StandError} /\ w.files[f].assoc \notin Vars
  <2>1. w.files[f].assoc = Nobody
    BY <1>3, WorldParts, FileParts
  <2>2. file_out(w, f, s) = write_buffer(w, f, s)
    BY <1>3 DEF file_out
  <2>3. QED
    BY <2>1, <2>2, BufferOut
<1>4. QED
  BY <1>1, <1>2, <1>3

(* What has been cut stays cut until it is purged. *)
LEMMA NulSet ==
  ASSUME NEW d, NEW w \in World, Good(w, d), NEW b \in BOOLEAN
  PROVE  LET v == [w EXCEPT !.nul = b]
         IN v \in World /\ Good(v, d) /\ Writing(w, v) /\ v.nul = b
            /\ v.stdin = w.stdin /\ v.strs = w.strs /\ v.out = w.out /\ v.said = w.said
            /\ v.files = w.files
<1> DEFINE v == [w EXCEPT !.nul = b]
<1>1. /\ v \in World /\ v.files = w.files /\ v.handle = w.handle /\ v.opened = w.opened
      /\ v.disk = w.disk /\ v.strs = w.strs /\ v.puts = w.puts /\ v.shown = w.shown
      /\ v.stdin = w.stdin /\ v.old = w.old /\ v.out = w.out /\ v.said = w.said /\ v.nul = b
  BY DEF World
<1> HIDE DEF v
<1>2. Good(v, d) /\ Alike(w, v)
  BY <1>1, SameGood DEF SameTable
<1>3. w.out \o <<>> = w.out /\ w.said \o <<>> = w.said /\ <<>> \in Text
  BY WorldParts, Joined DEF Text
<1>4. Writing(w, v)
  BY <1>1, <1>2, <1>3 DEF Writing
<1>5. QED
  BY <1>1, <1>2, <1>4 DEF v

(* Texts are written one after the other, and each begins afresh. *)
Printed(w, f, items, g) ==
  /\ g[0] = w
  /\ \A n \in 1 .. Len(items) : g[n] = [file_out(g[n - 1], f, items[n]) EXCEPT !.nul = FALSE]
  /\ print_items(w, f, items) = g[Len(items)]
(* The texts written so far, for every number of them. *)
LEMMA PrintItemsLoop ==
  ASSUME NEW w, NEW f, NEW items, Len(items) \in Nat
  PROVE  \E g : Printed(w, f, items, g)
<1> DEFINE k == Len(items)
           Next1(v, n) == [file_out(v, f, items[n]) EXCEPT !.nul = FALSE]
           Def(g, m) == g = [n \in 0 .. m |-> IF n = 0 THEN w ELSE Next1(g[n - 1], n)]
           S == {m \in Nat : \E g : Def(g, m)}
<1>1. 0 \in S
  <2>1. Def([n \in 0 .. 0 |-> w], 0)
    OBVIOUS
  <2>2. QED
    BY <2>1
<1>2. ASSUME NEW m \in Nat, m \in S PROVE m + 1 \in S
  <2>1. PICK g : Def(g, m)
    BY <1>2
  <2> DEFINE h == [n \in 0 .. m + 1 |-> IF n = m + 1 THEN Next1(g[m], m + 1) ELSE g[n]]
  <2> HIDE DEF Next1
  <2>2. ASSUME NEW n \in 0 .. m + 1
        PROVE  h[n] = IF n = 0 THEN w ELSE Next1(h[n - 1], n)
    BY <2>1
  <2>3. h = [n \in 0 .. m + 1 |-> h[n]]
    OBVIOUS
  <2> HIDE DEF h
  <2>4. [n \in 0 .. m + 1 |-> h[n]]
        = [n \in 0 .. m + 1 |-> IF n = 0 THEN w ELSE Next1(h[n - 1], n)]
    BY <2>2
  <2>5. Def(h, m + 1)
    BY <2>3, <2>4
  <2>6. QED
    BY <2>5
<1> HIDE DEF k
<1>3. k \in Nat
  BY DEF k
<1>4. k \in S
  <2> HIDE DEF S
  <2>1. \A i \in 0 .. k : i \in S /\ i < k => i + 1 \in S
    BY <1>2, <1>3
  <2>2. \A i \in 0 .. k : i \in S
    BY <1>1, <1>3, <2>1, Steps
  <2>3. QED
    BY <1>3, <2>2
<1> DEFINE c == CHOOSE g1 : Def(g1, k)
<1>5. Def(c, k)
  BY <1>4
<1>6. print_items(w, f, items) = c[k]
  BY DEF print_items, k
<1> HIDE DEF c, Next1
<1>7. c[0] = w /\ \A n \in 1 .. k : c[n] = Next1(c[n - 1], n)
  BY <1>3, <1>5
<1>8. Printed(w, f, items, c)
  BY <1>6, <1>7 DEF Next1, Printed, k
<1>9. QED
  BY <1>8

(* Texts are written as a single one is. *)
LEMMA PrintItems ==
  ASSUME NEW d, NEW w \in World, Good(w, d), NEW f \in 1 .. Len(w.files), NEW items \in Seq(Text)
  PROVE  LET v == print_items(w, f, items)
         IN v \in World /\ Good(v, d) /\ Writing(w, v) /\ (v.nul => w.nul)
<1> DEFINE k == Len(items)
           Done(v) == v \in World /\ Good(v, d) /\ Writing(w, v) /\ (v.nul => w.nul)
<1>1. k \in Nat /\ k = Len(items)
  OBVIOUS
<1> HIDE DEF k
<1>2. PICK g : Printed(w, f, items, g)
  BY <1>1, PrintItemsLoop
<1>3. /\ g[0] = w
      /\ \A n \in 1 .. k : g[n] = [file_out(g[n - 1], f, items[n]) EXCEPT !.nul = FALSE]
      /\ print_items(w, f, items) = g[k]
  BY <1>1, <1>2 DEF Printed
<1> DEFINE S == {n \in 0 .. k : Done(g[n])}
<1>4. 0 \in S
  BY <1>1, <1>3, WritingSelf
<1>5. ASSUME NEW n \in 0 .. k, n \in S, n < k PROVE n + 1 \in S
  <2> DEFINE u == g[n]
             s == items[n + 1]
             t == file_out(u, f, s)
             v == [t EXCEPT !.nul = FALSE]
  <2>1. Done(u)
    BY <1>5
  <2>2. /\ n + 1 \in 1 .. k /\ (n + 1) - 1 = n /\ g[n + 1] = v /\ s \in Text
    <3>1. n + 1 \in 1 .. k /\ (n + 1) - 1 = n
      BY <1>1, <1>5
    <3>2. s \in Text
      BY <1>1, <3>1
    <3>3. QED
      BY <1>3, <3>1, <3>2
  <2>3. f \in 1 .. Len(u.files)
    BY <2>1 DEF Writing, Alike
  <2> HIDE DEF u, s
  <2>4. t \in World /\ Good(t, d) /\ Writing(u, t)
    BY <2>1, <2>2, <2>3, FileOut DEF Wrote1
  <2> HIDE DEF t
  <2>5. v \in World /\ Good(v, d) /\ Writing(t, v) /\ v.nul = FALSE
    BY <2>4, NulSet
  <2> HIDE DEF v
  <2>6. Writing(u, v)
    BY <2>1, <2>4, <2>5, WritingTrans
  <2>7. Writing(w, v)
    BY <2>1, <2>5, <2>6, WritingTrans
  <2>8. QED
    BY <2>2, <2>5, <2>7
<1>6. k \in S
  <2> HIDE DEF S
  <2>1. \A n \in 0 .. k : n \in S /\ n < k => n + 1 \in S
    BY <1>5
  <2>2. \A n \in 0 .. k : n \in S
    BY <1>1, <1>4, <2>1, Steps
  <2>3. QED
    BY <1>1, <2>2
<1>7. QED
  BY <1>3, <1>6

-----------------------------------------------------------------------------
(* New entries, and string files that go. *)

(* What calls in progress know of the files stays true: an entry they use is there, a string
   file or not as before; the buffer of a string is as it was, or has been taken from it. *)
Carries(w, v) ==
  /\ Len(w.files) <= Len(v.files) /\ v.old = w.old
  /\ Len(w.shown) <= Len(v.shown) /\ Len(w.said) <= Len(v.said)
  /\ \A g \in 1 .. Len(w.files) :
       LET a == v.files[g].assoc
       IN /\ v.files[g].temp = w.files[g].temp
          /\ a \in Vars /\ v.files[g].loaded =>
               \/ w.files[g].assoc = a /\ w.files[g].loaded /\ v.files[g].buf = w.files[g].buf
               \/ w.files[g].assoc = a /\ v.files[g].buf = w.strs[a]
               \/ v.files[g].buf = v.strs[a]
(* Operations on files carry what calls know. *)
LEMMA WorksCarries ==
  ASSUME NEW w \in World, NEW v \in World, Works(w, v)
  PROVE  Carries(w, v)
<1>1. Len(w.files) \in Nat /\ Len(v.files) = Len(w.files)
  BY WorldParts DEF Works, Alike
<1>2. \A g \in 1 .. Len(w.files) :
        v.files[g].temp = w.files[g].temp /\ v.files[g].assoc = w.files[g].assoc
  BY DEF Works, Alike, Like
<1>3. QED
  BY <1>1, <1>2 DEF Works, Carries

(* an entry as it is made: nothing of it is to be saved, and no string is in its buffer *)
New(e) ==
  /\ e \in File /\ Entry(e) /\ ~e.dirty /\ (e.assoc \in Vars => ~e.loaded)

(* What a good world with some of its files is. *)
LEMMA SameFiles ==
  ASSUME NEW d, NEW w, Good(w, d), NEW v \in World, v.files = w.files, v.disk = w.disk,
         v.puts = w.puts
  PROVE  Good(v, d)
BY DEF Good, Table, Saved, Saving, Wrote, Waits

(* An entry is put behind the others. *)
LEMMA PushGood ==
  ASSUME NEW d, NEW w \in World, Good(w, d), NEW e, New(e)
  PROVE  LET v == file_push(w, e)
         IN /\ v \in World /\ Good(v, d) /\ Carries(w, v) /\ Apart(w, v) /\ v.disk = w.disk
            /\ Len(v.files) = Len(w.files) + 1 /\ v.files[Len(w.files) + 1] = e
            /\ \A g \in 1 .. Len(w.files) : v.files[g] = w.files[g]
            /\ v.handle = w.handle /\ v.opened = w.opened
            /\ Held(w) => Held(v)
<1> DEFINE v == file_push(w, e)
           fs == Append(w.files, e)
<1>1. w.files \in Seq(File) /\ Len(w.files) \in Nat /\ e \in File
  BY WorldParts DEF New
<1>2. /\ fs \in Seq(File) /\ Len(fs) = Len(w.files) + 1 /\ fs[Len(w.files) + 1] = e
      /\ \A g \in 1 .. Len(w.files) : fs[g] = w.files[g]
  BY <1>1
<1>3. v = [w EXCEPT !.files = fs]
  BY DEF file_push
<1> HIDE DEF fs, v
<1>4. /\ v \in World /\ v.files = fs /\ v.handle = w.handle /\ v.opened = w.opened
      /\ v.disk = w.disk /\ v.strs = w.strs /\ v.puts = w.puts /\ v.shown = w.shown
      /\ v.stdin = w.stdin /\ v.old = w.old /\ v.out = w.out /\ v.said = w.said /\ v.nul = w.nul
  BY <1>2, <1>3 DEF World
<1>5. Table(v)
  <2>1. \A g \in 1 .. Len(v.files) : Entry(v.files[g])
    <3>1. \A g \in 1 .. Len(w.files) : Entry(w.files[g])
      BY DEF Good, Table
    <3>2. Entry(e) /\ v.files = fs
      BY <1>4 DEF New
    <3>3. QED
      BY <1>1, <1>2, <3>1, <3>2
  <2>2. QED
    <3>1. /\ Len(w.files) >= 4 /\ \A g \in 1 .. 4 : ~w.files[g].temp
          /\ ~w.files[StandIn].ondisk /\ w.files[StandIn].assoc = Nobody
      BY DEF Good, Table
    <3>2. \A g \in 1 .. 4 : v.files[g] = w.files[g]
      BY <1>1, <1>2, <1>4, <3>1
    <3>3. Len(v.files) >= 4 /\ StandIn \in 1 .. 4
      BY <1>1, <1>2, <1>4, <3>1 DEF StandIn
    <3>4. QED
      BY <2>1, <3>1, <3>2, <3>3 DEF Table
<1>6. ASSUME NEW n \in Names PROVE Saving(v, n, d)
  <2>1. Saving(w, n, d) /\ v.puts[n] = w.puts[n] /\ v.disk[n] = w.disk[n]
    BY <1>4, <1>6 DEF Good, Saved
  <2>2. \A g \in w.puts[n] : Wrote(v, n, g)
    BY <1>1, <1>2, <1>4, <2>1 DEF Saving, Wrote
  <2>3. \A g \in 1 .. Len(v.files) : v.files[g].dirty => g \in 1 .. Len(w.files)
    BY <1>1, <1>2, <1>4 DEF New
  <2>4. \A g \in w.puts[n] \ {0} : v.files[g] = w.files[g]
    BY <1>2, <1>4, <2>1 DEF Saving, Wrote
  <2>5. \A g \in 1 .. Len(v.files) :
          v.files[g].ondisk /\ v.files[g].dirty /\ v.files[g].name = n => g \in v.puts[n]
    BY <1>2, <1>4, <2>1, <2>3 DEF Saving
  <2>6. QED
    BY <2>1, <2>2, <2>4, <2>5 DEF Saving
<1>7. Good(v, d)
  BY <1>4, <1>5, <1>6 DEF Good, Saved
<1>8. Carries(w, v)
  <2>1. Len(w.shown) <= Len(w.shown) /\ Len(w.said) <= Len(w.said)
    BY WorldParts, Joined DEF Text
  <2>2. Len(w.files) <= Len(v.files)
    BY <1>1, <1>2, <1>4
  <2>3. QED
    BY <1>2, <1>4, <2>1, <2>2 DEF Carries
<1>9. Held(w) => Held(v)
  <2>1. ASSUME Held(w), NEW h \in Handles, v.handle[h] # 0
        PROVE  /\ v.handle[h] \in 5 .. Len(v.files)
               /\ Denotes(v.files[v.handle[h]]) = v.opened[h] /\ ~v.files[v.handle[h]].temp
    <3>1. /\ w.handle[h] \in 5 .. Len(w.files) /\ v.handle[h] = w.handle[h]
          /\ Denotes(w.files[w.handle[h]]) = w.opened[h] /\ ~w.files[w.handle[h]].temp
      BY <1>4, <2>1 DEF Held
    <3>2. v.files[w.handle[h]] = w.files[w.handle[h]] /\ w.handle[h] \in 5 .. Len(v.files)
      BY <1>1, <1>2, <1>4, <3>1
    <3>3. QED
      BY <1>4, <3>1, <3>2
  <2>2. QED
    BY <2>1 DEF Held
<1>10. QED
  BY <1>2, <1>4, <1>7, <1>8, <1>9 DEF v, Apart

(* The entry of a string file goes. *)
LEMMA PopGood ==
  ASSUME NEW d, NEW w \in World, Good(w, d), NEW f \in 1 .. Len(w.files), w.files[f].temp
  PROVE  LET v == file_pop(w, f)
         IN /\ v \in World /\ Good(v, d) /\ Apart(w, v) /\ v.disk = w.disk
            /\ Len(v.files) \in f - 1 .. Len(w.files)
            /\ \A g \in 1 .. Len(v.files) : v.files[g] = w.files[g]
            /\ \A g \in 1 .. Len(w.files) : g # f => g \in 1 .. Len(v.files)
            /\ Held(w) => Held(v)
<1> DEFINE v == file_pop(w, f)
           fs == Front(w.files)
<1>1. w.files \in Seq(File) /\ Len(w.files) \in Nat /\ f > 4 /\ f \in Nat
  BY WorldParts DEF Good, Table
<1>2. CASE f # Len(w.files)
  <2>1. v = w
    BY <1>2 DEF file_pop
  <2>2. Apart(w, w) /\ Len(w.files) \in f - 1 .. Len(w.files)
    BY <1>1 DEF Apart
  <2>3. QED
    BY <2>1, <2>2
<1>3. CASE f = Len(w.files)
  <2>1. /\ fs \in Seq(File) /\ Len(fs) = f - 1
        /\ \A g \in 1 .. f - 1 : fs[g] = w.files[g]
    BY <1>1, <1>3 DEF Front
  <2>2. v = [w EXCEPT !.files = fs]
    BY <1>3 DEF file_pop
  <2> HIDE DEF fs, v
  <2>3. /\ v \in World /\ v.files = fs /\ v.handle = w.handle /\ v.opened = w.opened
        /\ v.disk = w.disk /\ v.strs = w.strs /\ v.puts = w.puts /\ v.shown = w.shown
        /\ v.stdin = w.stdin /\ v.old = w.old /\ v.out = w.out /\ v.said = w.said /\ v.nul = w.nul
    BY <2>1, <2>2 DEF World
  <2>4. /\ Len(v.files) = f - 1 /\ f - 1 >= 4 /\ f - 1 <= f
        /\ \A g \in 1 .. f - 1 : v.files[g] = w.files[g] /\ g \in 1 .. Len(w.files) /\ g # f
        /\ \A g \in 1 .. Len(w.files) : g # f => g \in 1 .. f - 1
    BY <1>1, <1>3, <2>1, <2>3
  <2>5. Table(v)
    <3>1. Table(w)
      BY DEF Good
    <3>2. \A g \in 1 .. 4 : g \in 1 .. f - 1
      BY <1>1, <2>4
    <3>3. QED
      BY <2>4, <3>1, <3>2 DEF Table, StandIn
  <2>6. ASSUME NEW n \in Names PROVE Saving(v, n, d)
    <3>1. Saving(w, n, d) /\ v.puts[n] = w.puts[n] /\ v.disk[n] = w.disk[n]
      BY <2>3, <2>6 DEF Good, Saved
    <3>2. \A g \in w.puts[n] : g # 0 => g \in 1 .. f - 1 /\ v.files[g] = w.files[g]
      BY <2>4, <3>1 DEF Saving, Wrote
    <3>3. \A g \in w.puts[n] : Wrote(v, n, g)
      BY <2>4, <3>1, <3>2 DEF Saving, Wrote
    <3>4. \A g \in 1 .. Len(v.files) :
            v.files[g].ondisk /\ v.files[g].dirty /\ v.files[g].name = n => g \in v.puts[n]
      BY <2>4, <3>1 DEF Saving
    <3>5. QED
      BY <3>1, <3>2, <3>3, <3>4 DEF Saving
  <2>7. Good(v, d)
    BY <2>3, <2>5, <2>6 DEF Good, Saved
  <2>8. Held(w) => Held(v)
    <3>1. ASSUME Held(w), NEW h \in Handles, v.handle[h] # 0
          PROVE  /\ v.handle[h] \in 5 .. Len(v.files)
                 /\ Denotes(v.files[v.handle[h]]) = v.opened[h] /\ ~v.files[v.handle[h]].temp
      <4>1. /\ w.handle[h] \in 5 .. Len(w.files) /\ v.handle[h] = w.handle[h]
            /\ Denotes(w.files[w.handle[h]]) = w.opened[h] /\ ~w.files[w.handle[h]].temp
        BY <2>3, <3>1 DEF Held
      <4>2. w.handle[h] \in 1 .. f - 1 /\ w.handle[h] >= 5
        BY <1>1, <2>4, <4>1
      <4>3. v.files[w.handle[h]] = w.files[w.handle[h]] /\ w.handle[h] \in 5 .. Len(v.files)
        BY <1>1, <2>4, <4>2
      <4>4. QED
        BY <2>3, <4>1, <4>3
    <3>2. QED
      BY <3>1 DEF Held
  <2>9. f - 1 \in f - 1 .. Len(w.files)
    BY <1>1, <1>3
  <2>10. QED
    BY <2>3, <2>4, <2>7, <2>8, <2>9 DEF v, Apart
<1>4. QED
  BY <1>2, <1>3

(* What a file procedure that gives a file a new entry does. *)
Renews(w, v, d) ==
  v \in World /\ Good(v, d) /\ Held(v) /\ Carries(w, v) /\ Apart(w, v)

(* A REF FILE variable gets a new entry. *)
LEMMA NewHandle ==
  ASSUME NEW d, NEW w \in World, Good(w, d), Held(w), NEW e, New(e), ~e.temp, NEW h \in Handles
  PROVE  Renews(w, file_new(w, h, e), d)
<1> DEFINE u == file_push(w, e)
           k == Len(w.files) + 1
           hs == [w.handle EXCEPT ![h] = k]
           os == [w.opened EXCEPT ![h] = Denotes(e)]
           v == file_new(w, h, e)
<1>1. /\ u \in World /\ Good(u, d) /\ Carries(w, u) /\ Apart(w, u) /\ u.disk = w.disk
      /\ Len(u.files) = k /\ u.files[k] = e /\ u.handle = w.handle /\ u.opened = w.opened
      /\ Held(u)
  BY PushGood
<1>2. e \in File /\ Denotes(e) \in Denoted /\ k \in 5 .. k /\ k \in Nat
  <2>1. e \in File
    BY DEF New
  <2>2. e.name \in Names \cup {Nobody} /\ e.assoc \in Vars \cup {Nobody}
    BY <2>1, FileParts
  <2>3. Len(w.files) >= 4 /\ Len(w.files) \in Nat
    BY WorldParts DEF Good, Table
  <2>4. QED
    BY <2>1, <2>2, <2>3 DEF Denotes, Denoted
<1>3. hs \in [Handles -> Nat] /\ os \in [Handles -> Denoted \cup {Nobody}]
  BY <1>2, WorldParts
<1>4. v = [u EXCEPT !.handle = hs, !.opened = os]
  BY <1>1 DEF file_new, World
<1>5. \A g \in Handles : /\ hs[g] = IF g = h THEN k ELSE w.handle[g]
                         /\ os[g] = IF g = h THEN Denotes(e) ELSE w.opened[g]
  BY WorldParts
<1> HIDE DEF u, hs, os, v, k
<1>6. /\ v \in World /\ v.files = u.files /\ v.handle = hs /\ v.opened = os
      /\ v.disk = u.disk /\ v.strs = u.strs /\ v.puts = u.puts /\ v.shown = u.shown
      /\ v.stdin = u.stdin /\ v.old = u.old /\ v.out = u.out /\ v.said = u.said /\ v.nul = u.nul
  BY <1>1, <1>3, <1>4 DEF World
<1>7. Good(v, d)
  BY <1>1, <1>6, SameFiles
<1>8. Held(v)
  <2>1. ASSUME NEW g \in Handles, v.handle[g] # 0
        PROVE  /\ v.handle[g] \in 5 .. Len(v.files)
               /\ Denotes(v.files[v.handle[g]]) = v.opened[g] /\ ~v.files[v.handle[g]].temp
    <3>1. CASE g = h
      BY <1>1, <1>2, <1>5, <1>6, <3>1
    <3>2. CASE g # h
      BY <1>1, <1>5, <1>6, <2>1, <3>2 DEF Held
    <3>3. QED
      BY <3>1, <3>2
  <2>2. QED
    BY <2>1 DEF Held
<1>9. Carries(w, v) /\ Apart(w, v)
  BY <1>1, <1>6 DEF Carries, Apart
<1>10. Renews(w, v, d)
  BY <1>6, <1>7, <1>8, <1>9 DEF Renews
<1>11. QED
  BY <1>10 DEF v

(* A FILE value has its entry replaced, with the text it has not saved. *)
LEMMA NewEntry ==
  ASSUME NEW d, NEW w \in World, Good(w, d), Held(w), NEW e, New(e), ~e.temp,
         NEW f \in 1 .. Len(w.files), f # StandIn, ~w.files[f].temp
  PROVE  Renews(w, file_new(w, f, e), d)
<1> DEFINE u == [w EXCEPT !.files[f] = e]
           ps == Lose(w, f)
           os == [h \in Handles |-> IF w.handle[h] = f THEN Denotes(e) ELSE w.opened[h]]
           v == file_new(w, f, e)
<1>1. f \notin Handles /\ f \in Nat /\ f # 0
  BY Tokens
<1>2. e \in File
  BY DEF New
<1>3. u \in World /\ Entered(w, f, e, u) /\ Around(w, u)
  BY <1>2, EntrySet
<1>4. v = [u EXCEPT !.puts = ps, !.opened = os]
  BY <1>1 DEF file_new, World
<1>5. ps \in [Names -> SUBSET Nat] /\ os \in [Handles -> Denoted \cup {Nobody}]
  <2>1. Denotes(e) \in Denoted
    BY <1>2, FileParts DEF Denotes, Denoted
  <2>2. w.puts \in [Names -> SUBSET Nat] /\ w.opened \in [Handles -> Denoted \cup {Nobody}]
    BY WorldParts
  <2>3. QED
    BY <2>1, <2>2 DEF Lose
<1>6. \A n \in Names : ps[n] = IF w.files[f].name = n /\ f \in w.puts[n]
                               THEN w.puts[n] \cup {0} ELSE w.puts[n]
  BY DEF Lose
<1>7. \A h \in Handles : os[h] = IF w.handle[h] = f THEN Denotes(e) ELSE w.opened[h]
  OBVIOUS
<1> HIDE DEF u, ps, os, v
<1>8. /\ v \in World /\ v.files = u.files /\ v.handle = u.handle /\ v.opened = os
      /\ v.disk = u.disk /\ v.strs = u.strs /\ v.puts = ps /\ v.shown = u.shown
      /\ v.stdin = u.stdin /\ v.old = u.old /\ v.out = u.out /\ v.said = u.said /\ v.nul = u.nul
  BY <1>3, <1>4, <1>5 DEF World
<1>9. /\ Len(v.files) = Len(w.files) /\ v.files[f] = e /\ v.disk = w.disk
      /\ \A g \in 1 .. Len(w.files) : g # f => v.files[g] = w.files[g]
  BY <1>3, <1>8 DEF Entered, Around
<1>10. Table(v)
  <2>1. \A g \in 1 .. Len(v.files) : Entry(v.files[g])
    BY <1>9 DEF New, Good, Table
  <2>2. Len(w.files) >= 4 /\ Len(w.files) \in Nat
    BY WorldParts DEF Good, Table
  <2>3. QED
    <3>1. /\ \A g \in 1 .. 4 : ~w.files[g].temp
          /\ ~w.files[StandIn].ondisk /\ w.files[StandIn].assoc = Nobody
      BY DEF Good, Table
    <3>2. \A g \in 1 .. 4 : ~v.files[g].temp
      <4>1. \A g \in 1 .. 4 : g \in 1 .. Len(w.files)
        BY <2>2
      <4>2. \A g \in 1 .. 4 : v.files[g] = w.files[g] \/ v.files[g] = e
        BY <1>9, <4>1
      <4>3. QED
        BY <3>1, <4>2
    <3>3. v.files[StandIn] = w.files[StandIn]
      BY <1>9, <2>2 DEF StandIn
    <3>4. QED
      BY <1>9, <2>1, <2>2, <3>1, <3>2, <3>3 DEF Table
<1>11. ASSUME NEW n \in Names PROVE Saving(v, n, d)
  <2>1. /\ Saving(w, n, d) /\ w.puts[n] \subseteq Nat
        /\ v.puts[n] = IF w.files[f].name = n /\ f \in w.puts[n]
                       THEN w.puts[n] \cup {0} ELSE w.puts[n]
    BY <1>6, <1>8, <1>11, WorldParts DEF Good, Saved
  <2>2. ASSUME NEW g \in v.puts[n] PROVE Wrote(v, n, g)
    <3>1. CASE g = 0
      BY <3>1 DEF Wrote
    <3>2. CASE g # 0 /\ g # f
      BY <1>9, <2>1, <3>2 DEF Saving, Wrote
    <3>3. CASE g = f
      BY <1>1, <1>9, <2>1, <3>3 DEF Saving, Wrote
    <3>4. QED
      BY <3>1, <3>2, <3>3
  <2>3. \A g \in 1 .. Len(v.files) :
          v.files[g].ondisk /\ v.files[g].dirty /\ v.files[g].name = n => g \in v.puts[n]
    BY <1>9, <2>1 DEF Saving, New
  <2>4. ASSUME NEW g \in v.puts[n] \ {0}, v.puts[n] = {g}
        PROVE  Waits(v.files[g]) \/ v.disk[n] = v.files[g].buf
    <3>1. w.puts[n] = {g} /\ 0 \notin w.puts[n]
      BY <2>1, <2>4, SMTT(30)
    <3>2. g # f
      BY <1>1, <2>1, <2>4, <3>1 DEF Saving, Wrote
    <3>3. v.files[g] = w.files[g]
      BY <1>9, <2>1, <2>4, <3>1, <3>2 DEF Saving, Wrote
    <3>4. QED
      BY <1>9, <2>1, <2>4, <3>1, <3>3 DEF Saving
  <2>5. v.puts[n] = {} => v.disk[n] \in {d[n], Nobody}
    BY <1>9, <2>1 DEF Saving
  <2>6. QED
    BY <2>2, <2>3, <2>4, <2>5 DEF Saving
<1>12. Good(v, d)
  BY <1>8, <1>10, <1>11 DEF Good, Saved
<1>13. Held(v)
  <2>1. ASSUME NEW h \in Handles, v.handle[h] # 0
        PROVE  /\ v.handle[h] \in 5 .. Len(v.files)
               /\ Denotes(v.files[v.handle[h]]) = v.opened[h] /\ ~v.files[v.handle[h]].temp
    <3>1. /\ v.handle[h] = w.handle[h] /\ w.handle[h] \in 5 .. Len(w.files)
          /\ Denotes(w.files[w.handle[h]]) = w.opened[h] /\ ~w.files[w.handle[h]].temp
      BY <1>3, <1>8, <2>1 DEF Held, Around
    <3>2. CASE w.handle[h] = f
      BY <1>7, <1>8, <1>9, <3>1, <3>2
    <3>3. CASE w.handle[h] # f
      BY <1>7, <1>8, <1>9, <3>1, <3>3
    <3>4. QED
      BY <3>2, <3>3
  <2>2. QED
    BY <2>1 DEF Held
<1>14. Carries(w, v)
  <2>1. Len(w.shown) <= Len(w.shown) /\ Len(w.said) <= Len(w.said) /\ Len(w.files) \in Nat
    BY WorldParts, Joined DEF Text
  <2>2. e.temp = w.files[f].temp
    BY <1>2, FileParts, WorldParts
  <2>3. QED
    BY <1>3, <1>8, <1>9, <2>1, <2>2 DEF Carries, New, Around
<1>15. Renews(w, v, d)
  BY <1>3, <1>8, <1>12, <1>13, <1>14 DEF Renews, Apart, Around
<1>16. QED
  BY <1>15 DEF v

(* A file is rewound when it has been saved. *)
LEMMA RewoundGood ==
  ASSUME NEW d, NEW w \in World, Good(w, d), NEW f \in 1 .. Len(w.files)
  PROVE  LET v == rewound(file_flush(w, f), f)
         IN v \in World /\ Good(v, d) /\ Works(w, v) /\ Apart(w, v)
<1> DEFINE u == file_flush(w, f)
           e == u.files[f]
           l == e.assoc = Nobody
           e1 == [e EXCEPT !.pos = 0, !.reading = FALSE, !.writing = FALSE, !.loaded = l]
           v == rewound(u, f)
<1>1. u \in World /\ Good(u, d) /\ Saves(w, f, u)
  BY FlushGood
<1>2. Len(u.files) = Len(w.files)
  BY <1>1 DEF Saves, Alike
<1> HIDE DEF u
<1>3. v = [u EXCEPT !.files[f] = e1]
  BY DEF rewound
<1>4. e \in File /\ Entry(e) /\ l \in BOOLEAN /\ Nobody \notin Vars
  BY <1>1, <1>2, Tokens, WorldParts DEF Good, Table
<1>5. /\ e1 \in File /\ Like(e, e1) /\ e1.ondisk = e.ondisk /\ e1.dirty = e.dirty
      /\ e1.buf = e.buf /\ Entry(e1) /\ (e1.assoc \in Vars => ~e1.loaded)
  <2> HIDE DEF l
  <2>1. /\ e1 \in File /\ Like(e, e1) /\ e1.ondisk = e.ondisk /\ e1.dirty = e.dirty
        /\ e1.buf = e.buf /\ e1.loaded = l /\ e1.on_end = e.on_end /\ e1.on_value = e.on_value
        /\ e1.on_line = e.on_line
    BY <1>4 DEF File, Like
  <2> HIDE DEF e1
  <2>2. QED
    BY <1>4, <2>1 DEF Like, Entry, l
<1> HIDE DEF e1, v
<1>6. v \in World /\ Entered(u, f, e1, v) /\ Around(u, v)
  BY <1>1, <1>2, <1>3, <1>5, EntrySet
<1>7. Alike(u, v)
  BY <1>5, <1>6 DEF Alike, Like, Entered, Around
<1>8. Table(v)
  <2>1. \A g \in 1 .. Len(v.files) : Entry(v.files[g])
    BY <1>1, <1>5, <1>6 DEF Entered, Good, Table
  <2>2. Len(u.files) >= 4 /\ Len(u.files) \in Nat /\ Table(u)
    BY <1>1, WorldParts DEF Good, Table
  <2>3. \A g \in 1 .. Len(u.files) :
          v.files[g].ondisk = u.files[g].ondisk /\ Like(u.files[g], v.files[g])
    BY <1>5, <1>6, <1>7 DEF Entered, Alike
  <2>4. Len(v.files) = Len(u.files)
    BY <1>6 DEF Entered
  <2>5. \A g \in 1 .. 4 : g \in 1 .. Len(u.files)
    BY <2>2
  <2>6. \A g \in 1 .. 4 : ~v.files[g].temp
    BY <2>2, <2>3, <2>5 DEF Table, Like
  <2>7. ~v.files[StandIn].ondisk /\ v.files[StandIn].assoc = Nobody
    <3>1. StandIn \in 1 .. Len(u.files)
      BY <2>2 DEF StandIn
    <3>2. QED
      BY <2>2, <2>3, <3>1 DEF Table, Like
  <2>8. QED
    BY <2>1, <2>2, <2>4, <2>6, <2>7 DEF Table
<1>9. ASSUME NEW n \in Names PROVE Saving(v, n, d)
  <2>1. Saving(u, n, d) /\ v.puts[n] = u.puts[n] /\ v.disk[n] = u.disk[n]
    BY <1>1, <1>6, <1>9 DEF Good, Saved, Around
  <2>2. /\ Len(v.files) = Len(u.files)
        /\ \A g \in 1 .. Len(u.files) :
             /\ Like(u.files[g], v.files[g]) /\ v.files[g].ondisk = u.files[g].ondisk
             /\ v.files[g].dirty = u.files[g].dirty /\ v.files[g].buf = u.files[g].buf
             /\ g # f => v.files[g] = u.files[g]
    BY <1>5, <1>6 DEF Entered, Like
  <2>3. \A g \in u.puts[n] : Wrote(v, n, g)
    BY <2>1, <2>2 DEF Saving, Wrote, Like
  <2>4. ASSUME NEW g \in u.puts[n] \ {0}, u.puts[n] = {g}
        PROVE  Waits(v.files[g]) \/ v.disk[n] = v.files[g].buf
    <3>1. g \in 1 .. Len(u.files) /\ u.files[g].ondisk
      BY <2>1, <2>4 DEF Saving, Wrote
    <3>2. Waits(u.files[g]) \/ u.disk[n] = u.files[g].buf
      BY <2>1, <2>4 DEF Saving
    <3>3. CASE g = f
      BY <1>1, <2>1, <2>2, <3>1, <3>2, <3>3 DEF Saves
    <3>4. CASE g # f
      BY <2>1, <2>2, <3>1, <3>2, <3>4
    <3>5. QED
      BY <3>3, <3>4
  <2>5. QED
    BY <2>1, <2>2, <2>3, <2>4 DEF Saving, Like
<1>10. Works(w, v) /\ Apart(w, v)
  <2>1. Alike(w, v)
    BY <1>1, <1>7, AlikeTrans DEF Saves
  <2>2. Apart(w, v)
    BY <1>1, <1>6 DEF Saves, Apart, Around
  <2>3. Len(w.shown) <= Len(w.shown) /\ Len(w.said) <= Len(w.said)
    BY WorldParts, Joined DEF Text
  <2>4. \A g \in 1 .. Len(w.files) : (w.files[g].assoc \in Vars /\ v.files[g].loaded) =>
          w.files[g].loaded /\ v.files[g].buf = w.files[g].buf
    BY <1>1, <1>2, <1>5, <1>6 DEF Saves, Alike, Like, Entered
  <2>5. QED
    BY <2>1, <2>2, <2>3, <2>4 DEF Works, Apart
<1>11. v \in World /\ Good(v, d) /\ Works(w, v) /\ Apart(w, v)
  BY <1>6, <1>8, <1>9, <1>10 DEF Good, Saved
<1>12. QED
  BY <1>11 DEF v, u

-----------------------------------------------------------------------------
(* The end of the program, and of calls left by a jump. *)

(* A text that another begins with. *)
LEMMA Prefix ==
  ASSUME NEW a \in Text, NEW b \in Text, Len(a) <= Len(b), \A i \in 1 .. Len(a) : a[i] = b[i]
  PROVE  IsPrefix(a, b)
<1>1. Len(a) \in Nat /\ Len(b) \in Nat
  BY DEF Text
<1> DEFINE s == SubSeq(a, 1, Len(a))
           t == SubSeq(b, 1, Len(a))
<1>2. /\ s \in Seq(Char) /\ t \in Seq(Char) /\ Len(s) = Len(a) /\ Len(t) = Len(a)
      /\ \A i \in 1 .. Len(a) : s[i] = a[i] /\ t[i] = b[i]
  BY <1>1 DEF Text
<1> HIDE DEF s, t
<1>3. s = t
  BY <1>2, SeqEqual
<1>4. QED
  BY <1>1, <1>3 DEF IsPrefix, s, t

(* The last of the output is shown, on a line of its own. *)
Shows(w, v) ==
  /\ v.files = w.files /\ v.handle = w.handle /\ v.opened = w.opened /\ v.disk = w.disk
  /\ v.strs = w.strs /\ v.puts = w.puts /\ v.said = w.said /\ v.stdin = w.stdin
  /\ v.nul = w.nul /\ v.old = w.old /\ v.out = <<>>
  /\ \E t \in Text : /\ Len(t) <= 1 /\ (w.out = <<>> => t = <<>>)
                     /\ v.shown = (w.shown \o w.out) \o t
(* The last of the output is shown so. *)
LEMMA FlushFinal ==
  ASSUME NEW w \in World
  PROVE  flush_final(w) \in World /\ Shows(w, flush_final(w))
<1> DEFINE v == flush_final(w)
<1>1. w.shown \in Text /\ w.out \in Text /\ <<>> \in Text
  BY WorldParts DEF Text
<1>2. w.shown \o w.out \in Text /\ (w.shown \o w.out) \o <<>> = w.shown \o w.out
  BY <1>1, Joined
<1>3. CASE ~(plan.regression /\ w.out # <<>> /\ Last(w.out) # Ended)
  <2>1. v = io_flush_out(w)
    BY <1>3 DEF flush_final
  <2> DEFINE s == w.shown \o w.out
  <2>2. v = [w EXCEPT !.shown = s, !.out = <<>>]
    BY <2>1 DEF io_flush_out, World
  <2>3. s \in Text /\ s = (w.shown \o w.out) \o <<>>
    BY <1>2
  <2> HIDE DEF s, v
  <2>4. /\ v \in World /\ v.files = w.files /\ v.handle = w.handle /\ v.opened = w.opened
        /\ v.disk = w.disk /\ v.strs = w.strs /\ v.puts = w.puts /\ v.said = w.said
        /\ v.stdin = w.stdin /\ v.nul = w.nul /\ v.old = w.old /\ v.out = <<>> /\ v.shown = s
    BY <1>1, <2>2, <2>3 DEF World
  <2>5. Len(<<>>) <= 1
    OBVIOUS
  <2>6. v \in World /\ Shows(w, v)
    BY <1>1, <2>3, <2>4, <2>5 DEF Shows
  <2>7. QED
    BY <2>6 DEF v
<1>4. CASE plan.regression /\ w.out # <<>> /\ Last(w.out) # Ended
  <2> DEFINE o == Append(w.out, Ended)
             u == [w EXCEPT !.out = o]
             s == w.shown \o o
  <2>1. v = io_flush_out(u)
    BY <1>4 DEF flush_final
  <2>2. <<Ended>> \in Text /\ Len(<<Ended>>) <= 1 /\ o = w.out \o <<Ended>> /\ o \in Text
    BY <1>1 DEF Text, Char, InText
  <2>3. u.shown = w.shown /\ u.out = o
    BY DEF World
  <2>4. v = [u EXCEPT !.shown = s, !.out = <<>>]
    <3> HIDE DEF o, u
    <3>1. v = [[u EXCEPT !.shown = u.shown \o u.out] EXCEPT !.out = <<>>]
      BY <2>1 DEF io_flush_out
    <3>2. QED
      BY <2>3, <3>1
  <2>5. s \in Text /\ s = (w.shown \o w.out) \o <<Ended>>
    <3> DEFINE t == <<Ended>>
    <3>1. t \in Text
      BY <2>2
    <3> HIDE DEF t
    <3>2. w.shown \o (w.out \o t) = (w.shown \o w.out) \o t
      BY <1>1, <3>1, Thrice, ZenonT(30)
    <3>3. (w.shown \o w.out) \o t \in Text
      BY <1>2, <3>1, Joined
    <3>4. s = w.shown \o (w.out \o t)
      BY <2>2 DEF t
    <3>5. QED
      BY <3>2, <3>3, <3>4 DEF t
  <2>6. v = [w EXCEPT !.shown = s, !.out = <<>>]
    <3> HIDE DEF o, s
    <3>1. QED
      BY <2>4 DEF World
  <2> HIDE DEF s, v, o, u
  <2>7. /\ v \in World /\ v.files = w.files /\ v.handle = w.handle /\ v.opened = w.opened
        /\ v.disk = w.disk /\ v.strs = w.strs /\ v.puts = w.puts /\ v.said = w.said
        /\ v.stdin = w.stdin /\ v.nul = w.nul /\ v.old = w.old /\ v.out = <<>> /\ v.shown = s
    BY <1>1, <2>5, <2>6 DEF World
  <2>8. v \in World /\ Shows(w, v)
    BY <1>4, <2>2, <2>5, <2>7 DEF Shows
  <2>9. QED
    BY <2>8 DEF v
<1>5. QED
  BY <1>3, <1>4

(* Text that has not been purged is dropped. *)
LEMMA Discard ==
  ASSUME NEW w \in World, pf \in PfState, io \in World
  PROVE  LET v == discard_unpurged(w)
         IN /\ v \in World
            /\ \E c \in Nat : /\ c >= pf.start
                              /\ v = [w EXCEPT !.out = IF c < Len(w.out) THEN SubSeq(w.out, 1, c) ELSE w.out]
<1> DEFINE lim == IF pf.item < Len(io.out) THEN pf.item ELSE Len(io.out)
           lines == {i \in pf.start + 1 .. lim : io.out[i] = Ended}
           cut == purged(pf.start, pf.item)
           v == discard_unpurged(w)
<1>1. pf.start \in Nat /\ pf.item \in Nat /\ Len(io.out) \in Nat /\ lim \in Nat
  BY WorldParts DEF PfState, Text
<1> HIDE DEF lim
<1>2. cut = IF lines = {} THEN pf.start ELSE CHOOSE i \in lines : \A j \in lines : j <= i
  BY DEF purged, lim
<1>3. cut \in Nat /\ cut >= pf.start
  <2>1. CASE lines = {}
    BY <1>1, <1>2, <2>1
  <2>2. CASE lines # {}
    <3> DEFINE T == {k \in 0 .. lim : lim - k \in lines}
    <3>1. T \subseteq Nat /\ T # {}
      <4>1. PICK i \in lines : TRUE
        BY <2>2
      <4>2. i \in pf.start + 1 .. lim /\ lim - (lim - i) = i /\ lim - i \in 0 .. lim
        BY <1>1
      <4>3. QED
        BY <1>1, <4>1, <4>2
    <3>2. PICK k \in T : \A y \in T : k <= y
      <4> HIDE DEF T
      <4>1. QED
        BY <3>1, LeastNumber
    <3>3. lim - k \in lines /\ \A j \in lines : j <= lim - k
      <4>1. ASSUME NEW j \in lines PROVE j <= lim - k
        <5>1. j \in pf.start + 1 .. lim /\ lim - (lim - j) = j /\ lim - j \in 0 .. lim
          BY <1>1
        <5>2. lim - j \in T
          BY <4>1, <5>1
        <5>3. k <= lim - j
          BY <3>2, <5>2
        <5>4. QED
          BY <1>1, <5>1, <5>3
      <4>2. QED
        BY <4>1
    <3>4. lines \subseteq Nat /\ \A i \in lines : i >= pf.start
      BY <1>1
    <3> HIDE DEF lines, T
    <3>5. cut \in lines
      BY <1>2, <2>2, <3>3
    <3> HIDE DEF cut
    <3>6. QED
      BY <3>4, <3>5
  <2>3. QED
    BY <2>1, <2>2
<1> HIDE DEF cut
<1>4. v = IF cut < Len(w.out) THEN [w EXCEPT !.out = SubSeq(@, 1, cut)] ELSE w
  BY DEF discard_unpurged, cut
<1> DEFINE s == IF cut < Len(w.out) THEN SubSeq(w.out, 1, cut) ELSE w.out
<1>5. v = [w EXCEPT !.out = s]
  BY <1>4 DEF World
<1>6. s \in Text
  <2>1. w.out \in Text
    BY WorldParts
  <2>2. QED
    BY <1>3, <2>1 DEF Text
<1> HIDE DEF v, s
<1>7. v \in World
  BY <1>5, <1>6 DEF World
<1>8. QED
  BY <1>3, <1>5, <1>7 DEF v, s

(* What a file holds is saved when the program ends, one file after the other. *)
Flushed(w, g) ==
  /\ g[0] = w /\ \A f \in 1 .. Len(w.files) : g[f] = file_flush(g[f - 1], f)
  /\ write_back(w) = g[Len(w.files)]
(* The files saved so far, for every number of them. *)
LEMMA WriteBackLoop ==
  ASSUME NEW w, Len(w.files) \in Nat
  PROVE  \E g : Flushed(w, g)
<1> DEFINE k == Len(w.files)
           Def(g, m) == g = [f \in 0 .. m |-> IF f = 0 THEN w ELSE file_flush(g[f - 1], f)]
           S == {m \in Nat : \E g : Def(g, m)}
<1>1. 0 \in S
  <2>1. Def([f \in 0 .. 0 |-> w], 0)
    OBVIOUS
  <2>2. QED
    BY <2>1
<1>2. ASSUME NEW m \in Nat, m \in S PROVE m + 1 \in S
  <2>1. PICK g : Def(g, m)
    BY <1>2
  <2> DEFINE h == [f \in 0 .. m + 1 |-> IF f = m + 1 THEN file_flush(g[m], m + 1) ELSE g[f]]
  <2>2. ASSUME NEW f \in 0 .. m + 1
        PROVE  h[f] = IF f = 0 THEN w ELSE file_flush(h[f - 1], f)
    BY <2>1
  <2>3. h = [f \in 0 .. m + 1 |-> h[f]]
    OBVIOUS
  <2> HIDE DEF h
  <2>4. [f \in 0 .. m + 1 |-> h[f]]
        = [f \in 0 .. m + 1 |-> IF f = 0 THEN w ELSE file_flush(h[f - 1], f)]
    BY <2>2
  <2>5. Def(h, m + 1)
    BY <2>3, <2>4
  <2>6. QED
    BY <2>5
<1> HIDE DEF k
<1>3. k \in Nat
  BY DEF k
<1>4. k \in S
  <2> HIDE DEF S
  <2>1. \A i \in 0 .. k : i \in S /\ i < k => i + 1 \in S
    BY <1>2, <1>3
  <2>2. \A i \in 0 .. k : i \in S
    BY <1>1, <1>3, <2>1, Steps
  <2>3. QED
    BY <1>3, <2>2
<1> DEFINE c == CHOOSE g1 : Def(g1, k)
<1>5. Def(c, k)
  BY <1>4
<1>6. write_back(w) = c[k]
  BY DEF write_back, k
<1> HIDE DEF c
<1>7. c[0] = w /\ \A f \in 1 .. k : c[f] = file_flush(c[f - 1], f)
  BY <1>3, <1>5
<1>8. Flushed(w, c)
  BY <1>6, <1>7 DEF Flushed, k
<1>9. QED
  BY <1>8

(* Files are saved one after the other. *)
LEMMA SavesTrans ==
  ASSUME NEW w, NEW v, NEW u, Alike(w, v), Apart(w, v), v.puts = w.puts, NEW f \in 1 .. Len(w.files),
         Saves(v, f, u)
  PROVE  Alike(w, u) /\ Apart(w, u) /\ u.puts = w.puts
<1>1. Alike(v, u)
  BY DEF Saves
<1>2. Alike(w, u)
  BY <1>1, AlikeTrans
<1>3. QED
  BY <1>2 DEF Saves, Apart

(* Nothing waits to be saved any more. *)
LEMMA WriteBack ==
  ASSUME NEW d, NEW w \in World, Good(w, d)
  PROVE  LET v == write_back(w)
         IN /\ v \in World /\ Good(v, d) /\ Alike(w, v) /\ Apart(w, v) /\ v.puts = w.puts
            /\ \A f \in 1 .. Len(w.files) : v.files[f].ondisk => ~Waits(v.files[f])
<1> DEFINE k == Len(w.files)
           Done(v, n) == /\ v \in World /\ Good(v, d) /\ Alike(w, v) /\ Apart(w, v) /\ v.puts = w.puts
                         /\ \A f \in 1 .. n : v.files[f].ondisk => ~Waits(v.files[f])
<1>1. k \in Nat /\ k = Len(w.files)
  BY WorldParts
<1>2. PICK g : Flushed(w, g)
  BY <1>1, WriteBackLoop
<1> HIDE DEF k
<1>3. /\ g[0] = w /\ \A f \in 1 .. k : g[f] = file_flush(g[f - 1], f)
      /\ write_back(w) = g[k]
  BY <1>1, <1>2 DEF Flushed
<1> DEFINE S == {n \in 0 .. k : Done(g[n], n)}
<1>4. 0 \in S
  <2>1. Alike(w, w) /\ Apart(w, w)
    BY DEF Alike, Like, Apart
  <2>2. QED
    BY <1>1, <1>3, <2>1
<1>5. ASSUME NEW n \in 0 .. k, n \in S, n < k PROVE n + 1 \in S
  <2> DEFINE u == g[n]
             v == file_flush(u, n + 1)
  <2>1. Done(u, n)
    BY <1>5
  <2>2. n + 1 \in 1 .. k /\ (n + 1) - 1 = n
    BY <1>1, <1>5
  <2>3. g[n + 1] = v
    BY <1>3, <2>2
  <2> HIDE DEF u
  <2>4. Len(u.files) = k
    BY <1>1, <2>1 DEF Alike
  <2>5. Good(v, d) /\ v \in World /\ Saves(u, n + 1, v)
    BY <2>1, <2>2, <2>4, FlushGood
  <2> HIDE DEF v
  <2>6. Alike(w, v) /\ Apart(w, v) /\ v.puts = w.puts
    BY <1>1, <2>1, <2>2, <2>5, SavesTrans
  <2>7. ASSUME NEW f \in 1 .. n + 1, v.files[f].ondisk PROVE ~Waits(v.files[f])
    <3>1. CASE f = n + 1
      BY <2>5, <2>7, <3>1 DEF Saves
    <3>2. CASE f # n + 1
      <4>1. f \in 1 .. n /\ f \in 1 .. Len(u.files)
        BY <1>1, <2>2, <2>4, <3>2
      <4>2. v.files[f] = u.files[f]
        BY <2>5, <3>2, <4>1 DEF Saves
      <4>3. QED
        BY <2>1, <2>7, <4>1, <4>2
    <3>3. QED
      BY <3>1, <3>2
  <2>8. Done(v, n + 1)
    BY <2>1, <2>5, <2>6, <2>7
  <2>9. QED
    BY <2>2, <2>3, <2>8
<1>6. k \in S
  <2> HIDE DEF S
  <2>1. \A n \in 0 .. k : n \in S /\ n < k => n + 1 \in S
    BY <1>5
  <2>2. \A n \in 0 .. k : n \in S
    BY <1>1, <1>4, <2>1, Steps
  <2>3. QED
    BY <1>1, <2>2
<1>7. QED
  BY <1>1, <1>3, <1>6

(* A jump ends the calls in progress, the innermost first. *)
Ended1(w, g) ==
  /\ g[0] = w
  /\ \A n \in 1 .. Len(calls) :
       g[n] = IF calls[n].op = "gets" THEN file_pop(g[n - 1], calls[n].f) ELSE g[n - 1]
  /\ Unwound(w) = g[Len(calls)]
(* The calls ended so far, for every number of them. *)
LEMMA UnwoundLoop ==
  ASSUME NEW w, Len(calls) \in Nat
  PROVE  \E g : Ended1(w, g)
<1> DEFINE k == Len(calls)
           Next1(v, n) == IF calls[n].op = "gets" THEN file_pop(v, calls[n].f) ELSE v
           Def(g, m) == g = [n \in 0 .. m |-> IF n = 0 THEN w ELSE Next1(g[n - 1], n)]
           S == {m \in Nat : \E g : Def(g, m)}
<1>1. 0 \in S
  <2>1. Def([n \in 0 .. 0 |-> w], 0)
    OBVIOUS
  <2>2. QED
    BY <2>1
<1>2. ASSUME NEW m \in Nat, m \in S PROVE m + 1 \in S
  <2>1. PICK g : Def(g, m)
    BY <1>2
  <2> DEFINE h == [n \in 0 .. m + 1 |-> IF n = m + 1 THEN Next1(g[m], m + 1) ELSE g[n]]
  <2> HIDE DEF Next1
  <2>2. ASSUME NEW n \in 0 .. m + 1
        PROVE  h[n] = IF n = 0 THEN w ELSE Next1(h[n - 1], n)
    BY <2>1
  <2>3. h = [n \in 0 .. m + 1 |-> h[n]]
    OBVIOUS
  <2> HIDE DEF h
  <2>4. [n \in 0 .. m + 1 |-> h[n]]
        = [n \in 0 .. m + 1 |-> IF n = 0 THEN w ELSE Next1(h[n - 1], n)]
    BY <2>2
  <2>5. Def(h, m + 1)
    BY <2>3, <2>4
  <2>6. QED
    BY <2>5
<1> HIDE DEF k
<1>3. k \in Nat
  BY DEF k
<1>4. k \in S
  <2> HIDE DEF S
  <2>1. \A i \in 0 .. k : i \in S /\ i < k => i + 1 \in S
    BY <1>2, <1>3
  <2>2. \A i \in 0 .. k : i \in S
    BY <1>1, <1>3, <2>1, Steps
  <2>3. QED
    BY <1>3, <2>2
<1> DEFINE c == CHOOSE g1 : Def(g1, k)
<1>5. Def(c, k)
  BY <1>4
<1>6. Unwound(w) = c[k]
  BY DEF Unwound, k
<1> HIDE DEF c, Next1
<1>7. c[0] = w /\ \A n \in 1 .. k : c[n] = Next1(c[n - 1], n)
  BY <1>3, <1>5
<1>8. Ended1(w, c)
  BY <1>6, <1>7 DEF Next1, Ended1, k
<1>9. QED
  BY <1>8

=============================================================================
