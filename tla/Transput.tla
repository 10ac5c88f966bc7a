------------------------------ MODULE Transput ------------------------------
(***************************************************************************)
(* Files, events and standard output of a running program: the file table  *)
(* of csrc/io.c and the file procedures of csrc/prelude.c.                 *)
(*                                                                         *)
(* A call of a standard procedure that runs code of the program (an event  *)
(* routine, a dynamic part of a format) is a frame on `calls`, so that     *)
(* other calls, jumps and errors come in the middle of it.  All other      *)
(* calls are one step.  Texts are sequences of a few characters; layout of *)
(* values, columns and pipes are left out.  File n of the code is entry    *)
(* n + 1 here.                                                             *)
(***************************************************************************)
EXTENDS Integers, Sequences, SequencesExt

CONSTANTS
  Handles,     \* REF FILE variables of the program
  Names,       \* names of files on disk
  Vars,        \* STRING variables
  Scenarios,   \* what a program uses: records of procedures and inputs, with bounds on the
               \* file table (files), the calls in progress (depth) and standard output (out)
  Nobody,      \* no file, no name, no variable
  MaxText      \* longest text in a file or a string

VARIABLES io, calls, pf, status, plan, left
vars == <<io, calls, pf, status, plan, left>>

StandOut == 1
StandIn == 2
StandError == 3
StandBack == 4
Ended == "nl"                       \* the end of a line
Nul == "nul"
InText == {Ended, "1", "x"}
Char == InText \cup {Nul}

ASSUME Tokens ==
  /\ Nobody \notin Names /\ Nobody \notin Vars /\ Nobody \notin Seq(Char)
  /\ \A h \in Handles : h \notin Nat
ASSUME Shapes ==
  MaxText \in Nat /\ \A p \in Scenarios :
    /\ p.disk \in [Names -> Seq(Char) \cup {Nobody}] /\ p.stdin \in Seq(Seq(Char))
    /\ p.texts \subseteq Seq(Char) /\ p.pieces \subseteq Seq(Char) /\ p.items \subseteq Seq(Seq(Char))
    /\ p.fids \subseteq 1 .. 4 /\ p.regression \in BOOLEAN
    /\ p.files \in Nat /\ p.files >= 4 /\ p.depth \in Nat /\ p.out \in Nat
ASSUME Lengths ==                   \* what TakeWhile relies on
  \A p \in Scenarios :
    /\ \A n \in Names : p.disk[n] # Nobody => Len(p.disk[n]) <= MaxText
    /\ \A i \in 1 .. Len(p.stdin) : Len(p.stdin[i]) <= MaxText
    /\ \A s \in p.texts : Len(s) <= MaxText
(* who reads standard input does not open stand in as another file: it is read from C's *)
(* stdin whatever its entry says (load_file)                                            *)
ASSUME StandInKept ==
  \A p \in Scenarios : StandIn \in p.fids =>
    p.uses \cap {"open", "establish", "create", "associate"} = {}

file_default ==
  [name |-> Nobody, assoc |-> Nobody, buf |-> <<>>, pos |-> 0, term |-> {}, chan |-> 3,
   loaded |-> FALSE, ondisk |-> FALSE, reading |-> FALSE, writing |-> FALSE, dirty |-> FALSE,
   eof |-> FALSE, on_end |-> FALSE, on_value |-> FALSE, on_line |-> FALSE, temp |-> FALSE]

(* The state transput works on.  handle says what each REF FILE variable   *)
(* holds; opened is history: the file each handle was last opened as; puts *)
(* is history: the entries that have written under a name; said is history:*)
(* everything given to standard output; old is history: a character was    *)
(* read from a string that has not held it since the call began.           *)
Init ==
  /\ plan \in Scenarios
  /\ io = [files |-> [f \in 1 .. 4 |-> file_default], handle |-> [h \in Handles |-> 0],
           opened |-> [h \in Handles |-> Nobody], disk |-> plan.disk, strs |-> [v \in Vars |-> <<>>],
           puts |-> [n \in Names |-> {}], out |-> <<>>, shown |-> <<>>, said |-> <<>>,
           stdin |-> plan.stdin, nul |-> FALSE, old |-> FALSE]
  /\ calls = <<>> /\ status = "running" /\ left = FALSE
  /\ pf = [active |-> FALSE, start |-> 0, item |-> 0]

-----------------------------------------------------------------------------
(* The file table. *)

file_push(w, e) == [w EXCEPT !.files = Append(@, e)]

PopAny(w, f) == [w EXCEPT !.files = SubSeq(@, 1, f - 1)]     \* slip
file_pop(w, f) == IF f = Len(w.files) THEN [w EXCEPT !.files = Front(@)] ELSE w

\* An associated file denotes its string, any other file its name.
Denotes(e) == <<e.name, e.assoc>>

(* file_new: a FILE value has its entry replaced, with the text it has not *)
(* saved; a REF FILE variable always gets a new entry.                     *)
Lose(w, f) == [n \in Names |-> IF w.files[f].name = n /\ f \in w.puts[n] THEN w.puts[n] \cup {0} ELSE w.puts[n]]
file_new(w, fv, e) ==
  IF fv \in Handles
  THEN [file_push(w, e) EXCEPT !.handle[fv] = Len(w.files) + 1, !.opened[fv] = Denotes(e)]
  ELSE [w EXCEPT !.files[fv] = e, !.puts = Lose(w, fv),
                 !.opened = [h \in Handles |-> IF w.handle[h] = fv THEN Denotes(e) ELSE @[h]]]

file_flush(w, f) ==
  LET e == w.files[f]
  IN IF e.ondisk /\ e.dirty /\ e.writing
     THEN [w EXCEPT !.disk[e.name] = e.buf, !.files[f].dirty = FALSE] ELSE w

(* Scratching takes the file away and the entry off the disk.              *)
scratch(w, f) ==
  LET e == w.files[f]
  IN [w EXCEPT !.disk[e.name] = Nobody, !.files[f] = [e EXCEPT !.ondisk = FALSE, !.dirty = FALSE],
               !.puts[e.name] = IF @ \subseteq {f} THEN {} ELSE @ \cup {0}]

-----------------------------------------------------------------------------
(* Output. *)

FlushTwice(w) == [w EXCEPT !.shown = @ \o w.out]                        \* slip
io_flush_out(w) == [w EXCEPT !.shown = @ \o w.out, !.out = <<>>]

flush_final(w) ==
  IF plan.regression /\ w.out # <<>> /\ Last(w.out) # Ended
  THEN io_flush_out([w EXCEPT !.out = Append(@, Ended)]) ELSE io_flush_out(w)

Has(s, c) == \E i \in 1 .. Len(s) : s[i] = c
UpTo(s, c) == SubSeq(s, 1, (CHOOSE i \in 1 .. Len(s) : s[i] = c /\ ~Has(SubSeq(s, 1, i - 1), c)) - 1)

(* What C's strings make of a text on standard output: it ends at a NUL,   *)
(* and nothing more is taken until the buffer is purged.                   *)
out_text(w, f, s) ==
  LET t == IF Has(s, Nul) THEN UpTo(s, Nul) ELSE s
      n == [w EXCEPT !.nul = Has(s, Nul)]
  IN IF w.nul THEN w
     ELSE IF f = StandOut THEN [n EXCEPT !.out = @ \o t, !.said = @ \o t] ELSE n

turn_to_writing(w, f) ==
  IF w.files[f].writing THEN w
  ELSE [w EXCEPT !.strs[w.files[f].assoc] = <<>>, !.files[f] = [w.files[f] EXCEPT !.writing = TRUE, !.reading = FALSE]]

Grown(w, f, s, e) ==
  LET n == [w EXCEPT !.files[f] = [e EXCEPT !.buf = @ \o s, !.writing = TRUE]]
  IN IF e.ondisk THEN [n EXCEPT !.puts[e.name] = @ \cup {f}] ELSE n
Unloaded(w, f, s) == Grown(w, f, s, [w.files[f] EXCEPT !.dirty = TRUE])                                \* slip
DirtyOnce(w, f, s) ==                                                                                 \* slip
  Grown(w, f, s, [w.files[f] EXCEPT !.dirty = (@ \/ ~w.files[f].writing), !.loaded = TRUE])
write_buffer(w, f, s) == Grown(w, f, s, [w.files[f] EXCEPT !.dirty = TRUE, !.loaded = TRUE])

file_out(w, f, s) ==
  IF f \in {StandOut, StandError} THEN out_text(w, f, s)
  ELSE IF w.files[f].assoc \in Vars
  THEN LET t == turn_to_writing(w, f) IN [t EXCEPT !.strs[w.files[f].assoc] = @ \o s]
  ELSE write_buffer(w, f, s)

\* bounds: what has been written is short enough
Room(w, f) ==
  /\ Len(w.said) <= plan.out
  /\ Len(IF w.files[f].assoc \in Vars THEN w.strs[w.files[f].assoc] ELSE w.files[f].buf) <= MaxText

print_items(w, f, items) ==
  LET printed[n \in 0 .. Len(items)] ==
        IF n = 0 THEN w ELSE [file_out(printed[n - 1], f, items[n]) EXCEPT !.nul = FALSE]
  IN printed[Len(items)]

-----------------------------------------------------------------------------
(* Input. *)

(* Standard input is fetched a line at a time, pending output first; the   *)
(* string of an associated file is taken once, others were read by open.   *)
NextLine(w) ==
  LET e == [w.files[StandIn] EXCEPT !.loaded = TRUE, !.reading = TRUE]
  IN IF w.stdin = <<>> THEN [w EXCEPT !.files[StandIn] = [e EXCEPT !.eof = TRUE]]
     ELSE [w EXCEPT !.files[StandIn] = [e EXCEPT !.buf = @ \o Head(w.stdin)], !.stdin = Tail(@)]
AskLate(w) == NextLine(w)                                                 \* slip
fetch_line(w) == NextLine(io_flush_out(w))

load_file(w, f) ==
  LET e == w.files[f] IN
  IF f = StandIn THEN IF e.pos < Len(e.buf) \/ e.eof THEN w ELSE fetch_line(w)
  ELSE IF e.loaded THEN w
  ELSE IF e.assoc \in Vars
  THEN [w EXCEPT !.files[f] = [e EXCEPT !.buf = w.strs[e.assoc], !.pos = 0, !.loaded = TRUE]]
  ELSE [w EXCEPT !.files[f].loaded = TRUE]

at_end(w, f) == w.files[f].pos >= Len(w.files[f].buf)         \* of a loaded file
peek_char(w, f) == w.files[f].buf[w.files[f].pos + 1]         \* when it is not at its end
Take(w, f) == [w EXCEPT !.files[f] = [w.files[f] EXCEPT !.pos = @ + 1, !.reading = TRUE]]

NoRefresh(w, f) == w                                                  \* slip
refresh_assoc(w, f) ==
  LET e == w.files[f] IN
  IF e.assoc \notin Vars \/ w.strs[e.assoc] = e.buf THEN w
  ELSE [w EXCEPT !.files[f] = [e EXCEPT !.buf = w.strs[e.assoc], !.loaded = TRUE]]

\* Characters are taken up to a loaded file's end, or to the first not in cs; a file
\* has at most MaxText of them and the lines of standard input.
TakeWhile(w, f, cs) ==
  LET taken[n \in 0 .. MaxText * (1 + Len(plan.stdin))] ==
        IF n = 0 THEN load_file(w, f)
        ELSE LET v == taken[n - 1] IN
             IF at_end(v, f) \/ peek_char(v, f) \notin cs THEN v ELSE load_file(Take(v, f), f)
  IN taken[MaxText * (1 + Len(plan.stdin))]

Space == {Ended}
Digit == {"1"}
skip_spaces(w, f) == TakeWhile(w, f, Space)
skip_line(w, f) ==
  LET v == TakeWhile(w, f, InText \ {Ended}) IN IF at_end(v, f) THEN v ELSE Take(v, f)
read_line_str(w, f) == TakeWhile(w, f, {c \in InText : c # Ended /\ c \notin w.files[f].term})
read_token(w, f) == TakeWhile(w, f, InText \ Space)
read_number(w, f) == TakeWhile(w, f, Digit)

-----------------------------------------------------------------------------
(* Control.  The program runs at the outermost level, in an event routine  *)
(* and in a dynamic part of a format; `uses` says which calls it makes.    *)

Runs == status = "running" /\ (calls # <<>> => Head(calls).op \in {"event", "hole"})
Uses(p) == Runs /\ p \in plan.uses
Inside(ops) == status = "running" /\ calls # <<>> /\ Head(calls).op \in ops
Fits(w) == Len(w.files) <= plan.files

\* the FILE values and the files the program can name
FileValues == plan.fids \cup (IF Inside({"event"}) THEN {Head(calls).f} ELSE {})
FileIds == (FileValues \cup {io.handle[h] : h \in Handles}) \ {0}

(* A call of get also remembers the values its string has had since it     *)
(* began.                                                                  *)
Remember(cs, w) ==
  [i \in 1 .. Len(cs) |-> IF cs[i].op = "get" /\ w.files[cs[i].f].assoc \in Vars
                          THEN [cs[i] EXCEPT !.seen = @ \cup {w.strs[w.files[cs[i].f].assoc]}] ELSE cs[i]]

Goes(w, cs) == io' = w /\ calls' = Remember(cs, w) /\ UNCHANGED <<pf, status, plan, left>>
Does(w) == Fits(w) /\ Goes(w, calls)
Enters(w, frames) == Fits(w) /\ Len(calls) + Len(frames) <= plan.depth /\ Goes(w, frames \o calls)
Ends(w, s) == io' = w /\ status' = s /\ UNCHANGED <<calls, pf, plan, left>>

(* What a run-time error leaves of the output: a formatted call that has   *)
(* not finished an item loses what it has not purged with a line.          *)
purged(start, item) ==
  LET lines == {i \in start + 1 .. (IF item < Len(io.out) THEN item ELSE Len(io.out)) : io.out[i] = Ended}
  IN IF lines = {} THEN start ELSE CHOOSE i \in lines : \A j \in lines : j <= i
discard_unpurged(w) ==
  LET cut == purged(pf.start, pf.item) IN IF cut < Len(w.out) THEN [w EXCEPT !.out = SubSeq(@, 1, cut)] ELSE w
io_die(w) == flush_final(IF pf.active THEN discard_unpurged(w) ELSE w)

Dies(w) == Ends(io_die(w), "died")
Event(w, f, why) == Enters(w, <<[op |-> "event", f |-> f, why |-> why]>>)
logical_end(w, f, why) == IF w.files[f].on_end THEN Event(w, f, why) ELSE Dies(w)
value_error(w, f) == IF w.files[f].on_value THEN Event(w, f, "value") ELSE Dies(w)

-----------------------------------------------------------------------------
(* Opening and closing. *)

Path(n, e) == [e EXCEPT !.name = n, !.loaded = TRUE, !.ondisk = TRUE]
Open(fv, n) ==
  /\ Uses("open")
  /\ Does(file_new(io, fv, [Path(n, file_default) EXCEPT !.buf = IF io.disk[n] = Nobody THEN <<>> ELSE io.disk[n]]))
Establish(fv, n) == Uses("establish") /\ Does(file_new(io, fv, [Path(n, file_default) EXCEPT !.writing = TRUE]))
Create(fv) == Uses("create") /\ Does(file_new(io, fv, [file_default EXCEPT !.loaded = TRUE]))
Associate(fv, v) == Uses("associate") /\ Does(file_new(io, fv, [file_default EXCEPT !.assoc = v, !.chan = 4]))
Close(f) == Uses("close") /\ Does(file_flush(io, f))

Scratch(f) ==
  /\ Uses("scratch")
  /\ LET w == file_flush(io, f)
         e == w.files[f]
     IN IF ~(e.ondisk /\ (e.reading \/ e.writing)) THEN Does(w)
        ELSE IF w.disk[e.name] = Nobody THEN Dies(w) ELSE Does(scratch(w, f))

Repositions(f) == f > StandError /\ io.files[f].chan \in {3, 4}
rewound(w, f) ==
  [w EXCEPT !.files[f] = [w.files[f] EXCEPT !.pos = 0, !.reading = FALSE, !.writing = FALSE, !.loaded = (w.files[f].assoc = Nobody)]]
Reset(f) == Uses("reset") /\ IF Repositions(f) THEN Does(rewound(file_flush(io, f), f)) ELSE Dies(io)

Set(f, k) ==
  /\ Uses("set")
  /\ LET w == load_file(io, f)
         np == w.files[f].pos + k
     IN IF ~Repositions(f) THEN Dies(io)
        ELSE IF np >= 0 /\ np < Len(w.files[f].buf) THEN Does([w EXCEPT !.files[f].pos = np])
        ELSE logical_end(w, f, "set")

On(f, e) ==
  /\ Uses("on")
  /\ Does(CASE e = "end" -> [io EXCEPT !.files[f].on_end = TRUE]
            [] e = "value" -> [io EXCEPT !.files[f].on_value = TRUE]
            [] e = "line" -> [io EXCEPT !.files[f].on_line = TRUE])
MakeTerm(f, cs) == Uses("term") /\ Does([io EXCEPT !.files[f].term = cs])

-----------------------------------------------------------------------------
(* Writing and reading. *)

Assign(v, s) == Uses("assign") /\ Does([io EXCEPT !.strs[v] = s])

Put(f, items) ==
  /\ Uses("put")
  /\ LET w == print_items(io, f, items) IN Room(w, f) /\ Does(w)

Reads(f) == f = StandIn \/ (io.files[f].reading /\ ~io.files[f].writing)
NewLine(f) ==
  /\ Uses("newline")
  /\ IF Reads(f) THEN Does(skip_line(io, f)) ELSE LET w == file_out(io, f, <<Ended>>) IN Room(w, f) /\ Does(w)

Eof(f) ==
  /\ Uses("eof")
  /\ IF (io.files[f].writing /\ f # StandIn) \/ ~(io.files[f].reading \/ f = StandIn) THEN Dies(io)
     ELSE Does(load_file(io, f))
Eoln(f) ==
  /\ Uses("eof")
  /\ Reads(f)
  /\ LET w == load_file(io, f) IN IF at_end(w, f) THEN logical_end(w, f, "eoln") ELSE Does(w)

GetFrame(f) == [op |-> "get", f |-> f, seen |-> {}]
Get(f) == Uses("get") /\ Enters(refresh_assoc(io, f), <<GetFrame(f)>>)

TempFile == [file_default EXCEPT !.chan = 4, !.temp = TRUE]
GetString(v) ==
  /\ Uses("gets")
  /\ LET f == Len(io.files) + 1
         w == file_push(io, [TempFile EXCEPT !.assoc = v])
     IN Enters(refresh_assoc(w, f), <<GetFrame(f), [op |-> "gets", f |-> f]>>)

(* The end of a call of get, ordinary or by a mended file end: the string  *)
(* file of gets goes with it.                                              *)
StringFile(w, cs) == cs # <<>> /\ Head(cs).op = "gets"
GetsEnds(w, cs) ==
  IF StringFile(w, cs) THEN Goes(file_pop(w, Head(cs).f), Tail(cs)) ELSE Goes(w, cs)
GetEnd == Inside({"get"}) /\ GetsEnds(io, Tail(calls))

\* the characters a step took were in the string at some time since the call began
Fresh(w, f) ==
  \A p \in io.files[f].pos + 1 .. w.files[f].pos :
    \E s \in Head(calls).seen : p <= Len(s) /\ s[p] = w.files[f].buf[p]
Got(w, f) == Does([w EXCEPT !.old = @ \/ (w.files[f].assoc \in Vars /\ ~Fresh(w, f))])

ReadChar(f) ==
  LET w == load_file(io, f) IN IF at_end(w, f) THEN logical_end(w, f, "end") ELSE Got(Take(w, f), f)
ReadInt(f) ==
  LET w == skip_spaces(io, f)
      v == read_number(w, f)
  IN IF at_end(w, f) THEN logical_end(w, f, "end")
     ELSE IF v.files[f].pos = w.files[f].pos THEN value_error(w, f) ELSE Got(v, f)
ReadBool(f) ==
  LET w == skip_spaces(io, f) IN IF at_end(w, f) THEN logical_end(w, f, "end") ELSE Got(read_token(w, f), f)
ReadString(f) ==
  LET w == load_file(io, f) IN IF at_end(w, f) THEN logical_end(w, f, "end") ELSE Got(read_line_str(w, f), f)
ReadNewLine(f) == Does(skip_line(io, f))
ReadSpace(f) ==
  LET w == load_file(io, f)
  IN IF at_end(w, f) THEN Does(w)
     ELSE IF peek_char(w, f) = Ended /\ w.files[f].on_line THEN Event(w, f, "line") ELSE Got(Take(w, f), f)

GetItem ==
  /\ Inside({"get"})
  /\ LET f == Head(calls).f
     IN \/ "char" \in plan.reads /\ ReadChar(f)
        \/ "value" \in plan.reads /\ (ReadInt(f) \/ ReadBool(f))
        \/ "string" \in plan.reads /\ (ReadString(f) \/ ReadNewLine(f) \/ ReadSpace(f))

-----------------------------------------------------------------------------
(* Formatted output, and formats that run the program. *)

PrintfFrame(f, n) == [op |-> "printf", f |-> f, start |-> n, said |-> Len(io.said),
                       item |-> FALSE, was |-> pf]
Printf(f) == Uses("printf") /\ Enters(io, <<PrintfFrame(f, Len(io.out))>>)

PutString(v) ==
  /\ Uses("puts")
  /\ LET f == Len(io.files) + 1
         w == [file_push(io, [TempFile EXCEPT !.loaded = TRUE]) EXCEPT !.nul = FALSE]
     IN Enters(w, <<PrintfFrame(f, Len(io.out)), [op |-> "puts", f |-> f, var |-> v, cut |-> io.nul]>>)

PrintfItem ==
  /\ Inside({"printf"}) /\ ~Head(calls).item
  /\ calls' = <<[Head(calls) EXCEPT !.item = TRUE, !.was = pf]>> \o Tail(calls)
  /\ pf' = IF Head(calls).f = StandOut
           THEN [active |-> TRUE, start |-> Head(calls).start, item |-> Len(io.out)] ELSE pf
  /\ UNCHANGED <<io, status, plan, left>>

\* a value, or an insertion, which purges at the end of a line
PrintfText(s, insertion) ==
  /\ Inside({"printf"})
  /\ insertion \/ Head(calls).item
  /\ LET w == file_out(io, Head(calls).f, s)
     IN Room(w, Head(calls).f) /\ Does(IF insertion /\ Has(s, Ended) THEN [w EXCEPT !.nul = FALSE] ELSE w)

Hole == Inside({"printf", "get"}) /\ "hole" \in plan.uses /\ Enters(io, <<[op |-> "hole"]>>)
HoleEnd == Inside({"hole"}) /\ Goes(io, Tail(calls))

EndStillActive ==                                                             \* slip
  /\ Inside({"printf"}) /\ Head(calls).item
  /\ calls' = <<[Head(calls) EXCEPT !.item = FALSE]>> \o Tail(calls)
  /\ UNCHANGED <<io, pf, status, plan, left>>
PrintfItemEnd ==
  /\ Inside({"printf"}) /\ Head(calls).item
  /\ calls' = <<[Head(calls) EXCEPT !.item = FALSE]>> \o Tail(calls)
  /\ pf' = Head(calls).was
  /\ UNCHANGED <<io, status, plan, left>>

string_file_text(w, c) ==
  [file_pop([w EXCEPT !.strs[c.var] = w.files[c.f].buf], c.f) EXCEPT !.nul = c.cut]
NoPurge(w) == w                                                               \* slip
purge(w) == [w EXCEPT !.nul = FALSE]
PrintfEnd ==
  /\ Inside({"printf"}) /\ ~Head(calls).item
  /\ LET cs == Tail(calls)
     IN IF cs # <<>> /\ Head(cs).op = "puts" THEN Goes(string_file_text(purge(io), Head(cs)), Tail(cs))
        ELSE Goes(purge(io), cs)

-----------------------------------------------------------------------------
(* Events, jumps and the end of the program. *)

(* TRUE from an event routine: at a line end the character is skipped and  *)
(* the call goes on, set gives the position it did not move to, eoln is    *)
(* abandoned, and any other call of get ends.                              *)
EventTrue ==
  /\ Inside({"event"})
  /\ LET e == Head(calls)
         cs == Tail(calls)
     IN CASE e.why = "line" -> LET w == load_file(io, e.f) IN Goes(IF at_end(w, e.f) THEN w ELSE Take(w, e.f), cs)
          [] e.why \in {"set", "eoln"} -> Goes(io, cs)
          [] OTHER -> GetsEnds(io, Tail(cs))
EventFalse == Inside({"event"}) /\ Dies(io)

(* A jump to a label of the main program: every call in progress ends, the *)
(* innermost first.  A call of get catches it, so the file of gets goes;   *)
(* printf, puts and string are left as they are.                           *)
Unwound(w) ==
  LET out[n \in 0 .. Len(calls)] ==
        IF n = 0 THEN w
        ELSE IF calls[n].op = "gets" THEN file_pop(out[n - 1], calls[n].f) ELSE out[n - 1]
  IN out[Len(calls)]
Jump ==
  /\ Uses("jump") /\ calls # <<>>
  /\ io' = Unwound(io) /\ calls' = <<>>
  /\ left' = (left \/ \E i \in 1 .. Len(calls) : calls[i].op = "printf")
  /\ UNCHANGED <<pf, status, plan>>

RuntimeError == status = "running" /\ "error" \in plan.uses /\ Dies(io)
Stop == Uses("stop") /\ Ends(flush_final(io), "stopped")

write_back(w) ==
  LET flushed[f \in 0 .. Len(w.files)] == IF f = 0 THEN w ELSE file_flush(flushed[f - 1], f)
  IN flushed[Len(w.files)]
Finish == Runs /\ calls = <<>> /\ Ends(write_back(flush_final(io)), "finished")

-----------------------------------------------------------------------------
FileActions ==
  \/ \E fv \in Handles \cup FileValues :
       (\E n \in Names : Open(fv, n) \/ Establish(fv, n)) \/ Create(fv) \/ \E v \in Vars : Associate(fv, v)
  \/ \E f \in FileIds : Close(f) \/ Scratch(f) \/ Reset(f) \/ \E k \in {-1, 1} : Set(f, k)
  \/ \E f \in FileIds : (\E e \in {"end", "value", "line"} : On(f, e)) \/ MakeTerm(f, {"x"})

CallActions ==
  \/ \E v \in Vars : (\E s \in plan.texts : Assign(v, s)) \/ GetString(v) \/ PutString(v)
  \/ \E f \in FileIds : (\E items \in plan.items : Put(f, items)) \/ NewLine(f) \/ Eof(f) \/ Eoln(f) \/ Get(f) \/ Printf(f)
  \/ GetItem \/ GetEnd
  \/ PrintfItem \/ PrintfItemEnd \/ PrintfEnd \/ Hole \/ HoleEnd
  \/ \E s \in plan.pieces, i \in BOOLEAN : PrintfText(s, i)

Next ==
  \/ FileActions \/ CallActions
  \/ EventTrue \/ EventFalse \/ Jump \/ RuntimeError \/ Stop \/ Finish

Spec == Init /\ [][Next]_vars

-----------------------------------------------------------------------------
(* Properties. *)

Texts(n) == UNION {[1 .. k -> Char] : k \in 0 .. n}

(* Every file, call and text is one the program can have, and the bounds   *)
(* the runs put on them hold.                                              *)
TypeOK ==
  /\ \A f \in 1 .. Len(io.files) :
       LET e == io.files[f]
       IN e.name \in Names \cup {Nobody} /\ e.assoc \in Vars \cup {Nobody} /\ e.pos \in Nat
          /\ (e.ondisk => e.name \in Names) /\ (e.dirty => e.loaded)
  /\ \A h \in Handles : io.handle[h] \in 0 .. plan.files
  /\ \A n \in Names : io.disk[n] = Nobody \/ io.disk[n] \in Seq(Char)
  /\ io.out \in Texts(plan.out + 1) /\ io.shown \in Texts(plan.out + 1)
  /\ status \in {"running", "finished", "stopped", "died"}
  /\ pf.active => "printf" \in plan.uses

(* What the program wrote to a file is on the disk when it has finished,   *)
(* however often the file was opened, rewound, closed or read in between,  *)
(* if all of it went through one opening; a file nobody wrote is as it was *)
(* or scratched (file_flush, io_finish, the file procedures).              *)
SoleWriterSaved ==
  status = "finished" =>
    \A n \in Names :
      /\ \A f \in 1 .. Len(io.files) : io.puts[n] = {f} => io.disk[n] = io.files[f].buf
      /\ io.puts[n] = {} => io.disk[n] \in {plan.disk[n], Nobody}

(* A FILE variable denotes what it was last opened as: no end of a string  *)
(* file, no jump out of one and no procedure called by an event routine in *)
(* the middle of a call takes its entry away (file_pop, file_new).         *)
HandlesStable ==
  \A h \in Handles :
    io.handle[h] # 0 =>
      /\ io.handle[h] <= Len(io.files)
      /\ Denotes(io.files[io.handle[h]]) = io.opened[h]
      /\ ~io.files[io.handle[h]].temp

(* A character read from an associated string was in the string at that    *)
(* place at some time since the call of get began: a change of the string  *)
(* before the call is never missed (refresh_assoc).                        *)
NeverOlderThanCall == ~io.old

(* All that was given to standard output is in the buffer or out, once and *)
(* in order, and is out when the program has finished or stopped.          *)
OutputInOrder ==
  /\ status = "running" => io.shown \o io.out = io.said
  /\ status \in {"finished", "stopped"} => IsPrefix(io.said, io.shown)

(* A NUL cuts standard output no longer than the call that wrote it, save  *)
(* when a formatted call was left by a jump: nothing is said of those      *)
(* behaviours (left), where the flag does outlive the call (io_nul_cut).   *)
NulCutEnds == calls = <<>> /\ ~left => ~io.nul

(* A run-time error takes back nothing that was said before the formatted  *)
(* calls in progress (discard_unpurged).  Nothing is said of behaviours in *)
(* which a formatted call was left by a jump (left): printf then does not  *)
(* restore its record, and a later error drops output that was finished.   *)
Before ==
  LET starts == {calls[i].said : i \in {j \in 1 .. Len(calls) : calls[j].op = "printf" /\ calls[j].f = StandOut}}
  IN IF starts = {} THEN Len(io.said) ELSE CHOOSE n \in starts : \A m \in starts : n <= m
Kept == IsPrefix(SubSeq(io.said, 1, Before), io.shown')
KeptAtDeath == [][status' = "died" /\ ~left => Kept]_vars

(* A line of standard input is taken only when everything said before is   *)
(* out, so that a prompt precedes its answer (load_file).                  *)
PromptFirst == [][io'.stdin # io.stdin => io'.shown = io.said]_vars
=============================================================================
