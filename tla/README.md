# TLA+ models of the Algol 68 compiler and its runtime

`a68lean` compiles Algol 68 to native code through a small intermediate language; a compiled
program runs on a C runtime (`csrc/`) that transcribes the evaluator (`A68/Interp.lean`), which is
the specification of what a program means. These modules model the parts of the compiled program
and its runtime where a mistake shows far from where it was made: the collector, the shared stores
of rows, the unwinding of jumps, files with their events, formats, and arithmetic on limbs and
digits. Each is compared with what it promises: a managed heap for the collector, the evaluator's
meaning for the others.

Run a model with `tlc -config <run>.cfg <module>.tla` and the proofs with `tlapm <module>.tla` for
`CollectorProofs`, `Induction`, `RowStoreInvariant`, `RowStoreProofs`, `RowStoreShares`,
`CallControlProofs`, `TransputInvariant` and `TransputProofs`; `PROJECT.json` lists every run with its module, every definition with the
lines of the source it models, and for every property a slip in the code that breaks it.

## 1. Inventory

| Part | Files | State | Operations | What is hard |
|---|---|---|---|---|
| Heap and collector | `csrc/rt.c` | object list, free lists, quarantine, mark bits, worklist, byte counters, `gc_wanted` | `obj_alloc`, `GC_POLL`, `gc_collect` (mark, sweep, verify), `sweep heap` | a C variable holds an object while a collection becomes due; a root forgotten; a mark left set; counters that drift; cycles |
| Rows | `csrc/rt.c` | descriptors, stores, share counts `rc`, the borrow flag `pad2` | displays, names, slices, dereferencing, assignments, element writes, appending, the sweep's giving back of shares | copy on write trusts a count that is raised, lowered and borrowed in many places, and lowered again by a collection |
| Calls and jumps | `A68/Lower.lean`, `A68/Lower/Frames.lean`, `A68/Analysis/JumpFree.lean`, `csrc/rt.c`, `csrc/prelude.c`, `csrc/io.c` | C activations, environment chain, saved environments, operand stack, `a68_jump_flag`, chain of catches `io_top` | boxed and plain calls, standard procedures, event routines, raising, checking and landing a jump, `io_raise` | a jump crosses compiled routines, runtime calls and `longjmp`; checks that an analysis leaves out; recursion |
| Transput | `csrc/io.c` | file table, moods, events, associated strings, `printf`'s unpurged output, arena | `open`, `get`, `put`, `printf`, `getf`, events, the end of the program | an event routine runs in the middle of a call, moves the table, changes the associated string, or never returns |
| Formats | `csrc/io.c` | expanded pictures, stack of cursors | expansion with holes, `next_pattern`, writing and reading with a pattern | holes run the program; formats nested in formats; reading must take back what was written |
| Standard prelude | `csrc/prelude.c` | name cache | some two hundred procedures | mostly independent of each other |
| Operators | `csrc/ops.c`, `csrc/rt.c` | none | INT, REAL, BITS, CHAR and row operators, coercions | range checks at the boundary of INT; two paths to one answer; values compared by representation |
| Numbers | `csrc/bigint.c`, `csrc/mp*.c`, `csrc/fmt.c` | none | integers of any size, multi-precision reals, formatting | carries, normalisation, rounding |
| Mode tables | `csrc/tables.c` | parsed tables, conformity cache | start-up parsing, comparison of modes | recursive modes |
| Stack maps | `csrc/stackmap.c` | frame table | finding the roots of native frames | derived pointers |
| Evaluator | `A68/Interp.lean` | heap of cells, file table | one function per construct | the specification of all of the above |
| Front end | `A68/Lexer.lean` ... `A68/Elab.lean` | none | text to core language | sequential |
| Lowering, MIR, printers | `A68/Lower*.lean`, `A68/Optimizations`, `A68/MIR*`, `A68/CodeGen.lean`, `A68/LLVM.lean` | none at run time | code generation, folding, row caches | values cached in registers across slow paths |

A compiled function calls the runtime through entry points (`a68rt_*`); its operands pass through
the operand stack, its variables live in frames on the environment chain. The runtime calls back:
`call_value` runs a compiled procedure, `io_call_handler` an event routine, a format hole a piece of
a format. A collection may start in any entry point that allocates, before it does anything else. A
jump is a number in `a68_jump_flag` that every call site tests, and crosses a standard procedure by
`longjmp`. So every part shares the heap, the stack and the environment with every other one, and
each is correct only if the others keep to its protocol; that is what the properties are about.

The hazards, with their lines, are listed in `PROJECT.json` under `hazards`, those no property
covers yet with the reason.

## 2. Modules

| Module | Models | Against |
|---|---|---|
| `ManagedHeap` | what a collected heap promises | |
| `Collector` | the heap and the collector of `csrc/rt.c` | implements `ManagedHeap` |
| `CollectorProofs` | theorems about `Collector` | |
| `RowValues` | rows in the evaluator: values, nothing shared but what is lent to operands | |
| `RowStore` | rows in the runtime: descriptors, stores, counts | implements `RowValues` |
| `RowStoreInvariant`, `RowStoreProofs`, `RowStoreShares` | the invariant of `RowStore` with lemmas about its operations on heaps; its steps and theorems; the invariant of share counts | |
| `EvalControl` | calls and jumps in the evaluator: a jump is an exception | |
| `CallControl` | calls and jumps of a compiled program and its runtime | implements `EvalControl` |
| `CallControlProofs` | the invariant of `CallControl` with lemmas about its parts, its steps and theorems | |
| `Transput` | file table, moods, events, string files, standard output (`io.c`, `prelude.c`) | |
| `TransputInvariant`, `TransputProofs` | the invariant of `Transput` with lemmas about its operations; its steps and theorems | |
| `Induction` | induction up to a number, for the loops of `RowStore` and `Transput` | |
| `FormatText` | what a format promises a formatted call | |
| `NumberText` | texts of numbers (`fmt.c`, part of `io.c`) | |
| `Formats` | formatted output and input (`io.c`), on `NumberText` | implements `FormatText` |
| `BigInt` | integers of any size (`bigint.c`) | |
| `MultiPrecision` | LONG REALs (`mp.c`, part of `mprt.c`), on `BigInt` | |
| `Arithmetic` | what the operators mean | |
| `Operators` | the operators (`ops.c`, the fast path of `rt.c`), on `MultiPrecision` | implements `Arithmetic` |
| `MCCollector`, `MCRowStore`, `MCCallControl`, `MCTransput`, `MCFormats`, `MCOperators` | the instances the runs check | |

What one part takes from another is a guarantee of that one: entry points of `RowStore` are atomic
because `Collector` polls at their start only (`NothingHeldAtMark`); the frames of `Transput` unwind
as the catches of `CallControl` do (`CatchesNested`); `Formats` writes to a text whose file is
`Transput`'s, and the dynamic parts of its formats are `Hole` there; the numbers it writes are exact
decimals, of which `Operators` makes the digits (`DecimalRoundTrip`).

A definition marked "slip" in a module is not part of the model: it is the definition after it with a
mistake someone could make in the code, kept there so that one can see the property break.

### Collector

An entry point is a `Call`, any number of the runtime's primitives and a `Return`; the primitives are
allocation (`obj_alloc`), loads into C variables, writes to slots, bases, the operand stack and the
file table, and the operations on environments. `held` is what the C variables of the entry point
show to nobody. `PollCall` is an entry point that begins with `GC_POLL` while `gc_wanted` is set; a
poll anywhere else does not exist in the code, and the slip `PollMidCall` shows what it would do.
`gc_collect` is split into the steps whose order matters: the roots, one worklist entry at a time,
the quarantine's release, one swept object at a time, the verification. Sizes are one unit per
object. The object list, the free lists and the worklist are sets: the code's order never decides
what is marked or freed.

`Traced` (what `gc_mark` follows) is written apart from `Children` (what an object points at) and
`GcRoots` apart from `Roots`: the properties speak of the second of each pair.

### RowStore and RowValues

An entry point is one step, which is right because a collection runs only between two
(`NothingHeldAtMark` of `Collector`). A handler changes the heap several times; the operators take a
heap and return the next one, in the code's order, and are named after the functions they stand for
(`rowd_share`, `own_store`, `row_copy_into`, `row_replace`, ...). `pad2` is the mark of a borrowed
descriptor: one that refers to a store without being counted. `gc_sweep` takes back the shares of
dead descriptors, as the first loop of the code's sweep does.

The refinement maps every cell to the contents of its row and every operand to a value, to a row
that is lent, or to a part of a variable, so `ImplementsValues` says that cells, identities, rows
that were made or sliced, and names never show the sharing. Operands that were read from a cell may:
`rowd_borrow` (`rt.c:381`) does not raise the share count, so a row that waits on the operand stack
changes with an element assignment to its variable. The evaluator's value would not, `rt.c:9`
promises its semantics and `rt.c:15-18` that a shared store is copied first. No action is guarded
against it: any row may be written while any operands wait.
`RowValues` states what is left of the promise. A lent row (`pad2`) has the places whose elements it
shows (`Place`, `of`); after a write each of its elements is the one it had, or the one that such a
place in the variable written has now (`Follows`), and what it goes on to show is what is there
(`Agrees`). It takes nothing from other rows, keeps its length, and nothing else of the state
follows. The runtime parts the two at the first write that copies, and the mapping (`Places`) finds the
places by the store a row lies over.

The refinement holds for the programs of the run `rows`, which leave out flexible assignment with a
collection afterwards and a row of rows shared by two kept rows (section 5).

### CallControl and EvalControl

`acts` are the C functions in progress with the depths their labelled blocks noted, `env`, `saved`,
`stack`, `jump_flag` and `io_top` the runtime's variables of these names. A boxed call
(`call_value`) saves the environment, takes the closure's and pushes a frame; a plain one
(`natCall`, only where the captured environment is in effect) does none of this. A standard
procedure pushes a catch, and its event routine returns, mends the end of the file (`Mended`:
`io_raise` abandons the call) or jumps (`io_call_handler`: `io_raise` again). A jump sets the flag
and returns; `mode = "check"` is the test after a call, `jumpCheck` lands on a label of the function
or returns in turn. A block that an activation is not in has noted nothing: landing there takes any
depth. Which calls are followed by a test is decided by `jumpFreeSet`, which is the compiler's
analysis applied to the program's text.

The program is a table, `Text`: what each routine calls, passes on, gives to files as event routine,
and jumps to. Its steps come in any order the table allows. A jump inside `get` is caught twice in
the code (`get_items` and `call_builtin`); both restore the same depths, and the model has one catch.

`landing` is a history variable, the evaluator's state after the pending jump. The evaluator jumps at
once while the compiled program unwinds; the refinement shows the evaluator's state as `landing`
while the flag is set.

### Transput

`io` is one record: the file table, the handles the FILE variables hold, the disk, standard input and
output, the strings of the program, and the ghosts the properties need (`said`: all that was given to
standard output; `puts`: which entries wrote to a file; `opened`; `old`). `calls` are the standard
procedures in progress that have called back into the program: an event routine, a dynamic part of a
format, a string file. While one is there, the program may call any other procedure, jump out of it
or die; a jump unwinds `calls` as the catches do. `pf` is `printf`'s record of its unpurged output.
What a call does between two calls back is one step, with the flush, write-back or reload the code
ends it with. What a program uses is its `plan`, one of six scenarios, so that the ones that
interact meet in the same behaviour and the others do not multiply the states. The loops of the code
(characters taken while they belong to a value, items printed, catches unwound, files written back)
are recursive functions of a number. `Room` bounds the table and standard output by what a step
leaves there; `TakeWhile` goes on for at most `MaxText` characters of each line.

### Formats, NumberText and FormatText

`Formats` expands a format text to pictures as `walk_format` does, writes values with
`next_pattern`'s stack of frames and reads them back with `read_scalar_formatted`. `NumberText` has
the texts of numbers: `whole`, `fixed`, `float`, the layout of `print`, and the parsers. `FormatText`
is the promise: a format with everything it includes in its place is one sequence of pictures,
gone through again and again. Formatted reading has no promise of its own: its specification is that
it takes back what was written.

### BigInt, MultiPrecision, Operators and Arithmetic

`BigInt` has `bigint.c` limb by limb: Knuth's division with the estimate, its test and its
correction, and the conversions in chunks. `MultiPrecision` has `mp.c` digit by digit: alignment,
guard digits, rounding, normalisation, and the two division loops with their estimates. Both are
operators on sequences. `Operators` is a small program on them: a formula takes a variable and a
denotation, an operator is applied to them by the fast path of `rt.c` where it answers and by
`ops.c` where it does not, and the value is assigned to the variable. `Arithmetic` is what the
evaluator says: integers are integers, bits are sets, rows are sequences, and a LONG REAL is a
rational that is right to two units of its last digit (three for a quotient). Limbs, words,
representations and paths are not in it.

`Diverges` names the steps where the runtime parts from the evaluator, or both from arithmetic:
ABS and `-` of the LONG INT -2^63 wrap in a word (`ops.c:803`; exact in Lean); ABS of a LONG BITS of
2^63 or more is negative; the fast `+` of strings dies of an undefined character which the general
one copies; ENTIER and ROUND of a quotient with a negative last digit (section 5).

## 3. What the runs check

| Run | Properties | States |
|---|---|---|
| `collector_values` | `KeepsPromise`, `TypeOK`, `NoDangling`, `SweepExact`, `MarksClear`, `ListedOnce`, `NothingHeldAtMark` | 364k |
| `collector_verify` | `NeverAborts`, `HeapAccounting`, `DiesOfLiveObjects`, `QuarantineTurns`, `CollectionEnds` | 514k |
| `rows` | `ImplementsValues`, `KeptValues`, `TypeOK`, `RowsInBounds`, `LeavesFit`, `SharesCovered` | 544k |
| `control` | `ImplementsEval`, `JumpLands`, `TypeOK`, `NothingWhilePending`, `CatchesNested` | 171k |
| `transput` | `TypeOK`, `SoleWriterSaved`, `HandlesStable`, `NeverOlderThanCall`, `OutputInOrder`, `NulCutEnds`, `KeptAtDeath`, `PromptFirst` | 2.2M |
| `formats` | `TextFollowed`, `ReadBack` | 38k |
| `operators` | `ImplementsArithmetic`, `PathsAgree`, `NumbersCanonical`, `RealsNormal`, `OverExact`, `DecimalRoundTrip` | 242k |
| `collector_quarantine_doc`, `rows_flexible_doc`, `control_events_doc`, `control_recursion_doc`, `operators_sign_doc` | one each, violated | |

* `collector_values`: three blocks of the kinds SLOTS, LEAF and ROWD, one operand, one entry of the
  file table, two C variables, a collection wanted after every allocation. Three blocks make chains,
  sharing, cycles and self references; two variables are what every primitive takes at most.
* `collector_verify`: two blocks of the kinds SLOTS and FRAME with a saved environment and native
  frames, verify mode, a heap limit of one object. Four collections go round the quarantine; more
  blocks only wait there longer.
* `rows`: six programs, each with a variable and an identity, rows of two elements at most (three
  when growing), one to three operands, three to eight descriptors: names of parts of a variable, a
  string that grows in place, a row of rows, a flexible variable between two collections, and two in
  which rows, and elements of a row of rows, wait on the operand stack while their variable is
  assigned, whole, in part and by element. One variable and one identity are the two parties of every sharing; a store is shared three ways by
  variable, identity and operand. `small` and `large` are an element a leaf store can hold and one it
  cannot, so that widening happens. Addresses run out where a program has no collection: it stops
  there, and deadlock is not checked.
* `control`: a main program with a labelled block and seven routines, two of them with a labelled block
  of their own (`p`, and `v` with a plain entry point); boxed and plain
  ones, recursive ones, one that calls its parameter; five activations, one operand each. Five is a
  particular program, a routine with a block, a standard procedure, its event routine and one more
  call: a jump then crosses every kind of call, with catches nested in each other.
* `transput`: one FILE variable, one name on disk and one string; texts of two or three characters;
  up to seven entries in the table (three or four are the standard files) and five calls in
  progress. One name is enough for a file open twice, which takes two entries; a string file whose
  format opens a file and jumps needs the depth of five. A program may end, stop or die, so
  deadlock is not checked.
* `formats`: 23 format texts, one for each kind of item, for nesting and for an end in the middle,
  each with one value, with every two values, with enough values to go round a collection twice, and
  followed by every other; beside them every mould of at most five frames of `z`, `d`, a sign and an
  insertion, with four numbers. Five frames put the sign before, between and behind suppressed and
  blanked digits. Values are chosen so that some do not fit. A script ends, so deadlock is not checked.
* `operators`: limbs of 4 bits and words of 8, so that all of a carry, a quotient guess one too large,
  its correction, and the limit of a word are met by numbers of up to four limbs; the modes have 3
  and 4 decimal digits, BITS of 4, 9 and 13. Reals have 4 and 5 digits of radix 6 with exponents up
  to 4: an even radix, so that the tie of the rounding exists, and small enough that sums cancel,
  carry through all digits and run out of range. Two formulas one after the other
  (`Formulas`) give every operator operands that another one made. Radix 6 with 4 digits holds more
  than the range of a LONG INT, as the code's sizes do.

Bounds: `MaxHeld`, `MaxNative` (objects in C variables and native frames), `MaxLen`, `Spare`, `sp`,
`descs`, `stores` (row length, room of an append, operand stack, addresses), `MaxActs`, `MaxOps`
(activations, operands of one), `MaxText`, `files`, `depth`, `out` (texts, file table, calls in
progress, standard output), `Formulas`, `MaxExpo`, and the sets of addresses. Share counts wrap at
`RcMod = 16`; a count never gets near it in these instances.

`CollectionEnds` assumes weak fairness of the steps of `gc_collect`, and `JumpLands` weak fairness of
`jumpCheck`. Both are plain sequential C: once begun, nothing else of the program runs until the
function returns or the test has been made. Nothing is assumed of the program itself, which may
stop or loop.

What the less obvious properties say:

* `SoleWriterSaved`: what went through one opening of a file is on disk at the end, whatever was
  opened, rewound and read besides. Two openings that both write have no such promise: the one
  later in the table wins.
* `HandlesStable`: an entry that `with_string_file` takes off the table is its own, also after an
  event routine opened others behind it or a jump left the reading.
* `NeverOlderThanCall`: a string changed between two calls is read anew. (`eof` is not a reading: it
  answers from the buffer of the last one.)
* `KeptAtDeath`, `PromptFirst`: what an error discards and what a prompt needs out are about the same
  buffer; each is about formatted calls nested in dynamic parts of formats. `KeptAtDeath` and
  `NulCutEnds` leave out behaviours in which a formatted call was left by a jump, for the reason in
  section 5.
* `ReadBack` leaves out patterns that lose something: a sign that moves past an insertion, a choice
  out of range, an integer with a point, and those named in section 5.
* `OverExact`: a comment in the evaluator (`A68/Interp.lean:589-595`) says that whole-number OVER and
  MOD give what a68g computes on reals with guard digits. `mp_over` and `mp_mod` are computed beside
  them and compared.
* `NumbersCanonical`: comparison of rows goes by representation, so a number must have one.

## 4. What is proved

`CollectorProofs` proves, for any finite set of addresses, any number of slots, roots and files,
any mode and limits:

* `TypeCorrect`: `Spec => []TypeOK`.
* `HeapSafe`: the inductive invariant `HeapInv`. `NoDangling` is not inductive: half way through a
  sweep, the object list still has garbage and what keeps reachable objects apart from it are marks.
  `Survivors` is the set of what the collection in progress will leave (everything before the
  sweep; what is marked or not garbage during it), and `ClosedHeap` says that it contains what the
  program holds and is closed under its pointers. `Marking` is the tri-colour argument: a marked
  object not on the worklist has marked children. `HeldInCallOnly` carries the discipline of
  `GC_POLL`, `FrameChain` and `Unpoisoned` serve the verifier. Each action preserves it in a step of
  its own; `ReachInClosed` turns closure into reachability without any induction, since `Reach` is
  defined as the least closed set.
* `NoDanglingReference`, `MarkBitsClear`, `PollsHoldNothing`, `VerifierNeverAborts` follow from it.
* `SweepLeavesNoGarbage`: `Spec => []SweepExact`, by the converse of the tri-colour argument
  (`OnlyReached`): what is marked, and later what the sweep keeps, the roots reach. `ReachKept` says
  that reachability is not lost while the sweep poisons garbage.
* `BlocksListedOnce`: `Spec => []ListedOnce`, from `HeapInv`, which gives that a swept object is listed.
* `HeapKeepsPromise`: `Spec => Promise!Spec`, the refinement of `ManagedHeap`. `SameReach` shows that
  the two notions of reachability agree; a primitive of a runtime call is a `Mutate`, `SweepFree` a
  `Reclaim`, and every other step of the collector changes nothing the abstract heap has.

* `CountersAgree`: `Spec => []HeapAccounting`, and `OnlyLiveObjectsKill`: `Spec =>
  []DiesOfLiveObjects`. `Counted` says what the counters are at each point of a collection: during
  the sweep `bytes_live` is what has been visited and kept, after it the list is what the roots reach
  (that is `SweepExact`), so a program that dies of `A68LEAN_HEAP` has that much reachable.
* `TurnsKept`: `Spec => QuarantineTurns`, the action property of verify mode. `Released` says
  that the slot of the collection before the last three is empty from the sweep on, so no block
  in the quarantine passes from age 3 to 0; `BlocksListedOnce` makes the age of a block one number.

The assumptions are those of the module: `Nil` is no address, addresses are finite, the modes are
Boolean.

`RowStoreProofs` proves, for any cells, addresses, elements and programs:

* `SpecRow`: the inductive invariant `RowInv`.
* `RowTypeOK` (`TypeOK`), `RowBounds` (`RowsInBounds`), `RowLeaves` (`LeavesFit`).

`RowsInBounds` is not inductive: a row that no cell reaches now may be copied from later, an assignment
writes a store through one descriptor while others look at it, and what `row_replace` leaves behind
must not come back. `Good` therefore speaks of every descriptor, garbage included: its extent lies
inside its store, or it is a `View` that lies inside the extent of a variable, whatever store that has.
The second kind needs the variable to keep its extent, so the handlers have to be kept from changing
the descriptors of cells except where they mean to. That is `Apart`: no two cells and no cell and
operand share a descriptor; and `Elem`: a descriptor in a row is in no cell and on no stack, and has a
store of scalars, so that assigning an element, which writes through it, moves nothing else.
Stores hold scalars only or rows only (`Scalars`, `Rows`), but for one that is being filled, `O`.
A handler is a chain of operations on a heap, and a loop of them for a copy: `Does(H, G, ...)` says
that G is `Good` and took at most so many addresses, and by `Keeps` that every descriptor but those
named has the extent it had in H, over a store of the same kind of elements; it is proved for each
operation, composed, and carried through the loops by `Steps`. `Uses` gives an action the addresses it needs, and `FreeD`, `FreeS`
count what is left of them. The sweep keeps what is `Closed`: no descriptor or store that is kept points
at one that is not.

Each theorem has two hypotheses about the instance. `NamesKeepBounds`: a program that names parts of
variables has no flexible ones. The runtime lets the name of a part outlive a change of bounds
(`rt.c:1933`) and would then read past the store; Algol 68 forbids a program to keep such a name, and
the model has no such check to show. `NoEmptySlices`: an empty part has an offset that may lie
behind its variable's next store, where nothing is read. All programs of the run `rows` meet both.
`Addresses`, `Cells`, `Elements` and `Sizes`, the module's own assumptions, say that addresses are
finite sets of numbers, that elements are not addresses, that denotations and rows have at most the
lengths the bounds give; TLC evaluates them in `MCRowStore`.

`RowStoreShares` proves `RowShares`, `Spec => []SharesCovered`: a store is never taken for a row's own
while a value kept elsewhere has a share of it, which is what copy on write rests on. `SharesCovered`
is not inductive: a sweep takes shares back for descriptors nothing leads to, so the count has to be
right for garbage as well. `Counted` is about all descriptors: the count of a store is at least the
number of those with a share of it (`Sharers`), and at most one more, for a leaf that gave way to
slots keeps its count. The descriptors of cells and of elements have shares, not borrows; those on the
operand stack may have either. The exceptions are in a set `X`: `row_replace` gives the copy's store to
the variable and leaves the copy's descriptor behind, with a share that no count knows of. Nothing
leads to a descriptor in `X`, and while there is no sweep it does no harm. A sweep would take its share
back, so `TallyInv` has `X` empty in a program that sweeps. The lemmas follow one share through each
operation (`PutCounted`, `GrowCounted`, `BoundCounted`, ...), `Tallied` through each action, and
`SweepTallied` shows that giving back, one after the other, the shares of what the sweep frees leaves each
count right for what it keeps. TLC checked `TallyInv` on the run `rows` first.

`RowShares` has the two hypotheses of the other theorems and two more. `CountsSuffice`: descriptors are
fewer than a count of 32 bits (`RcMod`) tells apart. `SweptSteadily`: a program that sweeps does not replace
rows, that is, assign to rows of rows or to flexible rows other than by appending, and has no empty
display. It is needed: `rows_flexible_doc` is such a program, and there the count is lost, the
variable's store is taken for its own and a kept value changes. Programs that do not sweep may do all of that. All programs
of the run `rows` meet both.

`RowValuesKept`, in the same module, proves what the counts are for, `Spec => KeptValues`: while an
identity is not declared again, no step changes what is in its row. The row and the rows in it are
`Frozen`: by `RowInv` none of them is a variable's or an operand's, by `TallyInv` each has a share
that is counted. So the store of a variable is either none of theirs (`Alone`) or has a count above
one, and then `own_store` takes a copy. `Still` says that an operation leaves such rows with their
descriptors and stores; it is proved for each operation on the heap (`NewStill`, ...), for each
action (`AssignStill`, `AppendedStill`, ...) and for the sweep, which keeps them because a cell leads
to them. `ContentsStill` then reads the same contents off both heaps. One hypothesis is added to
those of `RowShares`, `KeptApart`: a program that keeps a row of rows does not assign rows or elements
of rows, whole or through names of their parts. It is needed too: `store_copy` copies the slots of a row
of rows as they are, so variable and value share the descriptors of the elements, and with
`Programs <- ElementsKept` TLC shows the value change. All programs of the run `rows` meet it.

`CallControlProofs` proves, for any set of routines, any text of the program, any number of calls in
progress and of operands:

* `ControlInvariant`: the inductive invariant `ControlInv`.
* `DepthsStand` (`TypeOK`), `JumpsAreSeen` (`NothingWhilePending`), `CatchesAreOpen`
  (`CatchesNested`).

Each is of the form `NoReentry /\ EventsJumpFree /\ Spec => ...`. The two hypotheses are about the
text, and they are needed: without `EventsJumpFree` the run `control_events_doc` finds a call not
followed by a test, without `NoReentry` the run `control_recursion_doc` finds a jump in the wrong
activation. TLC evaluates both in `MCCallControl`: `control`'s program meets them, the programs of the
two other runs do not. The module's own assumptions say that a label belongs to a routine and that
tokens are not values.

`Core` relates the C functions in progress to the environment, the saved environments, the
operand stack and the catches: one saved environment for each boxed call (`Counts`), operands one
above the other (`Heights`), for each block the depth it noted, with its frame right there and no
frame of its call beside it (`Noted`, `Placed`), and no frame of a call that has ended, but for the
environment in effect while a jump is pending (`Live`). It is stated of five values, so that a return,
which a step may do twice, is one lemma. `Within` says that what runs above a call is in the extent of
its routine, `Quiet` that above a call site without a test only routines run that the analysis found
free of jumps. `Pending` is what a jump in progress needs: its block is below, and every call
site on the way tests the flag. The steps are then short. A jump is raised only by a routine that is
not free of jumps, so by `Quiet` all call sites are tested; it lands in the right activation, for
a second one of the same routine would run in its own extent, which `NoReentry` excludes; and what
the block noted is still in place by `Noted`. `Stacked` is the part of `TypeOK` that says noted depths
lie inside.

`TransputProofs` proves, for any names, strings, handles and scenarios, all eight properties of the
run `transput`:

* `TransputInvariantHolds`: the inductive invariant `TransputInv`.
* `TypesHold` (`TypeOK`), `WritersSaved` (`SoleWriterSaved`), `HandlesKept` (`HandlesStable`),
  `StringsFresh` (`NeverOlderThanCall`), `OutputKept` (`OutputInOrder`), `CutsEnd` (`NulCutEnds`), and
  the action properties `DeathKeeps` (`KeptAtDeath`) and `PromptsPrecede` (`PromptFirst`).

None of the eight is inductive. A handle keeps its file because it is behind the standard files
and is not a string file (`Held`), because a string file is taken off the table only when it is
the last entry, and because an event routine that jumps takes the string files above it away: so
`InCalls` says that each string file of a call in progress lies above every entry that the calls
around it use (`OnTop`). What was written is saved because a text that waits to be saved under a name
is in an entry that has written under it, and the text of the only writer waits or is on disk
(`Saving`, `Wrote`). A stale character is not read because the buffer of a call of `get` is a value its
string has had since the call began (`Seen`). An error drops no finished output because what `printf`
notes in `pf` belongs to a `printf` still in progress, at every depth (`Begun`), unless one was left by
a jump. These parts are stated of a world `w`, not of the variable, since a step of the code is a
chain of operations: `Reading` and `Writing` say what an operation on the files may change, lemmas
compose them, and `Stepped` says what a step did for the action properties.

The assumptions: `Tokens` (`Nobody` is no name or text, a handle no number), `Shapes` (the scenarios
are records of the right kinds), `Lengths` (their texts have at most `MaxText` characters; only the
bound of `TakeWhile` needs it), and `StandInKept`: a scenario that reads standard input does not open
stand in as another file. The runtime takes lines from C's standard input whatever the entry of stand
in says, so after such an opening the entry and what is read have nothing to do with each other. TLC
evaluates all four in `MCTransput`, and it checked each of the four inductive invariants on the
instance of its run before it was proved.

Bounds such as `MaxActs`, `MaxText` or `Room` are constants in the theorems too: they cap the behaviours,
but at any number.

What stays with TLC:

* `CollectionEnds` and `JumpLands`, which are liveness.
* `ImplementsEval`, whose mapping filters the sequence of frames of every environment (`SelectSeq`),
  a step by step proof of which needs a theory of filtered sequences the library does not have.
* `ImplementsValues` of `RowStore`. It compares rows element by element with the evaluator's values,
  which needs, for each operation of `RowStoreInvariant`, that it keeps the contents of every row but one.
* `Formats` and `Operators` with the modules below them. The texts of `Formats` and the algorithms of
  `BigInt`, `MultiPrecision` and `NumberText` are recursive over data. The library's induction
  theorems cannot be instantiated here; induction over a number can be done with a set that has a least
  element (`LeastNumber`, `Steps` in `Induction`), as for the loops of `RowStore` and `Transput`.

The theorem worth having next is that refinement, for programs without shared rows of rows:
`RowValuesKept` is its part about identities, that a write never reaches the store of a kept value. What is
left is the part about variables, that each operation puts in the variable what the evaluator does.

## 5. Where the code and its documentation differ

The runs that are expected to fail:

* `collector_quarantine_doc`: `docs/GC-DESIGN.md:309-311` says that verify mode keeps a freed object
  for four collections and looks for pointers to it at each; `rt.c:788-792` says it is kept for
  `QUARANTINE` collections. `gc_collect` empties the slot `gc_collections + 1` before it sweeps: the
  object freed by one collection is released by the third after it, before that one's verification,
  and is there at three. `QuarantineTurns` of the passing run is what the code does: a ring in which
  every block has its turn.
* `rows_flexible_doc`: `row_replace` gives the copy's store to the variable and leaves the copy's
  own descriptor behind, not marked as a borrow. The next sweep takes a share back for it although
  the variable has the store, the count falls to 0, and after the next share two owners count as one:
  a write to the variable then changes a value kept elsewhere.
* `control_events_doc`: `mayJumpOut` takes every standard procedure for one that cannot jump, but
  transput runs event routines, which may. The call of a plain routine around it is not followed by a
  test, and the program goes on with a jump pending.
* `control_recursion_doc`: a pending jump lands on any label of the function that is returned to, also
  in an activation that has not entered the block. The evaluator's jump goes to the block that runs.
  The passing run has no routine with a label that comes to run again inside itself.
* `operators_sign_doc`: `div_loop` settles the digits of a quotient down to the last but one. When an
  estimate one too large is followed by negative digits, the last digit is stored below zero:
  `LONG REAL` 1 / (2 + 1e-42) gives the digits 5000000 0 0 0 0 0 -2500000. `mp.h:10-11` says that only
  the first digit carries the sign, and the conversions to text print a minus sign in the middle.
  The conversions of the evaluator add the negative digit. `Ragged` is such a number, `Garbled` the
  text made of it, which no later step reads.

Seen while modelling, and kept out of the passing runs or stated as an exception there:

* Rows: `store_copy` copies the element descriptors of a row of rows as they are, and an element is
  assigned through its descriptor: a kept row of rows changes with the variable (`KeptValues` in
  `rows_flexible_doc.cfg` with `Programs <- ElementsKept` shows it). The borrowed operand of section 2:
  Algol 68 leaves the order of elaboration of operands open; the evaluator does not, and its
  operand keeps its value.
* Transput: a `printf` left by a jump from a dynamic part of an included format leaves `pf_active`
  set (`io.c:1821-1824`), so that a later error drops finished output (`io.c:380-382`); the NUL flag
  stays set in the same way (`COMPATIBILITY.md:192-197` says so). `eof` on an associated file answers
  from the buffer although the string has changed. Opening stand back a second time replaces its
  entry and with it text not yet written. `stop` does not write files back, nor does the evaluator.
* Formats, the evaluator alike unless said: a formatted read with a format of insertions only
  never ends (`io.c:1846`); `float` and `real` of zero with an exponent frame of 0 or less never
  return; `fixed(0.95, 0, 1)` gives "1". What a format writes is not always what it reads: "+5" of a
  plus frame is no INT; a mould of `z` only blanks a 0, and `z+` drops its sign; a sign next to
  or behind an insertion is misread; trailing insertions are not skipped beyond an included format; a
  C pattern with `+` reads one character more than its width, with `-` refuses the blanks it wrote,
  and `%w.af` writes w + a + 2 characters and reads w; columns are not skipped.
* Reals, the evaluator alike: the difference of infinities is taken as the sum, so x - inf is
  +inf; NaN <= x and NaN >= x hold; SIGN, ENTIER and ROUND of an infinity answer from stale digits; a
  comparison subtracts and can end the program by overflow; ROUND of a whole number that fills all
  digits adds 1 or 2; all nines less half a unit leaves a first digit equal to the radix, and ENTIER of
  it passes the range of LONG INT unchecked. `RealsNormal` and `NumbersCanonical` name these exceptions.
* Operators: the steps of `Diverges`. ABS of a BITS with its top bit set makes an INT of
  -(max int + 1), in the evaluator too; the weights of SHORTEN of a LONG INT wrap at 32 bits and LENG of
  BITS keeps one or two digits, both documented as a68g's.

## 6. Hazards without a property

`PROJECT.json` lists every hazard with its line. Those no property covers: fields of structures in
rows (`ref_field`), since `RowStore` has no structures; 32-bit store sizes, a single conversion that a model could only repeat; the endless
formatted read, which is one C loop; -2^63 in a word, a `Diverges` step; the row cache of
the compiler, which is code generation.

## 7. Not modelled

* Structures and unions in rows, several dimensions and lower bounds other than 1 (`RowStore`): the
  last two differ only in how an index is computed; structures would need objects of their own.
* Run-time errors and `stop` in `CallControl` (they end the program; `Transput` has what they do to
  output), calls through a parameter that go to a plain entry point (tested like boxed ones).
* Pipes, binary items and the columns of plain output (`Transput`); COMPL and new pages (`Formats`).
* The short REAL and COMPL, which are C doubles; BYTES; `**` of LONG REALs; `tenth_abs` and the double
  rounding of a quotient's numerator in `MultiPrecision`, which need the code's own radix; the
  conformity of united modes (`Operators`).
* The elementary functions in multi-precision (`mpmath.c`): numerical analysis, out of TLC's reach.
* The procedures of the standard prelude that are not transput: independent functions, mostly calls
  of the C library.
* The front end, the lowering of MIR, its passes and the printers: sequential translations of text,
  the passes proved in Lean. What the compiled code does at calls, labels and tests of the flag is in
  `CallControl`.
* Wrappers of system calls, the start-up parsers of the mode tables and of LLVM's stack maps, the tests
  and the fuzzer, and the Lean proofs, which are about models of their own.
