----------------------------- MODULE MCTransput -----------------------------
(* Small instances of Transput: what the program uses, in three scenarios. *)
EXTENDS Transput

Nothing == [n \in Names |-> Nobody]
X == <<"x">>
Line == <<"nl">>
Blank == [uses |-> {}, reads |-> {"char"}, disk |-> Nothing, stdin |-> <<>>, fids |-> {}, texts |-> {},
          items |-> {<<X>>}, pieces |-> {}, regression |-> FALSE, files |-> 6, depth |-> 1, out |-> 2]

\* files on disk, opened again while open, the entry of stand back replaced
Disk == [Blank EXCEPT !.uses = {"open", "establish", "close", "scratch", "reset", "put", "get"}, !.fids = {StandBack}]
\* an associated string that the program and its event routines change
Strings == [Blank EXCEPT !.uses = {"associate", "assign", "on", "get", "set", "eof", "reset", "put", "term"},
                         !.reads = {"char", "value", "string"},
                         !.texts = {<<"1", "nl">>}, !.files = 5, !.depth = 2]
\* string files, with files opened and jumps out of the formats inside
Temps == [Blank EXCEPT !.uses = {"create", "associate", "gets", "puts", "hole", "jump"}, !.pieces = {X},
                       !.files = 7, !.depth = 5]
\* standard output: formatted calls inside dynamic parts, NULs, jumps, errors
Output == [Blank EXCEPT !.uses = {"put", "printf", "hole", "jump", "error", "stop"}, !.fids = {StandOut},
                        !.pieces = {X, Line, <<"nul">>}, !.items = {<<<<"nul">>, X>>}, !.files = 4, !.depth = 3, !.out = 3]
\* prompts: a line of input is taken in the middle of a formatted call
Prompts == [Blank EXCEPT !.uses = {"put", "printf", "hole", "error", "get", "newline"}, !.fids = {StandOut, StandIn},
                         !.stdin = <<Line>>, !.pieces = {X}, !.depth = 3, !.out = 3]
OutputOnly == {Output}
MCScenarios == {Disk, Strings, Temps, Output, Prompts, [Prompts EXCEPT !.regression = TRUE]}
=============================================================================
