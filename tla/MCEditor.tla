------------------------------ MODULE MCEditor ------------------------------
(* Texts of up to five tokens, in files of which one is Swift.  They hold  *)
(* what each part of the translators is there for: a string that two       *)
(* markers turn into capitals, an escape, a comment, digraphs, and lines   *)
(* ended as DOS does that just fit the buffer once capitals are marked.    *)
EXTENDS Editor

Prog == "prog.swift"
Notes == "readme.txt"

MCFiles == {Prog, Notes}
MCSwift == {Prog}
MCDisks == {[n \in {Prog} |-> <<"quote", "a", "a">>],
            [n \in {Prog} |-> <<"/*", "A", "\n", "<%">>],
            [n \in {Prog} |-> <<"quote", "\\", "a">>],
            [n \in {Prog} |-> <<"quote", "??/", "\\", "a">>],
            [n \in {Notes} |-> <<"A", "\r", "\n", "A">>],
            [n \in MCFiles |-> IF n = Prog THEN <<"A", "*/">> ELSE <<"??/", "A">>]}
MCKeys == {"a", "'", "ctrl-w"}
=============================================================================
