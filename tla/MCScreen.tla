------------------------------ MODULE MCScreen ------------------------------
(* Three work rows of five columns, or of seven; the gutter grows with the *)
(* third line and leaves two or three columns, so that lines of a few      *)
(* characters wrap.  One file has a digraph that leaves a column unused,   *)
(* one more lines than there are rows, and one a line too long for them.   *)
EXTENDS Screen

MCTexts == {<<"a", "a", "{", "\n", "a">>,
            <<"a", "\n", "a", "a", "\n", "\n">>,
            [i \in 1 .. 9 |-> "a"]}
MCKeys == {"a"}
=============================================================================
