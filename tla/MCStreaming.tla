----------------------------- MODULE MCStreaming -----------------------------
EXTENDS Streaming

MCKeywords == {<<"i", "f">>, <<"e", "l", "s", "e">>}

(* What a file is put together from. *)
Pieces ==
  {<<"a", "\r">>,
   <<"i", ";", "f", "=", "=", "7", "\r", "\n">>,
   <<"i", "f", " ", "a", "{", "a", "\n", "}">>,
   <<"\r", "e", "l", "s", "e", "{", "}", "\r">>,
   <<"\"", "\\", "(", "a", ")", "}", "\"", "\r">>,
   <<"/", "*", "\n", "*", "/", "f", ";">>,
   <<";", ";", ";", ";">>}

(* A file of none is too short to matter, one of four long enough to slide twice. *)
Maybe == Pieces \union {<< >>}

(* A statement that fills the window and goes on. *)
TooLong == FoldLeft(LAMBDA text, i : text \o <<"a", " ">>, <<>>, [i \in 1 .. 11 |-> i])

MCFiles ==
  {p \o q \o r \o s : p \in Maybe, q, r, s \in Pieces} \union
  {<<"6", "5", "5", "3", "6">>, <<"4", "0", "0", "0", "0">>, <<"&">>,
   <<"\"", "a">>, <<"\"", "\\", "a", "\"">>, <<"i", "f", ";">>, <<"}">>,
   <<"\"", "\\", "(", "a">>, <<"i", "f", " ", "a", ";">>, <<"{">>,
   <<"i", "f", " ", "a", "{", "}", "e", "l", "s", "e", ";">>,
   <<"i", "f", " ", "a", "{", "}", "e", "l", "s", "e", " ", "i", "f", " ", "f", "{", "}">>,
   <<"i", "f", " ", "a", "{", "/", "/", "a", "\r">>,
   TooLong}
=============================================================================
