---- MODULE MCAnswer ----
(* Deltas: a word, a blank, a short sentence, a decimal point, and a sentence *)
(* and a line longer than a chunk.                                            *)
EXTENDS Answer
MCDeltas == {<<"letter">>, <<"space">>, <<"letter", "dot">>, <<"digit", "dot", "digit">>,
             <<"letter", "letter", "space", "letter", "mark">>,
             <<"letter", "letter", "letter", "letter", "newline">>}
====
