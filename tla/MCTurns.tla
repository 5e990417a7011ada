------------------------------ MODULE MCTurns ------------------------------
(***************************************************************************)
(* TLC instance of Turns: the turns of connections and of HTTP requests    *)
(* that meet in one session.                                               *)
(***************************************************************************)
EXTENDS Turns

CONSTANTS w1, w2, h1

MCWsTurns == {w1, w2}
MCHttpTurns == {h1}
=============================================================================
