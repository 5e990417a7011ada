------------------------------- MODULE MCVad -------------------------------
(***************************************************************************)
(* TLC instance of Vad: a unit of time stands for 10 ms, a caller mixes    *)
(* frames of one and two units, an utterance needs two units of speech, is *)
(* capped at four and ends after three units of silence; the lead-in ring  *)
(* holds two.                                                              *)
(***************************************************************************)
EXTENDS Vad

MCFrameMs == {1, 2}
=============================================================================
