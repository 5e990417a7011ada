----------------------------- MODULE Conversation -----------------------------
(***************************************************************************)
(* What the turns of a session promise each other, whoever runs them: each *)
(* is one step for the others.  It adds its question and its answer        *)
(* together, or its question alone if it came to nothing, or nothing; and  *)
(* it does so once.  Only an exchange that is whole makes the conversation *)
(* forget, and then whole turns from its front, as few as it must.         *)
(***************************************************************************)
EXTENDS Integers, FiniteSets, Sequences

CONSTANTS Turn,             \* the turns
          MaxHistoryTurns   \* the questions remembered when a turn is answered

VARIABLES log,    \* the conversation, as the next turn will find it
          over    \* the turns that have had their say

Asks(t)    == [role |-> "user", turn |-> t]
Answers(t) == [role |-> "assistant", turn |-> t]

Init == log = <<>> /\ over = {}

Questions(h) == {i \in DOMAIN h : h[i].role = "user"}

From(h, k) == SubSeq(h, k, Len(h))

\* What is left of h: all of it, or its last MaxHistoryTurns questions with all that
\* follows the first of them.
Recent(h) ==
  IF Cardinality(Questions(h)) <= MaxHistoryTurns THEN {h}
  ELSE {From(h, k) : k \in {k \in Questions(h) \cup {Len(h) + 1} :
                              Cardinality(Questions(From(h, k))) = MaxHistoryTurns}}

Exchange(t) == log' \in Recent(log \o <<Asks(t), Answers(t)>>)

Unanswered(t) == log' = Append(log, Asks(t))

Silent == UNCHANGED log

TakesTurn(t) ==
  /\ t \notin over
  /\ over' = over \cup {t}
  /\ Exchange(t) \/ Unanswered(t) \/ Silent

Next == \E t \in Turn : TakesTurn(t)

Spec == Init /\ [][Next]_<<log, over>>
=============================================================================
