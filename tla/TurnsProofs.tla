----------------------------- MODULE TurnsProofs -----------------------------
(***************************************************************************)
(* What holds of Turns for any turns, limits and tool rounds.              *)
(***************************************************************************)
EXTENDS Turns, Counting, SequenceTheorems, FunctionTheorems

Message == [role : {"user", "assistant"}, turn : Turn]

Types ==
  /\ history \in Seq(Message)
  /\ holder \in Turn \cup {NoTurn}
  /\ pc \in [Turn -> Inside \cup {"idle", "waiting", "finished"}]
  /\ completed \in [Turn -> BOOLEAN]

(* A turn is at an await of Inside exactly while it holds the session.      *)
Exclusive == \A t \in Turn : pc[t] \in Inside <=> holder = t

(* While a turn thinks its question is the last message, and there is no    *)
(* other message of it.                                                     *)
QuestionIsLast ==
  \A t \in Turn : pc[t] \in Thinking =>
    /\ history # <<>> /\ history[Len(history)] = User(t)
    /\ \A i \in DOMAIN history : history[i].turn = t => i = Len(history)

(* A turn that has not begun has no message in the history.                 *)
NotYetHeard ==
  \A t \in Turn : pc[t] \in {"idle", "waiting", "locked"} =>
    \A i \in DOMAIN history : history[i].turn # t

(* A turn past its answer has no question without one.                      *)
PastAnswer ==
  \A t \in Turn : pc[t] = "completing" \/ completed[t] =>
    /\ pc[t] \in {"completing", "closing", "responding", "finished"}
    /\ \A i \in DOMAIN history :
         history[i] = User(t) => i < Len(history) /\ history[i + 1] = Assistant(t)

IInv == Types /\ Exclusive /\ QuestionIsLast /\ NotYetHeard /\ PastAnswer /\ AnswersFollow

-----------------------------------------------------------------------------
(* trim_history leaves the end of the history, from a question on: nothing, *)
(* or what stands from index k on.                                          *)
LEMMA TrimWindow ==
  ASSUME NEW h \in Seq(Message)
  PROVE  /\ TrimHistory(h) \in Seq(Message)
         /\ \E k \in 1 .. Len(h) + 1 :
              /\ Len(TrimHistory(h)) = Len(h) - k + 1
              /\ \A i \in 1 .. Len(h) - k + 1 : TrimHistory(h)[i] = h[i + k - 1]
              /\ k = 1 \/ k = Len(h) + 1 \/ h[k].role = "user"
<1> DEFINE excess == Cardinality(Users(h)) - MaxHistoryTurns
           first == {i \in Users(h) : Cardinality({j \in Users(h) : j < i}) = excess}
           k == CHOOSE i \in first : TRUE
<1>1. Len(h) \in Nat /\ DOMAIN h = 1 .. Len(h)
  BY LenProperties
<1>2. CASE excess <= 0
  <2>1. TrimHistory(h) = h
    BY <1>2 DEF TrimHistory
  <2>2. /\ 1 \in 1 .. Len(h) + 1 /\ Len(h) = Len(h) - 1 + 1
        /\ \A i \in 1 .. Len(h) - 1 + 1 : h[i] = h[i + 1 - 1]
    BY <1>1
  <2> HIDE DEF excess, first, k
  <2> QED
    BY <2>1, <2>2
<1>3. CASE ~(excess <= 0) /\ first = {}
  <2>1. TrimHistory(h) = <<>>
    BY <1>3 DEF TrimHistory
  <2>2. TrimHistory(h) \in Seq(Message) /\ Len(TrimHistory(h)) = 0
    BY <2>1
  <2> HIDE DEF excess, first, k
  <2>3. Len(h) + 1 \in 1 .. Len(h) + 1
    BY <1>1
  <2>4. Len(h) - (Len(h) + 1) + 1 = 0
    BY <1>1
  <2> QED
    BY <2>2, <2>3, <2>4
<1>4. CASE ~(excess <= 0) /\ first # {}
  <2>1. TrimHistory(h) = SubSeq(h, k, Len(h))
    BY <1>4 DEF TrimHistory
  <2>2. k \in Users(h)
    BY <1>4
  <2> HIDE DEF excess, first, k
  <2>3. k \in 1 .. Len(h) /\ h[k].role = "user"
    BY <1>1, <2>2 DEF Users
  <2>4. \A i \in k .. Len(h) : h[i] \in Message
    BY <1>1, <2>3, ElementOfSeq
  <2>5. /\ SubSeq(h, k, Len(h)) \in Seq(Message)
        /\ Len(SubSeq(h, k, Len(h))) = Len(h) - k + 1
        /\ \A i \in 1 .. Len(h) - k + 1 : SubSeq(h, k, Len(h))[i] = h[k + i - 1]
    BY <1>1, <2>3, <2>4, SubSeqProperties
  <2>6. k \in 1 .. Len(h) + 1 /\ \A i \in 1 .. Len(h) - k + 1 : k + i - 1 = i + k - 1
    BY <1>1, <2>3
  <2> QED
    BY <2>1, <2>3, <2>5, <2>6
<1> QED
  BY <1>2, <1>3, <1>4

-----------------------------------------------------------------------------
(* A turn at an await of its own keeps the conversation as it is.           *)
Quiet(t) ==
  /\ UNCHANGED <<history, holder, completed>>
  /\ \E to \in Thinking \cup {"failed", "closing"} :
       /\ pc' = [pc EXCEPT ![t] = to]
       /\ pc[t] \in Thinking \/ (pc[t] = "failed" /\ to \notin Thinking)

(* Each step of a turn that only asks the model and its tools is quiet.     *)
LEMMA QuietSteps ==
  ASSUME IInv, NEW t \in Turn,
         \/ StreamOpens(t) \/ Delta(t) \/ AudioChunk(t)
         \/ \E n \in 0 .. MaxCalls : StreamEnds(t, n)
         \/ CallTool(t) \/ ToolResult(t) \/ EmptyAnswer(t) \/ Fail(t) \/ Report(t)
         \/ CollectorLeaves(t)
  PROVE  Quiet(t)
<1> USE DEF IInv, Types, Quiet, Thinking, sessionVars, clientVars, Goto
<1>1. CASE StreamOpens(t)
  BY <1>1 DEF StreamOpens
<1>2. CASE Delta(t)
  BY <1>2 DEF Delta
<1>3. CASE AudioChunk(t)
  BY <1>3 DEF AudioChunk
<1>4. CASE \E n \in 0 .. MaxCalls : StreamEnds(t, n)
  BY <1>4 DEF StreamEnds
<1>5. CASE CallTool(t)
  BY <1>5 DEF CallTool
<1>6. CASE ToolResult(t)
  BY <1>6 DEF ToolResult, ToolResultWith
<1>7. CASE EmptyAnswer(t)
  BY <1>7 DEF EmptyAnswer
<1>8. CASE Fail(t)
  BY <1>8 DEF Fail
<1>9. CASE Report(t)
  BY <1>9 DEF Report
<1>10. CASE CollectorLeaves(t)
  BY <1>10 DEF CollectorLeaves
<1> QED
  BY <1>1, <1>2, <1>3, <1>4, <1>5, <1>6, <1>7, <1>8, <1>9, <1>10

LEMMA QuietKeeps ==
  ASSUME IInv, NEW t \in Turn, Quiet(t)
  PROVE  IInv'
<1>1. PICK to \in Thinking \cup {"failed", "closing"} :
        /\ pc' = [pc EXCEPT ![t] = to]
        /\ pc[t] \in Thinking \/ (pc[t] = "failed" /\ to \notin Thinking)
  BY DEF Quiet
<1>2. UNCHANGED <<history, holder, completed>>
  BY DEF Quiet
<1>3. Types'
  BY <1>1, <1>2 DEF IInv, Types, Thinking, Inside
<1>4. Exclusive'
  BY <1>1, <1>2 DEF IInv, Types, Exclusive, Thinking, Inside
<1>5. QuestionIsLast'
  BY <1>1, <1>2 DEF IInv, Types, QuestionIsLast
<1>6. NotYetHeard'
  BY <1>1, <1>2 DEF IInv, Types, NotYetHeard, Thinking
<1>7. PastAnswer'
  BY <1>1, <1>2 DEF IInv, Types, PastAnswer, Thinking
<1>8. AnswersFollow'
  <2>1. ~(pc[t] = "finished")
    BY <1>1 DEF Thinking
  <2>2. \A u : u # t => pc'[u] = pc[u]
    BY <1>1 DEF IInv, Types
  <2> QED
    BY <1>2, <2>1, <2>2 DEF IInv, AnswersFollow
<1> QED
  BY <1>3, <1>4, <1>5, <1>6, <1>7, <1>8 DEF IInv

-----------------------------------------------------------------------------
(* A turn that waits, gets the session or is announced has said nothing.    *)
LEMMA WaitKeeps ==
  ASSUME IInv, NEW t \in Turn, Start(t) \/ LockWs(t)
  PROVE  IInv'
<1> USE DEF Goto, Lock, sessionVars, clientVars
<1>1. PICK from \in {"idle", "waiting"}, to \in {"waiting", "locked"} :
        /\ pc[t] = from /\ pc' = [pc EXCEPT ![t] = to]
        /\ UNCHANGED <<history, completed>>
        /\ \/ to = "waiting" /\ holder' = holder
           \/ to = "locked" /\ holder = NoTurn /\ holder' = t
  BY DEF Start, LockWs
<1>2. Types'
  BY <1>1 DEF IInv, Types, Inside
<1>3. Exclusive'
  BY <1>1, TurnsAssumption DEF IInv, Types, Exclusive, Inside, Turn
<1>4. QuestionIsLast'
  BY <1>1 DEF IInv, Types, QuestionIsLast, Thinking
<1>5. NotYetHeard'
  BY <1>1 DEF IInv, Types, NotYetHeard
<1>6. PastAnswer'
  BY <1>1 DEF IInv, Types, PastAnswer
<1>7. AnswersFollow'
  <2>1. \A u : pc[u] = "finished" => pc'[u] = "finished"
    BY <1>1 DEF IInv, Types
  <2>2. \A u \in Turn : holder = u => holder' = u
    BY <1>1, TurnsAssumption DEF Turn
  <2>3. \A i \in DOMAIN history : history[i].turn \in Turn
    <3>1. history \in Seq(Message)
      BY DEF IInv, Types
    <3>2. DOMAIN history = 1 .. Len(history)
      BY <3>1, LenProperties
    <3>3. \A i \in 1 .. Len(history) : history[i] \in Message
      BY <3>1, ElementOfSeq
    <3> QED
      BY <3>2, <3>3 DEF Message
  <2> QED
    BY <1>1, <2>1, <2>2, <2>3 DEF IInv, AnswersFollow
<1> QED
  BY <1>2, <1>3, <1>4, <1>5, <1>6, <1>7 DEF IInv

(* A turn asks its question: the message of a turn that waited for the      *)
(* session comes last.                                                      *)
LEMMA AskKeeps ==
  ASSUME IInv, NEW t \in Turn, LockHttp(t) \/ Think(t)
  PROVE  IInv'
<1> DEFINE n == Len(history)
<1> USE DEF Goto, Lock, Open, sessionVars, clientVars
<1>1. /\ pc[t] \in {"waiting", "locked"} /\ pc' = [pc EXCEPT ![t] = "asking"]
      /\ history' = Append(history, User(t))
      /\ completed' = completed
  BY DEF LockHttp, Think
<1>2. holder' = t /\ (holder = NoTurn \/ holder = t)
  BY DEF LockHttp, Think, IInv, Types, Exclusive, Inside
<1>3. User(t) \in Message /\ User(t).role = "user" /\ User(t).turn = t
  BY DEF User, Message
<1>4. history \in Seq(Message)
  BY DEF IInv, Types
<1>5. /\ history' \in Seq(Message) /\ Len(history') = n + 1
      /\ \A i \in 1 .. n : history'[i] = history[i]
      /\ history'[n + 1] = User(t)
  BY <1>1, <1>3, <1>4, AppendProperties
<1>6. /\ n \in Nat /\ DOMAIN history = 1 .. n /\ DOMAIN history' = 1 .. n + 1
  BY <1>4, <1>5, LenProperties
<1>7. \A i \in DOMAIN history' : i \in 1 .. n \/ i = n + 1
  BY <1>6
<1>8. \A i \in 1 .. n : history[i].turn # t /\ history[i].turn \in Turn
  <2>1. \A i \in 1 .. n : history[i] \in Message
    BY <1>4, ElementOfSeq
  <2> QED
    BY <1>1, <1>6, <2>1 DEF IInv, NotYetHeard, Message
<1> HIDE DEF n
<1>9. history' # <<>>
  BY <1>5, <1>6
<1>10. pc'[t] = "asking" /\ \A u \in Turn : u # t => pc'[u] = pc[u]
  BY <1>1 DEF IInv, Types
<1>11. Types'
  BY <1>1, <1>2, <1>5 DEF IInv, Types, Inside
<1>12. Exclusive'
  BY <1>1, <1>2, <1>10, TurnsAssumption DEF IInv, Exclusive, Inside, Turn
<1>13. QuestionIsLast'
  <2>1. \A u \in Turn : pc'[u] \in Thinking => u = t
    BY <1>2, <1>10, <1>12 DEF Exclusive, Thinking, Inside
  <2>2. \A i \in DOMAIN history' : history'[i].turn = t => i = n + 1
    BY <1>5, <1>7, <1>8
  <2> QED
    BY <1>5, <1>9, <2>1, <2>2 DEF QuestionIsLast
<1>14. NotYetHeard'
  BY <1>3, <1>5, <1>6, <1>7, <1>10 DEF IInv, NotYetHeard
<1>15. PastAnswer'
  <2> SUFFICES ASSUME NEW u \in Turn, pc'[u] = "completing" \/ completed'[u]
               PROVE  /\ pc'[u] \in {"completing", "closing", "responding", "finished"}
                      /\ \A i \in DOMAIN history' : history'[i] = User(u) =>
                           i < Len(history') /\ history'[i + 1] = Assistant(u)
    BY DEF PastAnswer
  <2>1. u # t /\ (pc[u] = "completing" \/ completed[u])
    BY <1>1, <1>10 DEF IInv, PastAnswer
  <2>2. /\ pc[u] \in {"completing", "closing", "responding", "finished"}
        /\ \A i \in 1 .. n : history[i] = User(u) =>
             i < n /\ history[i + 1] = Assistant(u)
    BY <1>6, <2>1 DEF IInv, PastAnswer, n
  <2>3. User(u) # User(t)
    BY <2>1 DEF User
  <2>4. \A i \in DOMAIN history' : history'[i] = User(u) => i \in 1 .. n
    BY <1>5, <1>7, <2>3
  <2>5. \A i \in 1 .. n : i < n => i + 1 \in 1 .. n
    BY <1>6
  <2> QED
    BY <1>5, <1>6, <1>10, <2>1, <2>2, <2>4, <2>5
<1>16. AnswersFollow'
  <2> SUFFICES ASSUME NEW i \in DOMAIN history'
               PROVE  LET u == history'[i].turn IN
                      /\ history'[i].role = "assistant" => i > 1 /\ history'[i - 1] = User(u)
                      /\ history'[i].role = "user" =>
                           \/ i < Len(history') /\ history'[i + 1] = Assistant(u)
                           \/ i = Len(history') /\ holder' = u
                           \/ pc'[u] = "finished" /\ ~completed'[u]
    BY DEF AnswersFollow
  <2>1. CASE i = n + 1
    BY <1>2, <1>3, <1>5, <2>1
  <2>2. CASE i \in 1 .. n
    <3> DEFINE u == history[i].turn
    <3>1. history'[i] = history[i] /\ u # t /\ u \in Turn /\ pc'[u] = pc[u]
      BY <1>5, <1>8, <1>10, <2>2
    <3>2. holder # u
      BY <1>2, <3>1, TurnsAssumption DEF Turn
    <3>3. /\ history[i].role = "assistant" => i > 1 /\ history[i - 1] = User(u)
          /\ history[i].role = "user" =>
               \/ i < n /\ history[i + 1] = Assistant(u)
               \/ pc[u] = "finished" /\ ~completed[u]
      BY <1>6, <2>2, <3>2 DEF IInv, AnswersFollow, n
    <3>4. /\ i > 1 => history'[i - 1] = history[i - 1]
          /\ i < n => history'[i + 1] = history[i + 1]
      BY <1>5, <1>6, <2>2
    <3> QED
      BY <1>1, <1>5, <1>6, <2>2, <3>1, <3>3, <3>4
  <2> QED
    BY <1>7, <2>1, <2>2
<1> QED
  BY <1>11, <1>12, <1>13, <1>14, <1>15, <1>16 DEF IInv

-----------------------------------------------------------------------------
(* An answer comes right behind its question, and trimming drops no         *)
(* question without its answer.                                             *)
LEMMA AnswerKeeps ==
  ASSUME IInv, NEW t \in Turn, Answer(t)
  PROVE  IInv'
<1> DEFINE n == Len(history)
           longer == Append(history, Assistant(t))
<1>1. /\ pc[t] = "answering" /\ pc' = [pc EXCEPT ![t] = "completing"]
      /\ history' = TrimHistory(longer)
      /\ completed' = completed /\ holder' = holder
  BY DEF Answer, Goto
<1>2. holder = t
  BY <1>1 DEF IInv, Exclusive, Inside
<1>3. /\ User(t).role = "user" /\ User(t).turn = t
      /\ Assistant(t) \in Message /\ Assistant(t).role = "assistant"
      /\ Assistant(t).turn = t
  BY DEF User, Assistant, Message
<1>4. history \in Seq(Message) /\ n \in Nat /\ DOMAIN history = 1 .. n
  <2>1. history \in Seq(Message)
    BY DEF IInv, Types
  <2> QED
    BY <2>1, LenProperties
<1>5. /\ longer \in Seq(Message) /\ Len(longer) = n + 1
      /\ \A i \in 1 .. n : longer[i] = history[i]
      /\ longer[n + 1] = Assistant(t)
  BY <1>3, <1>4, AppendProperties
<1>6. /\ n > 0 /\ history[n] = User(t)
      /\ \A i \in 1 .. n : history[i].turn = t => i = n
  <2>1. /\ history # <<>> /\ history[n] = User(t)
        /\ \A i \in 1 .. n : history[i].turn = t => i = n
    BY <1>1, <1>4 DEF IInv, QuestionIsLast, Thinking
  <2>2. n # 0
    BY <1>4, <2>1, EmptySeq
  <2> HIDE DEF n
  <2> QED
    BY <1>4, <2>1, <2>2
<1>7. history' \in Seq(Message)
  BY <1>1, <1>5, TrimWindow
<1>8. PICK k \in 1 .. n + 2 :
        /\ Len(history') = n + 2 - k
        /\ \A i \in 1 .. n + 2 - k : history'[i] = longer[i + k - 1]
        /\ k = 1 \/ k = n + 2 \/ longer[k].role = "user"
  <2> HIDE DEF n, longer
  <2>1. PICK k \in 1 .. Len(longer) + 1 :
          /\ Len(TrimHistory(longer)) = Len(longer) - k + 1
          /\ \A i \in 1 .. Len(longer) - k + 1 : TrimHistory(longer)[i] = longer[i + k - 1]
          /\ k = 1 \/ k = Len(longer) + 1 \/ longer[k].role = "user"
    BY <1>5, TrimWindow
  <2>2. k \in 1 .. n + 2 /\ Len(longer) - k + 1 = n + 2 - k /\ Len(longer) + 1 = n + 2
    BY <1>4, <1>5, <2>1
  <2> QED
    BY <1>1, <2>1, <2>2
<1>9. DOMAIN history' = 1 .. n + 2 - k
  BY <1>7, <1>8, LenProperties
<1>10. pc'[t] = "completing" /\ \A u \in Turn : u # t => pc'[u] = pc[u]
  BY <1>1 DEF IInv, Types
<1>11. \A i \in 1 .. n : history[i] \in Message
  BY <1>4, ElementOfSeq
<1> HIDE DEF n, longer
(* Where a message of the new history stood before. *)
<1>12. ASSUME NEW i \in DOMAIN history'
       PROVE  /\ i \in 1 .. n + 2 - k /\ i + k - 1 \in 1 .. n + 1
              /\ history'[i] = longer[i + k - 1]
              /\ i + k - 1 \in 1 .. n \/ i + k - 1 = n + 1
              /\ i > 1 => history'[i - 1] = longer[i + k - 2]
              /\ i + k - 1 <= n =>
                   i < Len(history') /\ history'[i + 1] = longer[i + k]
  <2>1. i \in 1 .. n + 2 - k /\ i + k - 1 \in 1 .. n + 1
    BY <1>4, <1>8, <1>9
  <2>2. i > 1 => i - 1 \in 1 .. n + 2 - k /\ (i - 1) + k - 1 = i + k - 2
    BY <1>4, <2>1
  <2>3. i + k - 1 <= n =>
          i < n + 2 - k /\ i + 1 \in 1 .. n + 2 - k /\ (i + 1) + k - 1 = i + k
    BY <1>4, <2>1
  <2>4. i + k - 1 \in 1 .. n \/ i + k - 1 = n + 1
    BY <1>4, <2>1
  <2>5. history'[i] = longer[i + k - 1]
    BY <1>8, <2>1
  <2>6. i > 1 => history'[i - 1] = longer[i + k - 2]
    BY <1>8, <2>2
  <2>7. i + k - 1 <= n => i < Len(history') /\ history'[i + 1] = longer[i + k]
    BY <1>8, <2>3
  <2> QED
    BY <2>1, <2>4, <2>5, <2>6, <2>7
<1>13. Types'
  BY <1>1, <1>7 DEF IInv, Types, Inside
<1>14. Exclusive'
  BY <1>1, <1>2, <1>10 DEF IInv, Exclusive, Inside
<1>15. QuestionIsLast'
  <2>1. \A u \in Turn : pc'[u] \notin Thinking
    BY <1>2, <1>10 DEF IInv, Exclusive, Thinking, Inside
  <2> QED
    BY <2>1 DEF QuestionIsLast
<1>16. NotYetHeard'
  <2> SUFFICES ASSUME NEW u \in Turn, pc'[u] \in {"idle", "waiting", "locked"},
                      NEW i \in DOMAIN history'
               PROVE  history'[i].turn # u
    BY DEF NotYetHeard
  <2>1. u # t /\ \A j \in 1 .. n : history[j].turn # u
    BY <1>4, <1>10 DEF IInv, NotYetHeard
  <2>2. /\ history'[i] = longer[i + k - 1]
        /\ i + k - 1 \in 1 .. n \/ i + k - 1 = n + 1
    BY <1>12
  <2> QED
    BY <1>3, <1>5, <2>1, <2>2
<1>17. PastAnswer'
  <2> SUFFICES ASSUME NEW u \in Turn, pc'[u] = "completing" \/ completed'[u]
               PROVE  /\ pc'[u] \in {"completing", "closing", "responding", "finished"}
                      /\ \A i \in DOMAIN history' : history'[i] = User(u) =>
                           i < Len(history') /\ history'[i + 1] = Assistant(u)
    BY DEF PastAnswer
  <2>1. pc'[u] \in {"completing", "closing", "responding", "finished"}
    BY <1>1, <1>10 DEF IInv, PastAnswer
  <2> SUFFICES ASSUME NEW i \in DOMAIN history', history'[i] = User(u)
               PROVE  i < Len(history') /\ history'[i + 1] = Assistant(u)
    BY <2>1
  <2>2. User(u).role = "user" /\ User(u).turn = u
    BY DEF User
  <2>3. i + k - 1 \in 1 .. n /\ history[i + k - 1] = User(u)
    BY <1>3, <1>5, <1>12, <2>2
  <2>4. CASE u = t
    <3>1. i + k - 1 = n
      BY <1>6, <2>2, <2>3, <2>4
    <3>2. i \in Int /\ k \in Int
      BY <1>8, <1>9
    <3>3. i + k = n + 1 /\ i + k - 1 <= n
      BY <1>4, <3>1, <3>2
    <3> QED
      BY <1>5, <1>12, <2>4, <3>3
  <2>5. CASE u # t
    <3>1. i + k - 1 < n /\ history[(i + k - 1) + 1] = Assistant(u)
      BY <1>1, <1>4, <1>10, <2>3, <2>5 DEF IInv, PastAnswer, n
    <3>2. (i + k - 1) + 1 = i + k /\ i + k \in 1 .. n /\ i + k - 1 <= n
      BY <1>4, <1>8, <1>12, <2>3, <3>1
    <3> QED
      BY <1>5, <1>12, <3>1, <3>2
  <2> QED
    BY <2>4, <2>5
<1>18. AnswersFollow'
  <2> SUFFICES ASSUME NEW i \in DOMAIN history'
               PROVE  LET u == history'[i].turn IN
                      /\ history'[i].role = "assistant" => i > 1 /\ history'[i - 1] = User(u)
                      /\ history'[i].role = "user" =>
                           \/ i < Len(history') /\ history'[i + 1] = Assistant(u)
                           \/ i = Len(history') /\ holder' = u
                           \/ pc'[u] = "finished" /\ ~completed'[u]
    BY DEF AnswersFollow
  <2>1. history'[i].role = "assistant" => i > 1
    <3>1. CASE i = 1 /\ k # 1
      <4>1. i + k - 1 = k /\ k # n + 2
        BY <1>8, <1>4, <1>12, <3>1
      <4>2. longer[k].role = "user" /\ history'[i] = longer[k]
        BY <1>8, <1>12, <3>1, <4>1
      <4> QED
        BY <4>2
    <3>2. CASE i = 1 /\ k = 1
      <4>1. i + k - 1 = 1 /\ 1 \in 1 .. n
        BY <1>4, <1>6, <3>2
      <4>2. history[1].role # "assistant"
        BY <1>4, <4>1 DEF IInv, AnswersFollow
      <4> QED
        BY <1>5, <1>12, <4>1, <4>2
    <3> QED
      BY <1>12, <3>1, <3>2
  <2>2. CASE i + k - 1 = n + 1
    <3>1. history'[i] = Assistant(t)
      BY <1>5, <1>12, <2>2
    <3>2. i + k - 2 = n /\ n \in 1 .. n
      BY <1>4, <1>6, <1>8, <1>12, <2>2
    <3> QED
      BY <1>3, <1>5, <1>6, <1>12, <2>1, <3>1, <3>2
  <2>3. CASE i + k - 1 \in 1 .. n
    <3> DEFINE j == i + k - 1
               u == history[j].turn
    <3>1. j \in 1 .. n /\ history'[i] = history[j] /\ u \in Turn
      BY <1>5, <1>11, <1>12, <2>3 DEF Message
    <3>2. /\ history[j].role = "assistant" => j > 1 /\ history[j - 1] = User(u)
          /\ history[j].role = "user" =>
               \/ j < n /\ history[j + 1] = Assistant(u)
               \/ j = n /\ holder = u
               \/ pc[u] = "finished" /\ ~completed[u]
      BY <1>4, <3>1 DEF IInv, AnswersFollow, n
    <3>3. /\ j > 1 => j - 1 \in 1 .. n /\ j - 1 = i + k - 2
          /\ j + 1 = i + k /\ (j < n => j + 1 \in 1 .. n) /\ j <= n
      <4>1. i \in Int /\ k \in Int
        BY <1>8, <1>9
      <4> QED
        BY <1>4, <3>1, <4>1
    <3> HIDE DEF j
    <3>4. history'[i].role = "assistant" => i > 1 /\ history'[i - 1] = User(u)
      BY <1>5, <1>12, <2>1, <3>1, <3>2, <3>3
    <3>5. i < Len(history') /\ history'[i + 1] = longer[j + 1]
      BY <1>12, <3>3 DEF j
    <3>6. ASSUME history'[i].role = "user"
          PROVE  \/ i < Len(history') /\ history'[i + 1] = Assistant(u)
                 \/ pc'[u] = "finished" /\ ~completed'[u]
      <4>1. CASE j < n /\ history[j + 1] = Assistant(u)
        BY <1>5, <3>3, <3>5, <4>1
      <4>2. CASE j = n /\ holder = u
        BY <1>2, <1>5, <3>5, <4>2
      <4>3. CASE pc[u] = "finished" /\ ~completed[u]
        BY <1>1, <1>10, <3>1, <4>3
      <4> QED
        BY <3>1, <3>2, <3>6, <4>1, <4>2, <4>3
    <3> QED
      BY <3>1, <3>4, <3>6
  <2> QED
    BY <1>12, <2>2, <2>3
<1> QED
  BY <1>13, <1>14, <1>15, <1>16, <1>17, <1>18 DEF IInv

-----------------------------------------------------------------------------
(* A turn is reported complete when its answer stands.                      *)
LEMMA CompleteKeeps ==
  ASSUME IInv, NEW t \in Turn, Complete(t)
  PROVE  IInv'
<1>1. PICK to \in {"closing", "responding"} :
        /\ pc[t] = "completing" /\ pc' = [pc EXCEPT ![t] = to]
        /\ completed' = [completed EXCEPT ![t] = TRUE]
        /\ UNCHANGED <<history, holder>>
  BY DEF Complete, Goto, sessionVars
<1>2. Types'
  BY <1>1 DEF IInv, Types, Inside
<1>3. Exclusive'
  BY <1>1 DEF IInv, Types, Exclusive, Inside
<1>4. QuestionIsLast'
  BY <1>1 DEF IInv, Types, QuestionIsLast, Thinking
<1>5. NotYetHeard'
  BY <1>1 DEF IInv, Types, NotYetHeard
<1>6. PastAnswer'
  BY <1>1 DEF IInv, Types, PastAnswer
<1>7. AnswersFollow'
  <2>1. \A u : pc[u] = "finished" /\ ~completed[u] => pc'[u] = "finished" /\ ~completed'[u]
    BY <1>1 DEF IInv, Types
  <2> QED
    BY <1>1, <2>1 DEF IInv, AnswersFollow
<1> QED
  BY <1>2, <1>3, <1>4, <1>5, <1>6, <1>7 DEF IInv

(* However a turn ends, a question it leaves unanswered is not reported     *)
(* complete.                                                                *)
LEMMA ReleaseKeeps ==
  ASSUME IInv, NEW t \in Turn, Release(t), pc[t] \in Inside \cup {"waiting"}
  PROVE  IInv'
<1>1. /\ pc' = [pc EXCEPT ![t] = "finished"]
      /\ holder' = IF holder = t THEN NoTurn ELSE holder
      /\ UNCHANGED <<history, completed>>
  BY DEF Release
<1>2. pc'[t] = "finished" /\ \A u \in Turn : u # t => pc'[u] = pc[u]
  BY <1>1 DEF IInv, Types
<1>3. Types'
  BY <1>1 DEF IInv, Types
<1>4. Exclusive'
  BY <1>1, <1>2, TurnsAssumption DEF IInv, Exclusive, Inside, Turn
<1>5. QuestionIsLast'
  BY <1>1, <1>2 DEF IInv, QuestionIsLast, Thinking
<1>6. NotYetHeard'
  BY <1>1, <1>2 DEF IInv, NotYetHeard
<1>7. PastAnswer'
  BY <1>1, <1>2 DEF IInv, PastAnswer
<1>8. AnswersFollow'
  <2>1. /\ history \in Seq(Message) /\ DOMAIN history = 1 .. Len(history)
        /\ Len(history) \in Nat
    <3>1. history \in Seq(Message)
      BY DEF IInv, Types
    <3> QED
      BY <3>1, LenProperties
  <2> SUFFICES ASSUME NEW i \in DOMAIN history, history[i].role = "user"
               PROVE  LET u == history[i].turn IN
                      \/ i < Len(history) /\ history[i + 1] = Assistant(u)
                      \/ i = Len(history) /\ holder' = u
                      \/ pc'[u] = "finished" /\ ~completed[u]
    BY <1>1 DEF IInv, AnswersFollow
  <2> DEFINE u == history[i].turn
  <2>2. u \in Turn /\ history[i] = User(u)
    <3>1. history[i] \in Message
      BY <2>1, ElementOfSeq
    <3> QED
      BY <3>1 DEF Message, User
  <2>3. \/ i < Len(history) /\ history[i + 1] = Assistant(u)
        \/ i = Len(history) /\ holder = u
        \/ pc[u] = "finished" /\ ~completed[u]
    BY DEF IInv, AnswersFollow
  <2>4. completed[u] => i < Len(history) /\ history[i + 1] = Assistant(u)
    BY <2>2 DEF IInv, PastAnswer
  <2>5. CASE u = t
    BY <1>2, <2>3, <2>4, <2>5
  <2>6. CASE u # t
    BY <1>1, <1>2, <2>2, <2>3, <2>6
  <2> QED
    BY <2>5, <2>6
<1> QED
  BY <1>3, <1>4, <1>5, <1>6, <1>7, <1>8 DEF IInv

-----------------------------------------------------------------------------
LEMMA IInvInit ==
  ASSUME Init PROVE IInv
<1> USE DEF Init
<1>1. Types
  BY EmptySeq DEF Types
<1>2. Exclusive
  BY TurnsAssumption DEF Exclusive, Inside, Turn
<1>3. QuestionIsLast /\ NotYetHeard /\ PastAnswer /\ AnswersFollow
  <2>1. DOMAIN history = {}
    OBVIOUS
  <2> QED
    BY <2>1 DEF QuestionIsLast, NotYetHeard, PastAnswer, AnswersFollow, Thinking
<1> QED
  BY <1>1, <1>2, <1>3 DEF IInv

LEMMA IInvNext ==
  ASSUME IInv, [Next]_vars PROVE IInv'
<1>1. CASE UNCHANGED vars
  BY <1>1 DEF vars, sessionVars, clientVars, IInv, Types, Exclusive, QuestionIsLast,
              NotYetHeard, PastAnswer, AnswersFollow
<1>2. ASSUME NEW t \in Turn, Step(t) \/ Environment(t) PROVE IInv'
  <2>1. CASE \/ StreamOpens(t) \/ Delta(t) \/ AudioChunk(t)
             \/ \E n \in 0 .. MaxCalls : StreamEnds(t, n)
             \/ CallTool(t) \/ ToolResult(t) \/ EmptyAnswer(t) \/ Fail(t) \/ Report(t)
             \/ CollectorLeaves(t)
    BY <2>1, QuietSteps, QuietKeeps
  <2>2. CASE Start(t) \/ LockWs(t)
    BY <2>2, WaitKeeps
  <2>3. CASE LockHttp(t) \/ Think(t)
    BY <2>3, AskKeeps
  <2>4. CASE Answer(t)
    BY <2>4, AnswerKeeps
  <2>5. CASE Complete(t)
    BY <2>5, CompleteKeeps
  <2>6. CASE Close(t) \/ Respond(t) \/ FailHttp(t) \/ Abort(t)
    BY <2>6, ReleaseKeeps DEF Close, Respond, FailHttp, Abort, Inside
  <2> QED
    BY <1>2, <2>1, <2>2, <2>3, <2>4, <2>5, <2>6 DEF Step, Environment
<1> QED
  BY <1>1, <1>2 DEF Next, Over

(* The shared history stays a conversation for any turns, limits and tool   *)
(* rounds, whatever fails or is aborted: each answer comes right behind its *)
(* own question.                                                            *)
THEOREM TurnsNeverMix == Spec => []AnswersFollow
<1>1. Spec => []IInv
  BY IInvInit, IInvNext, PTL DEF Spec
<1>2. IInv => AnswersFollow
  BY DEF IInv
<1> QED
  BY <1>1, <1>2, PTL

-----------------------------------------------------------------------------
(* The requests.  A tool round is its number of calls, then their results.  *)
Entry == [role : {"calls", "tool"}, n : Nat]
CallsIn(messages) == {i \in DOMAIN messages : messages[i].role = "calls"}

RoundTypes ==
  /\ pc \in [Turn -> Inside \cup {"idle", "waiting", "finished"}]
  /\ round \in [Turn -> Nat]
  /\ base \in [Turn -> Seq(Message)]
  /\ extra \in [Turn -> Seq(Entry)]
  /\ asked \in [Turn -> Nat] /\ called \in [Turn -> Nat] /\ results \in [Turn -> Seq(Nat)]

(* A turn thinks about the conversation as it is.                           *)
UpToDate == \A t \in Turn : pc[t] \in Thinking => base[t] = history

(* The results of the calls dispatched so far are those of calls 1, 2, ...  *)
ResultsInOrder(t) ==
  /\ pc[t] = "calling" => called[t] < asked[t] /\ Len(results[t]) = called[t]
  /\ pc[t] = "dispatching" => called[t] <= asked[t] /\ Len(results[t]) + 1 = called[t]
  /\ pc[t] \in {"calling", "dispatching"} => \A i \in 1 .. Len(results[t]) : results[t][i] = i

(* The tool rounds of a turn are whole, and as many as it has finished.     *)
RoundsWhole(t) ==
  /\ pc[t] \in {"idle", "waiting", "locked"} => extra[t] = <<>>
  /\ \A i \in DOMAIN extra[t] : extra[t][i].role = "calls" => Answered(extra[t], i)
  /\ IsFiniteSet(CallsIn(extra[t]))
  /\ pc[t] \in Thinking => Cardinality(CallsIn(extra[t])) = round[t] - 1

RInv == RoundTypes /\ UpToDate /\ \A t \in Turn : ResultsInOrder(t) /\ RoundsWhole(t)

(* A finished round is whole behind the whole rounds before it, and one     *)
(* more of them.                                                            *)
LEMMA RoundAppended ==
  ASSUME NEW e \in Seq(Entry), NEW a \in Nat, NEW tail \in Seq(Entry),
         Len(tail) = a, \A i \in 1 .. a : tail[i] = Result(i),
         \A i \in DOMAIN e : e[i].role = "calls" => Answered(e, i),
         IsFiniteSet(CallsIn(e)),
         NEW c, c = <<Calls(a)>>,
         NEW f, f = e \o c \o tail
  PROVE  /\ f \in Seq(Entry)
         /\ \A i \in DOMAIN f : f[i].role = "calls" => Answered(f, i)
         /\ IsFiniteSet(CallsIn(f))
         /\ Cardinality(CallsIn(f)) = Cardinality(CallsIn(e)) + 1
<1> DEFINE m == Len(e)
           head == e \o c
<1>1. m \in Nat /\ DOMAIN e = 1 .. m /\ \A i \in 1 .. m : e[i] \in Entry
  BY LenProperties, ElementOfSeq
<1>2. /\ Calls(a) \in Entry /\ Calls(a).role = "calls" /\ Calls(a).n = a
      /\ \A i \in 1 .. a : Result(i) \in Entry /\ Result(i).role = "tool"
  BY DEF Calls, Result, Entry
<1>3. /\ head \in Seq(Entry) /\ Len(head) = m + 1
      /\ \A i \in 1 .. m : head[i] = e[i]
      /\ head[m + 1] = Calls(a)
  <2>1. c \in Seq(Entry) /\ Len(c) = 1 /\ c[1] = Calls(a)
    BY <1>2
  <2>2. /\ head \in Seq(Entry) /\ Len(head) = m + 1
        /\ \A i \in 1 .. m + 1 : head[i] = IF i <= m THEN e[i] ELSE c[i - m]
    BY <2>1, ConcatProperties
  <2> HIDE DEF m, head
  <2>3. \A i \in 1 .. m : i \in 1 .. m + 1 /\ i <= m
    BY <1>1
  <2>4. m + 1 \in 1 .. m + 1 /\ ~(m + 1 <= m) /\ (m + 1) - m = 1
    BY <1>1
  <2>5. head[m + 1] = Calls(a)
    BY <2>1, <2>2, <2>4
  <2> QED
    BY <2>2, <2>3, <2>5
<1>4. /\ f \in Seq(Entry) /\ Len(f) = m + 1 + a
      /\ \A i \in 1 .. m + 1 + a : f[i] = IF i <= m + 1 THEN head[i] ELSE tail[i - (m + 1)]
  <2> HIDE DEF head, m
  <2>1. f = head \o tail
    BY DEF head
  <2>2. /\ f \in Seq(Entry) /\ Len(f) = Len(head) + Len(tail)
        /\ \A i \in 1 .. Len(head) + Len(tail) :
             f[i] = IF i <= Len(head) THEN head[i] ELSE tail[i - Len(head)]
    <3>1. head \in Seq(Entry) /\ tail \in Seq(Entry)
      BY <1>3
    <3>2. /\ head \o tail \in Seq(Entry) /\ Len(head \o tail) = Len(head) + Len(tail)
          /\ \A i \in 1 .. Len(head) + Len(tail) :
               (head \o tail)[i] = IF i <= Len(head) THEN head[i] ELSE tail[i - Len(head)]
      BY <3>1, ConcatProperties
    <3> QED
      BY <2>1, <3>2
  <2> QED
    BY <1>3, <2>2
<1> HIDE DEF m, head
<1>5. DOMAIN f = 1 .. m + 1 + a
  BY <1>4, LenProperties
<1>6. /\ \A i \in 1 .. m : f[i] = e[i]
      /\ f[m + 1] = Calls(a)
      /\ \A i \in 1 .. a : f[m + 1 + i] = Result(i)
  <2>1. \A i \in 1 .. m : i \in 1 .. m + 1 + a /\ i <= m + 1
    BY <1>1
  <2>2. m + 1 \in 1 .. m + 1 + a /\ m + 1 <= m + 1
    BY <1>1
  <2>3. \A i \in 1 .. a : m + 1 + i \in 1 .. m + 1 + a /\ ~(m + 1 + i <= m + 1)
                          /\ (m + 1 + i) - (m + 1) = i
    BY <1>1
  <2>4. \A i \in 1 .. m : f[i] = e[i]
    BY <1>3, <1>4, <2>1
  <2>5. f[m + 1] = Calls(a)
    BY <1>3, <1>4, <2>2
  <2>6. \A i \in 1 .. a : f[m + 1 + i] = Result(i)
    BY <1>4, <2>3
  <2> QED
    BY <2>4, <2>5, <2>6
<1>7. \A i \in DOMAIN f : i \in 1 .. m \/ i = m + 1 \/ \E j \in 1 .. a : i = m + 1 + j
  <2> SUFFICES ASSUME NEW i \in 1 .. m + 1 + a, ~(i \in 1 .. m), i # m + 1
               PROVE  \E j \in 1 .. a : i = m + 1 + j
    BY <1>5
  <2>1. i - (m + 1) \in 1 .. a /\ i = m + 1 + (i - (m + 1))
    BY <1>1
  <2> QED
    BY <2>1
<1>8. ASSUME NEW i \in DOMAIN f, f[i].role = "calls" PROVE Answered(f, i)
  <2>1. i \in 1 .. m \/ i = m + 1
    BY <1>2, <1>6, <1>7, <1>8
  <2>2. CASE i \in 1 .. m
    <3>1. f[i] = e[i] /\ Answered(e, i)
      BY <1>1, <1>6, <1>8, <2>2
    <3> SUFFICES ASSUME NEW n \in 1 .. f[i].n
                 PROVE  i + n \in DOMAIN f /\ f[i + n] = Result(n)
      BY DEF Answered
    <3>2. i + n \in 1 .. m /\ e[i + n] = Result(n)
      BY <1>1, <3>1 DEF Answered
    <3>3. i + n \in 1 .. m + 1 + a
      BY <1>1, <3>2
    <3> QED
      BY <1>5, <1>6, <3>2, <3>3
  <2>3. CASE i = m + 1
    <3>1. \A n \in 1 .. a : m + 1 + n \in 1 .. m + 1 + a
      BY <1>1
    <3> QED
      BY <1>2, <1>5, <1>6, <2>3, <3>1 DEF Answered
  <2> QED
    BY <2>1, <2>2, <2>3
<1>9. CallsIn(f) = CallsIn(e) \cup {m + 1} /\ m + 1 \notin CallsIn(e)
  <2>1. ASSUME NEW i \in CallsIn(f) PROVE i \in CallsIn(e) \cup {m + 1}
    <3>1. i \in DOMAIN f /\ f[i].role = "calls"
      BY DEF CallsIn
    <3>2. \A j \in 1 .. a : i # m + 1 + j
      BY <1>2, <1>6, <3>1
    <3>3. i \in 1 .. m \/ i = m + 1
      BY <1>7, <3>1, <3>2
    <3> QED
      BY <1>1, <1>6, <3>1, <3>3 DEF CallsIn
  <2>2. ASSUME NEW i \in CallsIn(e) \cup {m + 1} PROVE i \in CallsIn(f)
    <3>1. i \in DOMAIN f
      BY <1>1, <1>5 DEF CallsIn
    <3> QED
      BY <1>1, <1>2, <1>6, <3>1 DEF CallsIn
  <2>3. m + 1 \notin 1 .. m
    BY <1>1
  <2> QED
    BY <1>1, <2>1, <2>2, <2>3 DEF CallsIn
<1>10. /\ IsFiniteSet(CallsIn(f))
       /\ Cardinality(CallsIn(f)) = Cardinality(CallsIn(e)) + 1
  <2> DEFINE S == CallsIn(e)
  <2>1. IsFiniteSet(S) /\ CallsIn(f) = S \cup {m + 1} /\ m + 1 \notin S
    BY <1>9
  <2> HIDE DEF S
  <2>2. /\ IsFiniteSet(S \cup {m + 1})
        /\ Cardinality(S \cup {m + 1}) = IF m + 1 \in S THEN Cardinality(S)
                                         ELSE Cardinality(S) + 1
    BY <2>1, FS_AddElement
  <2> QED
    BY <2>1, <2>2 DEF S
<1> QED
  BY <1>4, <1>8, <1>10

(* What every step of a turn does to the requests: the other turns keep     *)
(* theirs, and only a turn that holds the session changes the history.      *)
Kept(t) ==
  /\ RoundTypes'
  /\ ResultsInOrder(t)' /\ RoundsWhole(t)'
  /\ pc'[t] \in Thinking => base'[t] = history'
  /\ history' = history \/ pc'[t] \in Inside
  /\ \A u \in Turn : u # t =>
       /\ pc'[u] = pc[u] /\ round'[u] = round[u] /\ base'[u] = base[u] /\ extra'[u] = extra[u]
       /\ asked'[u] = asked[u] /\ called'[u] = called[u] /\ results'[u] = results[u]

(* Steps that leave the rounds alone, and do not begin to think.            *)
Plain(t) ==
  /\ UNCHANGED <<round, base, extra, asked, called, results>>
  /\ \E to \in Inside \cup {"waiting"} :
       /\ pc' = [pc EXCEPT ![t] = to]
       /\ to \notin {"calling", "dispatching"}
       /\ to \in {"waiting", "locked"} => pc[t] \in {"idle", "waiting"}
       /\ to \in Thinking => pc[t] \in Thinking
       /\ history' = history \/ to \in Inside \ Thinking

LEMMA PlainSteps ==
  ASSUME RInv, NEW t \in Turn,
         \/ Start(t) \/ LockWs(t) \/ StreamOpens(t) \/ EmptyAnswer(t) \/ Answer(t)
         \/ Complete(t) \/ Fail(t) \/ Report(t)
         \/ \E n \in 0 .. MaxCalls :
              StreamEnds(t, n) /\ (n = 0 \/ round[t] = MaxToolRounds)
  PROVE  Plain(t)
<1> USE DEF Plain, Goto, Lock, sessionVars, roundVars, Thinking, Inside
<1>1. CASE Start(t)
  BY <1>1 DEF Start
<1>2. CASE LockWs(t)
  BY <1>2 DEF LockWs
<1>3. CASE StreamOpens(t)
  BY <1>3 DEF StreamOpens
<1>4. CASE EmptyAnswer(t)
  BY <1>4 DEF EmptyAnswer
<1>5. CASE Answer(t)
  BY <1>5 DEF Answer
<1>6. CASE Complete(t)
  <2>1. PICK to \in {"closing", "responding"} : pc' = [pc EXCEPT ![t] = to]
    BY <1>6 DEF Complete
  <2>2. UNCHANGED <<history, round, base, extra, asked, called, results>>
    BY <1>6 DEF Complete
  <2> QED
    BY <2>1, <2>2
<1>7. CASE Fail(t)
  BY <1>7 DEF Fail
<1>8. CASE Report(t)
  BY <1>8 DEF Report
<1>9. CASE \E n \in 0 .. MaxCalls : StreamEnds(t, n) /\ (n = 0 \/ round[t] = MaxToolRounds)
  BY <1>9 DEF StreamEnds
<1> QED
  BY <1>1, <1>2, <1>3, <1>4, <1>5, <1>6, <1>7, <1>8, <1>9

LEMMA PlainKeeps ==
  ASSUME RInv, NEW t \in Turn, Plain(t)
  PROVE  Kept(t)
<1>1. PICK to \in Inside \cup {"waiting"} :
        /\ pc' = [pc EXCEPT ![t] = to]
        /\ to \notin {"calling", "dispatching"}
        /\ to \in {"waiting", "locked"} => pc[t] \in {"idle", "waiting"}
        /\ to \in Thinking => pc[t] \in Thinking
        /\ history' = history \/ to \in Inside \ Thinking
  BY DEF Plain
<1>2. UNCHANGED <<round, base, extra, asked, called, results>>
  BY DEF Plain
<1>3. RoundTypes'
  BY <1>1, <1>2 DEF RInv, RoundTypes
<1>4. pc'[t] = to /\ \A u \in Turn : u # t => pc'[u] = pc[u]
  BY <1>1 DEF RInv, RoundTypes
<1>5. ResultsInOrder(t)'
  BY <1>1, <1>4 DEF ResultsInOrder
<1>6. RoundsWhole(t)'
  <2>1. to # "idle"
    BY <1>1 DEF Inside
  <2> QED
    BY <1>1, <1>2, <1>4, <2>1 DEF RInv, RoundsWhole
<1>7. pc'[t] \in Thinking => base'[t] = history'
  BY <1>1, <1>2, <1>4 DEF RInv, UpToDate
<1> QED
  BY <1>1, <1>2, <1>3, <1>4, <1>5, <1>6, <1>7 DEF Kept

(* Text, audio and the collector are no part of a request.                  *)
LEMMA SpokenSteps ==
  ASSUME RInv, NEW t \in Turn, Delta(t) \/ AudioChunk(t) \/ CollectorLeaves(t)
  PROVE  Kept(t)
<1>1. UNCHANGED <<history, pc, round, base, extra, asked, called, results>>
  BY DEF Delta, AudioChunk, CollectorLeaves, sessionVars, roundVars
<1>2. RoundTypes' /\ ResultsInOrder(t)' /\ RoundsWhole(t)'
  BY <1>1 DEF RInv, RoundTypes, ResultsInOrder, RoundsWhole
<1> QED
  BY <1>1, <1>2 DEF RInv, UpToDate, Kept

(* A turn's first request ends with its question and has no tool rounds.    *)
LEMMA AskSteps ==
  ASSUME IInv, RInv, NEW t \in Turn, LockHttp(t) \/ Think(t), IInv'
  PROVE  Kept(t)
<1>1. /\ pc[t] \in {"waiting", "locked"} /\ pc' = [pc EXCEPT ![t] = "asking"]
      /\ base' = [base EXCEPT ![t] = history']
      /\ round' = [round EXCEPT ![t] = 1]
      /\ UNCHANGED <<extra, asked, called, results>>
  BY DEF LockHttp, Think, Open, Goto
<1>2. history' \in Seq(Message)
  BY DEF IInv, Types
<1>3. RoundTypes'
  BY <1>1, <1>2 DEF RInv, RoundTypes, Inside
<1>4. /\ pc'[t] = "asking" /\ base'[t] = history' /\ round'[t] = 1
      /\ \A u \in Turn : u # t => pc'[u] = pc[u] /\ round'[u] = round[u] /\ base'[u] = base[u]
  BY <1>1 DEF RInv, RoundTypes
<1>5. ResultsInOrder(t)'
  BY <1>4 DEF ResultsInOrder
<1>6. RoundsWhole(t)'
  <2>1. extra'[t] = <<>>
    BY <1>1 DEF RInv, RoundsWhole
  <2>2. CallsIn(extra'[t]) = {}
    BY <2>1 DEF CallsIn
  <2>3. IsFiniteSet({}) /\ Cardinality({}) = 0 /\ 0 = 1 - 1
    BY FS_EmptySet
  <2>4. DOMAIN extra'[t] = {}
    BY <2>1
  <2> QED
    BY <1>4, <2>1, <2>2, <2>3, <2>4 DEF RoundsWhole
<1> QED
  BY <1>1, <1>3, <1>4, <1>5, <1>6 DEF Kept, Inside

LEMMA ToolsAskedSteps ==
  ASSUME RInv, NEW t \in Turn, NEW n \in 0 .. MaxCalls, StreamEnds(t, n),
         ~(n = 0 \/ round[t] = MaxToolRounds)
  PROVE  Kept(t)
<1>1. /\ pc[t] = "streaming" /\ pc' = [pc EXCEPT ![t] = "calling"]
      /\ asked' = [asked EXCEPT ![t] = n]
      /\ called' = [called EXCEPT ![t] = 0]
      /\ results' = [results EXCEPT ![t] = <<>>]
      /\ UNCHANGED <<history, round, base, extra>>
  BY DEF StreamEnds, sessionVars
<1>2. n \in Nat \ {0}
  BY TurnsAssumption
<1>3. RoundTypes'
  BY <1>1, <1>2, EmptySeq DEF RInv, RoundTypes, Inside
<1>4. /\ pc'[t] = "calling" /\ asked'[t] = n /\ called'[t] = 0 /\ results'[t] = <<>>
      /\ \A u \in Turn : u # t => /\ pc'[u] = pc[u] /\ asked'[u] = asked[u]
                                  /\ called'[u] = called[u] /\ results'[u] = results[u]
  BY <1>1 DEF RInv, RoundTypes
<1>5. ResultsInOrder(t)'
  BY <1>2, <1>4 DEF ResultsInOrder
<1>6. RoundsWhole(t)'
  BY <1>1, <1>4 DEF RInv, RoundsWhole, Thinking
<1> QED
  BY <1>1, <1>3, <1>4, <1>5, <1>6 DEF Kept, RInv, UpToDate, Thinking

LEMMA CallToolSteps ==
  ASSUME RInv, NEW t \in Turn, CallTool(t)
  PROVE  Kept(t)
<1>1. /\ pc[t] = "calling" /\ pc' = [pc EXCEPT ![t] = "dispatching"]
      /\ called' = [called EXCEPT ![t] = called[t] + 1]
      /\ UNCHANGED <<history, round, base, extra, asked, results>>
  BY DEF CallTool, Goto, sessionVars
<1>2. RoundTypes'
  BY <1>1 DEF RInv, RoundTypes, Inside
<1>3. /\ pc'[t] = "dispatching" /\ called'[t] = called[t] + 1
      /\ \A u \in Turn : u # t => pc'[u] = pc[u] /\ called'[u] = called[u]
  BY <1>1 DEF RInv, RoundTypes
<1>4. ResultsInOrder(t)'
  <2>1. /\ called[t] \in Nat /\ asked[t] \in Nat /\ called[t] < asked[t]
        /\ Len(results[t]) = called[t]
        /\ \A i \in 1 .. Len(results[t]) : results[t][i] = i
    BY <1>1 DEF RInv, RoundTypes, ResultsInOrder
  <2> QED
    BY <1>1, <1>3, <2>1 DEF ResultsInOrder
<1>5. RoundsWhole(t)'
  BY <1>1, <1>3 DEF RInv, RoundsWhole, Thinking
<1> QED
  BY <1>1, <1>2, <1>3, <1>4, <1>5 DEF Kept, RInv, UpToDate, Thinking

(* The last result of a round completes it, and begins the next.            *)
LEMMA ToolResultSteps ==
  ASSUME RInv, NEW t \in Turn, ToolResult(t)
  PROVE  Kept(t)
<1> DEFINE done == Append(results[t], called[t])
<1>1. /\ pc[t] = "dispatching"
      /\ results' = [results EXCEPT ![t] = done]
      /\ UNCHANGED <<history, base, asked, called>>
  BY DEF ToolResult, ToolResultWith, sessionVars
<1>2. /\ called[t] \in Nat /\ asked[t] \in Nat /\ round[t] \in Nat
      /\ extra[t] \in Seq(Entry) /\ results[t] \in Seq(Nat)
  BY DEF RInv, RoundTypes
<1>3. /\ called[t] <= asked[t] /\ Len(results[t]) + 1 = called[t]
      /\ \A i \in 1 .. Len(results[t]) : results[t][i] = i
  BY <1>1 DEF RInv, ResultsInOrder
<1>4. done \in Seq(Nat) /\ Len(done) = called[t] /\ \A i \in 1 .. called[t] : done[i] = i
  <2>1. /\ done \in Seq(Nat) /\ Len(done) = Len(results[t]) + 1
        /\ \A i \in 1 .. Len(results[t]) : done[i] = results[t][i]
        /\ done[Len(results[t]) + 1] = called[t]
    BY <1>2, AppendProperties
  <2>2. Len(results[t]) \in Nat
    BY <1>2, LenProperties
  <2> HIDE DEF done
  <2>3. \A i \in 1 .. called[t] : i \in 1 .. Len(results[t]) \/ i = called[t]
    BY <1>2, <1>3, <2>2
  <2> QED
    BY <1>3, <2>1, <2>3
<1> HIDE DEF done
<1>5. results'[t] = done /\ \A u \in Turn : u # t => results'[u] = results[u]
  BY <1>1 DEF RInv, RoundTypes
<1>6. /\ \A i \in DOMAIN extra[t] : extra[t][i].role = "calls" => Answered(extra[t], i)
      /\ IsFiniteSet(CallsIn(extra[t]))
      /\ Cardinality(CallsIn(extra[t])) = round[t] - 1
  BY <1>1 DEF RInv, RoundsWhole, Thinking
<1>7. CASE called[t] = asked[t]
  <2> DEFINE f == extra[t] \o <<Calls(asked[t])>> \o [i \in DOMAIN done |-> Result(done[i])]
  <2>1. /\ pc' = [pc EXCEPT ![t] = "asking"]
        /\ extra' = [extra EXCEPT ![t] = f]
        /\ round' = [round EXCEPT ![t] = round[t] + 1]
    BY <1>7 DEF ToolResult, ToolResultWith, AppendToolRound, done
  <2>2. /\ f \in Seq(Entry)
        /\ \A i \in DOMAIN f : f[i].role = "calls" => Answered(f, i)
        /\ IsFiniteSet(CallsIn(f))
        /\ Cardinality(CallsIn(f)) = Cardinality(CallsIn(extra[t])) + 1
    <3> DEFINE e == extra[t]
               a == asked[t]
               c == <<Calls(a)>>
               tail == [i \in DOMAIN done |-> Result(done[i])]
    <3>1. tail \in Seq(Entry) /\ Len(tail) = a /\ \A i \in 1 .. a : tail[i] = Result(i)
      <4>1. DOMAIN done = 1 .. a
        BY <1>4, <1>7, LenProperties
      <4>2. tail = [i \in 1 .. a |-> Result(i)]
        BY <1>4, <1>7, <4>1
      <4>3. \A i \in 1 .. a : Result(i) \in Entry
        BY <1>2 DEF Result, Entry
      <4>4. tail \in Seq(Entry)
        BY <1>2, <4>2, <4>3, SMTT(40)
      <4>5. DOMAIN tail = 1 .. a /\ DOMAIN tail = 1 .. Len(tail) /\ Len(tail) \in Nat
        BY <4>2, <4>4, LenProperties
      <4>6. a \in Nat
        BY <1>2
      <4> HIDE DEF tail, a
      <4> QED
        BY <4>2, <4>4, <4>5, <4>6
    <3>2. /\ e \in Seq(Entry) /\ a \in Nat
          /\ \A i \in DOMAIN e : e[i].role = "calls" => Answered(e, i)
          /\ IsFiniteSet(CallsIn(e))
          /\ c = <<Calls(a)>> /\ f = e \o c \o tail
      BY <1>2, <1>6
    <3> HIDE DEF e, a, c, tail, f
    <3>3. /\ f \in Seq(Entry)
          /\ \A i \in DOMAIN f : f[i].role = "calls" => Answered(f, i)
          /\ IsFiniteSet(CallsIn(f))
          /\ Cardinality(CallsIn(f)) = Cardinality(CallsIn(e)) + 1
      BY <3>1, <3>2, RoundAppended
    <3> QED
      BY <3>3 DEF e
  <2> HIDE DEF f
  <2>3. RoundTypes'
    BY <1>1, <1>4, <2>1, <2>2 DEF RInv, RoundTypes, Inside
  <2>4. /\ pc'[t] = "asking" /\ extra'[t] = f /\ round'[t] = round[t] + 1
        /\ \A u \in Turn : u # t => pc'[u] = pc[u] /\ extra'[u] = extra[u] /\ round'[u] = round[u]
    BY <2>1 DEF RInv, RoundTypes
  <2>5. ResultsInOrder(t)'
    BY <2>4 DEF ResultsInOrder
  <2>6. RoundsWhole(t)'
    <3>1. Cardinality(CallsIn(f)) = (round[t] + 1) - 1
      BY <1>2, <1>6, <2>2
    <3> QED
      BY <2>2, <2>4, <3>1 DEF RoundsWhole
  <2> QED
    BY <1>1, <1>5, <2>3, <2>4, <2>5, <2>6 DEF Kept, RInv, UpToDate, Thinking
<1>8. CASE called[t] # asked[t]
  <2>1. pc' = [pc EXCEPT ![t] = "calling"] /\ UNCHANGED <<extra, round>>
    BY <1>8 DEF ToolResult, ToolResultWith
  <2>2. RoundTypes'
    BY <1>1, <1>4, <2>1 DEF RInv, RoundTypes, Inside
  <2>3. pc'[t] = "calling" /\ \A u \in Turn : u # t => pc'[u] = pc[u]
    BY <2>1 DEF RInv, RoundTypes
  <2>4. ResultsInOrder(t)'
    <3>1. called[t] < asked[t]
      BY <1>2, <1>3, <1>8
    <3> QED
      BY <1>1, <1>4, <1>5, <2>3, <3>1 DEF ResultsInOrder
  <2>5. RoundsWhole(t)'
    BY <1>6, <2>1, <2>3 DEF RoundsWhole
  <2> QED
    BY <1>1, <1>5, <2>1, <2>2, <2>3, <2>4, <2>5 DEF Kept, RInv, UpToDate, Thinking
<1> QED
  BY <1>7, <1>8

(* What a turn kept for its requests is gone when it is over.               *)
LEMMA ReleaseSteps ==
  ASSUME RInv, NEW t \in Turn, Release(t)
  PROVE  Kept(t)
<1>1. /\ pc' = [pc EXCEPT ![t] = "finished"] /\ history' = history
      /\ round' = [round EXCEPT ![t] = 0]
      /\ base' = [base EXCEPT ![t] = <<>>]
      /\ extra' = [extra EXCEPT ![t] = <<>>]
      /\ asked' = [asked EXCEPT ![t] = 0]
      /\ called' = [called EXCEPT ![t] = 0]
      /\ results' = [results EXCEPT ![t] = <<>>]
  BY DEF Release, Forget
<1>2. \A S : <<>> \in Seq(S)
  BY EmptySeq
<1>3. RoundTypes'
  BY <1>1, <1>2 DEF RInv, RoundTypes
<1>4. /\ pc'[t] = "finished" /\ extra'[t] = <<>>
      /\ \A u \in Turn : u # t =>
           /\ pc'[u] = pc[u] /\ round'[u] = round[u] /\ base'[u] = base[u]
           /\ extra'[u] = extra[u] /\ asked'[u] = asked[u] /\ called'[u] = called[u]
           /\ results'[u] = results[u]
  BY <1>1 DEF RInv, RoundTypes
<1>5. ResultsInOrder(t)'
  BY <1>4 DEF ResultsInOrder
<1>6. RoundsWhole(t)'
  <2>1. DOMAIN extra'[t] = {} /\ CallsIn(extra'[t]) = {}
    BY <1>4 DEF CallsIn
  <2>2. IsFiniteSet({})
    BY FS_EmptySet
  <2> QED
    BY <1>4, <2>1, <2>2 DEF RoundsWhole, Thinking
<1> QED
  BY <1>1, <1>3, <1>4, <1>5, <1>6 DEF Kept, Thinking

LEMMA KeptByAll ==
  ASSUME IInv, IInv', RInv, NEW t \in Turn, Step(t) \/ Environment(t)
  PROVE  Kept(t)
<1>1. CASE \/ Start(t) \/ LockWs(t) \/ StreamOpens(t) \/ EmptyAnswer(t) \/ Answer(t)
           \/ Complete(t) \/ Fail(t) \/ Report(t)
  BY <1>1, PlainSteps, PlainKeeps
<1>2. CASE Delta(t) \/ AudioChunk(t) \/ CollectorLeaves(t)
  BY <1>2, SpokenSteps
<1>3. CASE LockHttp(t) \/ Think(t)
  BY <1>3, AskSteps
<1>4. ASSUME NEW n \in 0 .. MaxCalls, StreamEnds(t, n) PROVE Kept(t)
  <2>1. CASE n = 0 \/ round[t] = MaxToolRounds
    BY <1>4, <2>1, PlainSteps, PlainKeeps
  <2>2. CASE ~(n = 0 \/ round[t] = MaxToolRounds)
    BY <1>4, <2>2, ToolsAskedSteps
  <2> QED
    BY <2>1, <2>2
<1>5. CASE CallTool(t)
  BY <1>5, CallToolSteps
<1>6. CASE ToolResult(t)
  BY <1>6, ToolResultSteps
<1>7. CASE Close(t) \/ Respond(t) \/ FailHttp(t) \/ Abort(t)
  BY <1>7, ReleaseSteps DEF Close, Respond, FailHttp, Abort
<1> QED
  BY <1>1, <1>2, <1>3, <1>4, <1>5, <1>6, <1>7 DEF Step, Environment

LEMMA RInvInit ==
  ASSUME Init PROVE RInv
<1> USE DEF Init
<1>1. RoundTypes
  <2>1. \A S : <<>> \in Seq(S)
    BY EmptySeq
  <2> QED
    BY <2>1 DEF RoundTypes
<1>2. UpToDate /\ \A t \in Turn : ResultsInOrder(t)
  BY DEF UpToDate, ResultsInOrder, Thinking
<1>3. ASSUME NEW t \in Turn PROVE RoundsWhole(t)
  <2>1. extra[t] = <<>> /\ pc[t] = "idle"
    OBVIOUS
  <2>2. DOMAIN extra[t] = {} /\ CallsIn(extra[t]) = {}
    BY <2>1 DEF CallsIn
  <2>3. IsFiniteSet({})
    BY FS_EmptySet
  <2> QED
    BY <2>1, <2>2, <2>3 DEF RoundsWhole, Thinking
<1> QED
  BY <1>1, <1>2, <1>3 DEF RInv

LEMMA RInvNext ==
  ASSUME IInv, IInv', RInv, [Next]_vars PROVE RInv'
<1>1. CASE UNCHANGED vars
  BY <1>1 DEF vars, sessionVars, roundVars, RInv, RoundTypes, UpToDate, ResultsInOrder, RoundsWhole
<1>2. ASSUME NEW t \in Turn, Step(t) \/ Environment(t) PROVE RInv'
  <2>1. Kept(t)
    BY <1>2, KeptByAll
  <2>2. \A u \in Turn : ResultsInOrder(u)' /\ RoundsWhole(u)'
    BY <2>1 DEF Kept, RInv, ResultsInOrder, RoundsWhole
  <2>3. ASSUME NEW u \in Turn, pc'[u] \in Thinking PROVE base'[u] = history'
    <3>1. CASE u = t
      BY <2>1, <2>3, <3>1 DEF Kept
    <3>2. CASE u # t
      <4>1. holder' = u
        BY <2>3 DEF IInv, Exclusive, Thinking, Inside
      <4>2. pc'[t] \notin Inside
        BY <3>2, <4>1 DEF IInv, Exclusive
      <4> QED
        BY <2>1, <2>3, <3>2, <4>2 DEF Kept, RInv, UpToDate
    <3> QED
      BY <3>1, <3>2
  <2> QED
    BY <2>1, <2>2, <2>3 DEF Kept, RInv, UpToDate
<1> QED
  BY <1>1, <1>2 DEF Next, Over

(* Every request is about the conversation as it is and ends with the       *)
(* turn's question and its whole tool rounds, for any number of turns,      *)
(* rounds and calls.                                                        *)
THEOREM RequestsStayWhole == Spec => []RequestsAreWhole
<1>1. Spec => [](IInv /\ RInv)
  BY IInvInit, IInvNext, RInvInit, RInvNext, PTL DEF Spec
<1>2. IInv /\ RInv => RequestsAreWhole
  <2> SUFFICES ASSUME IInv, RInv, NEW t \in Turn, pc[t] = "asking"
               PROVE  /\ base[t] = history /\ Last(base[t]) = User(t)
                      /\ \A i \in DOMAIN extra[t] :
                           extra[t][i].role = "calls" => Answered(extra[t], i)
                      /\ Cardinality(CallsIn(extra[t])) = round[t] - 1
    BY DEF RequestsAreWhole, CallsIn
  <2>1. pc[t] \in Thinking
    BY DEF Thinking
  <2>2. base[t] = history /\ history[Len(history)] = User(t)
    BY <2>1 DEF IInv, RInv, UpToDate, QuestionIsLast
  <2> QED
    BY <2>1, <2>2 DEF RInv, RoundsWhole, Last
<1> QED
  BY <1>1, <1>2, PTL

-----------------------------------------------------------------------------
(* How much of a conversation trim_history keeps.                           *)

(* The questions of a history, and those in front of one of them, are       *)
(* finitely many.                                                           *)
LEMMA UsersFinite ==
  ASSUME NEW h \in Seq(Message)
  PROVE  /\ Users(h) \subseteq 1 .. Len(h) /\ Len(h) \in Nat
         /\ IsFiniteSet(Users(h)) /\ Cardinality(Users(h)) \in Nat
         /\ \A i \in Int : /\ IsFiniteSet({j \in Users(h) : j < i})
                           /\ Cardinality({j \in Users(h) : j < i}) \in Nat
                           /\ Cardinality({j \in Users(h) : j < i}) <= Cardinality(Users(h))
<1>1. Users(h) \subseteq 1 .. Len(h) /\ Len(h) \in Nat
  BY LenProperties DEF Users
<1>2. IsFiniteSet(Users(h)) /\ Cardinality(Users(h)) \in Nat
  <2>1. IsFiniteSet(1 .. Len(h))
    BY <1>1, FS_Interval
  <2> QED
    BY <1>1, <2>1, FS_Subset, FS_CardinalityType
<1>3. ASSUME NEW i \in Int
      PROVE  /\ IsFiniteSet({j \in Users(h) : j < i})
             /\ Cardinality({j \in Users(h) : j < i}) \in Nat
             /\ Cardinality({j \in Users(h) : j < i}) <= Cardinality(Users(h))
  <2>1. {j \in Users(h) : j < i} \in SUBSET Users(h)
    OBVIOUS
  <2> QED
    BY <1>2, <2>1, FS_Subset, FS_CardinalityType
<1> QED
  BY <1>1, <1>2, <1>3

(* trim_history leaves a history with few questions as it is, and exactly   *)
(* max_turns questions of any other.                                        *)
LEMMA TrimCount ==
  ASSUME NEW h \in Seq(Message)
  PROVE  \/ TrimHistory(h) = h /\ Cardinality(Users(h)) <= MaxHistoryTurns
         \/ Cardinality(Users(TrimHistory(h))) = MaxHistoryTurns
<1> DEFINE excess == Cardinality(Users(h)) - MaxHistoryTurns
           first == {i \in Users(h) : Cardinality({j \in Users(h) : j < i}) = excess}
           k == CHOOSE i \in first : TRUE
           g == SubSeq(h, k, Len(h))
           before == {j \in Users(h) : j < k}
           after == Users(h) \ before
<1>1. MaxHistoryTurns \in Nat
  BY TurnsAssumption
<1>2. CASE excess <= 0
  BY <1>1, <1>2, UsersFinite DEF TrimHistory
<1>3. CASE ~(excess <= 0) /\ first = {}
  <2>1. ~(excess < Cardinality(Users(h)))
    <3> SUFFICES ASSUME excess < Cardinality(Users(h)) PROVE FALSE
      OBVIOUS
    <3>1. excess \in Nat
      BY <1>1, <1>3, UsersFinite
    <3>2. \E i \in Users(h) : Cardinality({j \in Users(h) : j < i}) = excess
      <4> HIDE DEF excess
      <4>1. Users(h) \in SUBSET (1 .. Len(h)) /\ Len(h) \in Nat
        BY UsersFinite
      <4> QED
        BY <3>1, <4>1, RankExists
    <3> QED
      BY <1>3, <3>2
  <2>2. MaxHistoryTurns = 0
    BY <1>1, <2>1, UsersFinite
  <2>3. TrimHistory(h) = <<>>
    BY <1>3 DEF TrimHistory
  <2>4. Users(<<>>) = {}
    BY DEF Users
  <2> QED
    BY <2>2, <2>3, <2>4, FS_EmptySet
<1>4. CASE ~(excess <= 0) /\ first # {}
  <2>1. TrimHistory(h) = g
    BY <1>4 DEF TrimHistory
  <2>2. k \in Users(h) /\ Cardinality(before) = excess
    BY <1>4
  <2> HIDE DEF excess, first, k
  <2>3. k \in 1 .. Len(h) /\ Len(h) \in Nat
    BY <2>2, UsersFinite
  <2>4. Len(g) = Len(h) - k + 1 /\ \A i \in 1 .. Len(g) : g[i] = h[k + i - 1]
    <3>1. \A i \in k .. Len(h) : h[i] \in Message
      BY <2>3, ElementOfSeq
    <3> QED
      BY <2>3, <3>1, SubSeqProperties
  <2>5. DOMAIN g = 1 .. Len(g) /\ DOMAIN h = 1 .. Len(h)
    <3>1. g \in Seq(Message)
      <4>1. \A i \in k .. Len(h) : h[i] \in Message
        BY <2>3, ElementOfSeq
      <4> QED
        BY <2>3, <4>1, SubSeqProperties
    <3> QED
      BY <3>1, LenProperties
  <2> HIDE DEF g
  <2>6. IsFiniteSet(after) /\ Cardinality(after) = MaxHistoryTurns
    <3>1. /\ IsFiniteSet(after)
          /\ Cardinality(after) = Cardinality(Users(h)) - Cardinality(Users(h) \cap before)
      BY UsersFinite, FS_Difference
    <3>2. Users(h) \cap before = before
      OBVIOUS
    <3>3. Cardinality(Users(h)) \in Nat
      BY UsersFinite
    <3>4. Cardinality(before) = Cardinality(Users(h)) - MaxHistoryTurns
      BY <2>2 DEF excess
    <3>5. Cardinality(after) = Cardinality(Users(h)) - Cardinality(before)
      BY <3>1, <3>2
    <3> HIDE DEF before, after
    <3> QED
      BY <1>1, <3>1, <3>3, <3>4, <3>5
  <2> DEFINE f == [i \in after |-> i - k + 1]
  <2>7. \A i \in after : i \in k .. Len(h) /\ h[i].role = "user"
    BY <2>3, <2>5 DEF Users
  <2>8. \A i \in after : i - k + 1 \in Users(g)
    BY <2>3, <2>4, <2>5, <2>7 DEF Users
  <2>9. \A i \in Users(g) : i + k - 1 \in after /\ (i + k - 1) - k + 1 = i
    <3> TAKE i \in Users(g)
    <3>1. i \in 1 .. Len(g) /\ g[i].role = "user"
      BY <2>5 DEF Users
    <3>2. i + k - 1 \in 1 .. Len(h) /\ i + k - 1 = k + i - 1 /\ ~(i + k - 1 < k)
          /\ (i + k - 1) - k + 1 = i
      BY <2>3, <2>4, <3>1
    <3>3. i + k - 1 \in Users(h)
      BY <2>4, <2>5, <3>1, <3>2 DEF Users
    <3> QED
      BY <3>2, <3>3
  <2>10. f \in Bijection(after, Users(g))
    <3>1. f \in [after -> Users(g)]
      BY <2>8
    <3>2. \A a, b \in after : f[a] = f[b] => a = b
      BY <2>3, <2>7
    <3>3. \A i \in Users(g) : \E a \in after : f[a] = i
      <4> TAKE i \in Users(g)
      <4>1. i + k - 1 \in after /\ f[i + k - 1] = i
        <5> HIDE DEF after
        <5> QED
          BY <2>9
      <4> QED
        BY <4>1
    <3> HIDE DEF f, after
    <3> QED
      BY <3>1, <3>2, <3>3, Fun_IsBij
  <2>11. Cardinality(Users(g)) = MaxHistoryTurns
    <3> HIDE DEF f, after
    <3>1. ExistsBijection(after, Users(g))
      BY <2>10 DEF ExistsBijection
    <3> QED
      BY <2>6, <3>1, FS_Bijection
  <2> QED
    BY <2>1, <2>11
<1> QED
  BY <1>2, <1>3, <1>4

-----------------------------------------------------------------------------
(* A turn past its answer: it has sent TurnCompleted or is about to.        *)
PastAnswering(t) == pc[t] = "completing" \/ completed[t]

(* What a step does to the history: nothing, or a turn that has the session *)
(* adds its question, or its answer and trims.                              *)
LEMMA HistorySteps ==
  ASSUME IInv, [Next]_vars
  PROVE  \/ /\ history' = history \/ \E t \in Turn : history' = Append(history, User(t))
            /\ \A u \in Turn : PastAnswering(u)' => PastAnswering(u)
         \/ \E t \in Turn : /\ pc[t] = "answering"
                            /\ history' = TrimHistory(Append(history, Assistant(t)))
                            /\ \A u \in Turn \ {t} : PastAnswering(u)' => PastAnswering(u)
<1> USE DEF sessionVars, PastAnswering
<1>1. CASE UNCHANGED vars \/ Over
  BY <1>1 DEF vars, Over, clientVars
<1>2. ASSUME NEW t \in Turn, Step(t) \/ Environment(t)
      PROVE  \/ /\ history' = history \/ history' = Append(history, User(t))
                /\ \A u \in Turn : PastAnswering(u)' => PastAnswering(u)
             \/ /\ pc[t] = "answering"
                /\ history' = TrimHistory(Append(history, Assistant(t)))
                /\ \A u \in Turn \ {t} : PastAnswering(u)' => PastAnswering(u)
  <2>0. pc \in [Turn -> Inside \cup {"idle", "waiting", "finished"}] /\ completed \in [Turn -> BOOLEAN]
    BY DEF IInv, Types
  <2>1. CASE \/ StreamOpens(t) \/ Delta(t) \/ AudioChunk(t)
             \/ \E n \in 0 .. MaxCalls : StreamEnds(t, n)
             \/ CallTool(t) \/ ToolResult(t) \/ EmptyAnswer(t) \/ Fail(t) \/ Report(t)
             \/ CollectorLeaves(t)
    <3>1. Quiet(t)
      BY <2>1, QuietSteps
    <3> QED
      BY <2>0, <3>1 DEF Quiet, Thinking
  <2>2. CASE Start(t) \/ LockWs(t)
    BY <2>0, <2>2 DEF Start, LockWs, Goto, clientVars
  <2>3. CASE LockHttp(t) \/ Think(t)
    BY <2>0, <2>3 DEF LockHttp, Think, Open, Goto, clientVars
  <2>4. CASE Answer(t)
    BY <2>0, <2>4 DEF Answer, Goto
  <2>5. CASE Complete(t)
    BY <2>0, <2>5 DEF Complete, Goto
  <2>6. CASE Close(t) \/ Respond(t) \/ FailHttp(t) \/ Abort(t)
    BY <2>0, <2>6 DEF Close, Respond, FailHttp, Abort, Release, Goto, clientVars
  <2> QED
    BY <1>2, <2>1, <2>2, <2>3, <2>4, <2>5, <2>6 DEF Step, Environment
<1>3. CASE Next
  BY <1>2, <1>1, <1>3 DEF Next
<1> QED
  BY <1>1, <1>3

(* A question enters behind all answers, an answer comes with a trim.       *)
LEMMA BoundedNext ==
  ASSUME IInv, HistoryBounded, [Next]_vars PROVE HistoryBounded'
<1>1. CASE UNCHANGED history
  BY <1>1 DEF HistoryBounded, Users
<1>2. ASSUME NEW t \in Turn, history' = Append(history, User(t)) PROVE HistoryBounded'
  <2>1. history \in Seq(Message) /\ Len(history) \in Nat /\ DOMAIN history = 1 .. Len(history)
    BY LenProperties DEF IInv, Types
  <2>2. User(t) \in Message
    BY DEF User, Message
  <2>3. /\ DOMAIN history' = 1 .. Len(history) + 1
        /\ history'[Len(history) + 1] = User(t)
        /\ \A i \in 1 .. Len(history) : history'[i] = history[i]
    <3>1. history' \in Seq(Message) /\ Len(history') = Len(history) + 1
      BY <1>2, <2>1, <2>2, AppendProperties
    <3> QED
      BY <1>2, <2>1, <2>2, <3>1, AppendProperties, LenProperties
  <2>4. ASSUME NEW i \in DOMAIN history', history'[i].role = "assistant"
        PROVE  Cardinality({j \in Users(history') : j < i}) <= MaxHistoryTurns
    <3>1. i # Len(history) + 1
      BY <2>3, <2>4 DEF User
    <3>2. i \in DOMAIN history /\ history[i].role = "assistant"
      BY <2>1, <2>3, <2>4, <3>1
    <3>3. {j \in Users(history') : j < i} = {j \in Users(history) : j < i}
      BY <2>1, <2>3, <3>2 DEF Users
    <3> QED
      BY <3>2, <3>3 DEF HistoryBounded
  <2> QED
    BY <2>4 DEF HistoryBounded
<1>3. ASSUME NEW t \in Turn, history' = TrimHistory(Append(history, Assistant(t)))
      PROVE  HistoryBounded'
  <2> DEFINE h == Append(history, Assistant(t))
  <2>1. h \in Seq(Message) /\ TrimHistory(h) \in Seq(Message)
    <3>1. history \in Seq(Message) /\ Assistant(t) \in Message
      BY DEF IInv, Types, Assistant, Message
    <3>2. h \in Seq(Message)
      BY <3>1, AppendProperties
    <3> HIDE DEF h
    <3> QED
      BY <3>2, TrimWindow
  <2>2. history' = TrimHistory(h)
    BY <1>3
  <2> HIDE DEF h
  <2>3. Cardinality(Users(history')) <= MaxHistoryTurns
    BY <2>1, <2>2, TrimCount, TurnsAssumption
  <2>4. ASSUME NEW i \in DOMAIN history'
        PROVE  Cardinality({j \in Users(history') : j < i}) <= MaxHistoryTurns
    <3>1. i \in Int
      BY <2>1, <2>2, LenProperties
    <3>2. /\ Cardinality({j \in Users(history') : j < i}) \in Nat
          /\ Cardinality(Users(history')) \in Nat
          /\ Cardinality({j \in Users(history') : j < i}) <= Cardinality(Users(history'))
      BY <2>1, <2>2, <3>1, UsersFinite
    <3> QED
      BY <2>3, <3>2, TurnsAssumption
  <2> QED
    BY <2>4 DEF HistoryBounded
<1> QED
  BY <1>1, <1>2, <1>3, HistorySteps

(* The history is bounded whatever fails, for any limit: up to its last     *)
(* answer there are at most max_history_turns questions (trim_history runs  *)
(* after the answer is pushed, and the questions of failed turns count).    *)
THEOREM HistoryStaysBounded == Spec => []HistoryBounded
<1>1. Init => HistoryBounded
  <2>1. DOMAIN <<>> = {}
    OBVIOUS
  <2> QED
    BY <2>1 DEF Init, HistoryBounded
<1> QED
  BY <1>1, IInvInit, IInvNext, BoundedNext, PTL DEF Spec

-----------------------------------------------------------------------------
(* A turn past its answer is in the history, or there are max_history_turns *)
(* questions in it.                                                         *)
Remembered(t) ==
  PastAnswering(t) =>
    \/ \E i \in DOMAIN history : history[i] = User(t)
    \/ Cardinality(Users(history)) >= MaxHistoryTurns

AllRemembered == \A t \in Turn : Remembered(t)

(* A message more leaves the others where they are.                        *)
LEMMA MessageAdded ==
  ASSUME NEW h \in Seq(Message), NEW m \in Message
  PROVE  /\ Append(h, m) \in Seq(Message)
         /\ \A i \in DOMAIN h : i \in DOMAIN Append(h, m) /\ Append(h, m)[i] = h[i]
         /\ Cardinality(Users(Append(h, m))) >= Cardinality(Users(h))
<1> DEFINE g == Append(h, m)
<1>1. g \in Seq(Message) /\ Len(g) = Len(h) + 1 /\ \A i \in 1 .. Len(h) : g[i] = h[i]
  BY AppendProperties
<1>2. DOMAIN h = 1 .. Len(h) /\ DOMAIN g = 1 .. Len(g) /\ Len(h) \in Nat
  BY <1>1, LenProperties
<1> HIDE DEF g
<1>3. \A i \in DOMAIN h : i \in DOMAIN g /\ g[i] = h[i]
  BY <1>1, <1>2
<1>4. Users(h) \in SUBSET Users(g)
  BY <1>3 DEF Users
<1>5. /\ Cardinality(Users(h)) <= Cardinality(Users(g))
      /\ Cardinality(Users(h)) \in Nat /\ Cardinality(Users(g)) \in Nat
  BY <1>1, <1>4, UsersFinite, FS_Subset
<1>6. Cardinality(Users(g)) >= Cardinality(Users(h))
  BY <1>5
<1> QED
  BY <1>1, <1>3, <1>6 DEF g

(* Adding keeps what is there, and a trim that cuts leaves max_history_turns *)
(* questions.                                                               *)
LEMMA RememberedNext ==
  ASSUME IInv, [Next]_vars, AllRemembered
  PROVE  AllRemembered'
<1>1. history \in Seq(Message) /\ MaxHistoryTurns \in Nat
  BY TurnsAssumption DEF IInv, Types
<1>2. Cardinality(Users(history)) \in Nat
  BY <1>1, UsersFinite
<1>3. ASSUME history' = history \/ \E u \in Turn : history' = Append(history, User(u)),
             \A u \in Turn : PastAnswering(u)' => PastAnswering(u),
             NEW t \in Turn
      PROVE  Remembered(t)'
  <2>1. /\ \A i \in DOMAIN history : i \in DOMAIN history' /\ history'[i] = history[i]
        /\ Cardinality(Users(history')) >= Cardinality(Users(history))
        /\ Cardinality(Users(history')) \in Nat
    <3>1. CASE history' = history
      BY <1>2, <3>1
    <3>2. ASSUME NEW u \in Turn, history' = Append(history, User(u))
          PROVE  /\ \A i \in DOMAIN history : i \in DOMAIN history' /\ history'[i] = history[i]
                 /\ Cardinality(Users(history')) >= Cardinality(Users(history))
                 /\ Cardinality(Users(history')) \in Nat
      <4>1. User(u) \in Message
        BY DEF User, Message
      <4> QED
        BY <1>1, <3>2, <4>1, MessageAdded, UsersFinite
    <3>3. CASE \E u \in Turn : history' = Append(history, User(u))
      BY <3>2, <3>3
    <3> QED
      BY <1>3, <3>1, <3>3
  <2> SUFFICES ASSUME PastAnswering(t)'
               PROVE  \/ \E i \in DOMAIN history' : history'[i] = User(t)
                      \/ Cardinality(Users(history')) >= MaxHistoryTurns
    BY DEF AllRemembered, Remembered
  <2>2. \/ \E i \in DOMAIN history : history[i] = User(t)
        \/ Cardinality(Users(history)) >= MaxHistoryTurns
    BY <1>3 DEF AllRemembered, Remembered
  <2> QED
    BY <1>1, <1>2, <2>1, <2>2
<1>4. ASSUME NEW u \in Turn, pc[u] = "answering",
             history' = TrimHistory(Append(history, Assistant(u))),
             \A t \in Turn \ {u} : PastAnswering(t)' => PastAnswering(t)
      PROVE  AllRemembered'
  <2> DEFINE h == Append(history, Assistant(u))
  <2>1. /\ h \in Seq(Message)
        /\ \A i \in DOMAIN history : i \in DOMAIN h /\ h[i] = history[i]
        /\ Cardinality(Users(h)) >= Cardinality(Users(history))
    <3>1. Assistant(u) \in Message
      BY DEF Assistant, Message
    <3> QED
      BY <1>1, <3>1, MessageAdded
  <2>2. history' = TrimHistory(h)
    BY <1>4
  <2> HIDE DEF h
  <2>3. \/ history' = h /\ Cardinality(Users(h)) <= MaxHistoryTurns
        \/ Cardinality(Users(history')) = MaxHistoryTurns
    BY <2>1, <2>2, TrimCount
  <2>4. CASE Cardinality(Users(history')) = MaxHistoryTurns
    BY <1>1, <2>4 DEF AllRemembered, Remembered
  <2>5. CASE history' = h
    <3> SUFFICES ASSUME NEW t \in Turn, PastAnswering(t)'
                 PROVE  \/ \E i \in DOMAIN history' : history'[i] = User(t)
                        \/ Cardinality(Users(history')) >= MaxHistoryTurns
      BY DEF AllRemembered, Remembered
    <3>1. Cardinality(Users(h)) \in Nat
      BY <2>1, UsersFinite
    <3>2. CASE t = u
      <4>1. history # <<>> /\ history[Len(history)] = User(u)
        BY <1>4 DEF IInv, QuestionIsLast, Thinking
      <4>2. Len(history) \in DOMAIN history
        BY <1>1, <4>1, LenProperties, EmptySeq
      <4> QED
        BY <2>1, <2>5, <3>2, <4>1, <4>2
    <3>3. CASE t # u
      <4>1. PastAnswering(t)
        BY <1>4, <3>3
      <4>2. \/ \E i \in DOMAIN history : history[i] = User(t)
            \/ Cardinality(Users(history)) >= MaxHistoryTurns
        BY <4>1 DEF AllRemembered, Remembered
      <4> QED
        BY <1>1, <1>2, <2>1, <2>5, <3>1, <4>2
    <3> QED
      BY <3>2, <3>3
  <2> QED
    BY <2>3, <2>4, <2>5
<1> QED
  BY <1>3, <1>4, HistorySteps DEF AllRemembered

(* A turn that was reported complete stays in the conversation, with its    *)
(* answer, until max_history_turns others have taken its place, for any     *)
(* limit and whatever other turns fail or are aborted meanwhile.            *)
THEOREM CompletedStayRemembered == Spec => []CompletedIsRemembered
<1>1. Init => AllRemembered
  BY DEF Init, AllRemembered, Remembered, PastAnswering
<1>2. Spec => [](IInv /\ AllRemembered)
  BY <1>1, IInvInit, IInvNext, RememberedNext, PTL DEF Spec
<1>3. IInv /\ AllRemembered => CompletedIsRemembered
  <2> SUFFICES ASSUME IInv, AllRemembered, NEW t \in Turn, completed[t]
               PROVE  \/ {User(t), Assistant(t)} \subseteq ToSet(history)
                      \/ Cardinality({i \in Users(history) : history[i].turn # t}) >= MaxHistoryTurns
    BY DEF CompletedIsRemembered
  <2>1. history \in Seq(Message) /\ Len(history) \in Nat /\ DOMAIN history = 1 .. Len(history)
    BY LenProperties DEF IInv, Types
  <2>2. CASE \E i \in DOMAIN history : history[i] = User(t)
    <3>1. PICK i \in DOMAIN history : history[i] = User(t)
      BY <2>2
    <3>2. i < Len(history) /\ history[i + 1] = Assistant(t)
      BY <3>1 DEF IInv, PastAnswer
    <3>3. i + 1 \in DOMAIN history
      BY <2>1, <3>1, <3>2
    <3> QED
      BY <3>1, <3>2, <3>3 DEF ToSet
  <2>3. CASE ~\E i \in DOMAIN history : history[i] = User(t)
    <3>1. Cardinality(Users(history)) >= MaxHistoryTurns
      BY <2>3 DEF AllRemembered, Remembered, PastAnswering
    <3>2. ASSUME NEW i \in Users(history) PROVE history[i].turn # t
      <4>1. i \in DOMAIN history /\ history[i] \in Message /\ history[i].role = "user"
        BY <2>1, ElementOfSeq DEF Users
      <4>2. history[i] # User(t)
        BY <2>3, <4>1
      <4> QED
        BY <4>1, <4>2 DEF Message, User
    <3>3. {i \in Users(history) : history[i].turn # t} = Users(history)
      BY <3>2
    <3> QED
      BY <3>1, <3>3
  <2> QED
    BY <2>2, <2>3
<1> QED
  BY <1>2, <1>3, PTL

-----------------------------------------------------------------------------
(* The session's lock, and the types of the rest of the state.              *)

(* No sequence holds t but at one index, if any.                            *)
Once(s) == \A i, j \in 1 .. Len(s) : s[i] = s[j] => i = j

(* A request taken out of the queue leaves the others in it.                *)
LEMMA RemoveFirstOfOnce ==
  ASSUME NEW s \in Seq(Turn), NEW t \in Turn, Once(s)
  PROVE  /\ RemoveFirst(s, t) \in Seq(Turn) /\ Once(RemoveFirst(s, t))
         /\ \A u \in Turn : (\E i \in 1 .. Len(RemoveFirst(s, t)) : RemoveFirst(s, t)[i] = u)
                              <=> u # t /\ \E i \in 1 .. Len(s) : s[i] = u
<1> DEFINE n == Len(s)
           I == {i \in 1 .. n : s[i] = t}
<1>1. n \in Nat /\ DOMAIN s = 1 .. n /\ \A i \in 1 .. n : s[i] \in Turn
  BY LenProperties, ElementOfSeq
<1>2. CASE I = {}
  <2>1. RemoveFirst(s, t) = s
    BY <1>2 DEF RemoveFirst
  <2> QED
    BY <1>2, <2>1
<1>3. CASE I # {}
  <2> DEFINE k == SelectInSeq(s, LAMBDA v : v = t)
             r == RemoveFirst(s, t)
             a == SubSeq(s, 1, k - 1)
             b == SubSeq(s, k + 1, n)
  <2>1. k \in 1 .. n /\ s[k] = t
    <3>1. PICK m \in I : \A i \in I : m <= i
      <4>1. I \in SUBSET Nat
        OBVIOUS
      <4> HIDE DEF I
      <4> QED
        BY <1>3, <4>1, LeastExists
    <3>2. k = CHOOSE x \in I : \A y \in I : x <= y
      BY <1>3 DEF SelectInSeq, Min
    <3> HIDE DEF k
    <3>3. k \in I
      <4> HIDE DEF I
      <4> QED
        BY <3>1, <3>2
    <3> QED
      BY <3>3
  <2>2. r = RemoveAt(s, k)
    BY <1>3 DEF RemoveFirst
  <2> HIDE DEF k
  <2>3. r = a \o b
    BY <2>2 DEF RemoveAt
  <2>4. a \in Seq(Turn) /\ Len(a) = k - 1 /\ \A i \in 1 .. k - 1 : a[i] = s[i]
    <3>1. /\ a \in Seq(Turn) /\ Len(a) = (IF 1 <= k - 1 THEN k - 1 - 1 + 1 ELSE 0)
          /\ \A i \in 1 .. k - 1 - 1 + 1 : a[i] = s[1 + i - 1]
      <4>1. \A i \in 1 .. k - 1 : s[i] \in Turn
        BY <1>1, <2>1
      <4>2. k - 1 \in Int
        BY <1>1, <2>1
      <4> QED
        BY <4>1, <4>2, SubSeqProperties
    <3>2. k - 1 - 1 + 1 = k - 1 /\ \A i \in 1 .. k - 1 : 1 + i - 1 = i
      BY <2>1
    <3>3. (IF 1 <= k - 1 THEN k - 1 - 1 + 1 ELSE 0) = k - 1
      BY <2>1
    <3> HIDE DEF a
    <3> QED
      BY <3>1, <3>2, <3>3
  <2>5. b \in Seq(Turn) /\ Len(b) = n - k /\ \A i \in 1 .. n - k : b[i] = s[k + i]
    <3>1. /\ b \in Seq(Turn) /\ Len(b) = (IF k + 1 <= n THEN n - (k + 1) + 1 ELSE 0)
          /\ \A i \in 1 .. n - (k + 1) + 1 : b[i] = s[k + 1 + i - 1]
      <4>1. \A i \in k + 1 .. n : s[i] \in Turn
        BY <1>1, <2>1
      <4> QED
        BY <1>1, <2>1, <4>1, SubSeqProperties
    <3>2. n - (k + 1) + 1 = n - k /\ \A i \in 1 .. n - k : k + 1 + i - 1 = k + i
      BY <1>1, <2>1
    <3>3. (IF k + 1 <= n THEN n - (k + 1) + 1 ELSE 0) = n - k
      <4> HIDE DEF n
      <4>1. k \in Int /\ n \in Int /\ 1 <= k /\ k <= n
        BY <1>1, <2>1
      <4>2. CASE k = n
        BY <4>1, <4>2
      <4>3. CASE k # n
        BY <4>1, <4>3
      <4> QED
        BY <4>2, <4>3
    <3> HIDE DEF b
    <3> QED
      BY <3>1, <3>2, <3>3
  <2> HIDE DEF a, b
  <2>6. r \in Seq(Turn) /\ Len(r) = n - 1
    <3>1. r \in Seq(Turn) /\ Len(r) = Len(a) + Len(b)
      BY <2>3, <2>4, <2>5, ConcatProperties
    <3> HIDE DEF r
    <3> QED
      BY <1>1, <2>1, <2>4, <2>5, <3>1
  <2>7. \A i \in 1 .. n - 1 : r[i] = s[IF i < k THEN i ELSE i + 1]
    <3> TAKE i \in 1 .. n - 1
    <3>1. i \in 1 .. Len(a) + Len(b)
      BY <1>1, <2>1, <2>4, <2>5
    <3>2. r[i] = IF i <= Len(a) THEN a[i] ELSE b[i - Len(a)]
      BY <2>3, <2>4, <2>5, <3>1, ConcatProperties
    <3> HIDE DEF r
    <3>3. CASE i < k
      <4>1. i \in 1 .. k - 1 /\ i <= Len(a)
        BY <2>1, <2>4, <3>3
      <4> QED
        BY <2>4, <3>2, <3>3, <4>1
    <3>4. CASE ~(i < k)
      <4>1. i - (k - 1) \in 1 .. n - k /\ ~(i <= Len(a)) /\ k + (i - (k - 1)) = i + 1
        BY <1>1, <2>1, <2>4, <3>4
      <4> QED
        BY <2>4, <2>5, <3>2, <3>4, <4>1
    <3> QED
      BY <3>3, <3>4
  <2> HIDE DEF r
  <2> DEFINE at(i) == IF i < k THEN i ELSE i + 1
  <2>8. \A i \in 1 .. n - 1 : at(i) \in 1 .. n /\ at(i) # k
    BY <1>1, <2>1
  <2>9. \A i, j \in 1 .. n - 1 : at(i) = at(j) => i = j
    BY <1>1, <2>1
  <2>10. \A i \in 1 .. n : i # k => \E j \in 1 .. n - 1 : at(j) = i
    <3> SUFFICES ASSUME NEW i \in 1 .. n, i # k PROVE \E j \in 1 .. n - 1 : at(j) = i
      OBVIOUS
    <3>1. CASE i < k
      <4>1. i \in 1 .. n - 1 /\ at(i) = i
        BY <1>1, <2>1, <3>1
      <4> QED
        BY <4>1
    <3>2. CASE ~(i < k)
      <4>1. i - 1 \in 1 .. n - 1 /\ at(i - 1) = i
        BY <1>1, <2>1, <3>2
      <4> QED
        BY <4>1
    <3> QED
      BY <3>1, <3>2
  <2>11. \A i \in 1 .. n - 1 : r[i] = s[at(i)]
    BY <2>7
  <2> HIDE DEF at
  <2>12. Once(r)
    BY <2>6, <2>8, <2>9, <2>11 DEF Once
  <2>13. ASSUME NEW u \in Turn
         PROVE (\E i \in 1 .. n - 1 : r[i] = u) <=> u # t /\ \E i \in 1 .. n : s[i] = u
    <3>1. ASSUME NEW i \in 1 .. n - 1, r[i] = u PROVE u # t /\ \E j \in 1 .. n : s[j] = u
      <4>1. at(i) \in 1 .. n /\ at(i) # k /\ s[at(i)] = u
        BY <2>8, <2>11, <3>1
      <4> QED
        BY <2>1, <4>1 DEF Once
    <3>2. ASSUME u # t, NEW i \in 1 .. n, s[i] = u PROVE \E j \in 1 .. n - 1 : r[j] = u
      <4>1. i # k
        BY <2>1, <3>2
      <4> QED
        BY <2>10, <2>11, <3>2, <4>1
    <3> QED
      BY <3>1, <3>2
  <2> QED
    BY <2>6, <2>12, <2>13 DEF r
<1> QED
  BY <1>2, <1>3

-----------------------------------------------------------------------------
Sent ==
  /\ spoke \in [Turn -> BOOLEAN] /\ sent \in [Turn -> Nat]
  /\ collecting \in [Turn -> BOOLEAN]
  /\ got \in [Turn -> [chunks : Nat, text : BOOLEAN]]

(* A turn that calls tools has a round left.                                *)
RoundsLeft ==
  \A t \in Turn :
    /\ round[t] <= MaxToolRounds
    /\ pc[t] \in {"calling", "dispatching"} => round[t] < MaxToolRounds

(* The queue of the lock holds the waiting turns, once each.                *)
Queued ==
  /\ queue \in Seq(Turn)
  /\ \A t \in Turn : pc[t] = "waiting" <=> \E i \in 1 .. Len(queue) : queue[i] = t
  /\ Once(queue)

LInv == Sent /\ RoundsLeft /\ Queued

LEMMA SentKeeps ==
  ASSUME Sent, NEW t \in Turn, Step(t) \/ Environment(t)
  PROVE  Sent'
<1> USE DEF Sent, roundVars, clientVars
<1>1. CASE Start(t) \/ LockWs(t) \/ Think(t)
  BY <1>1 DEF Start, LockWs, Think, Open
<1>2. CASE LockHttp(t)
  BY <1>2 DEF LockHttp, Open
<1>3. CASE StreamOpens(t) \/ Delta(t)
  BY <1>3 DEF StreamOpens, Delta
<1>4. CASE AudioChunk(t)
  BY <1>4 DEF AudioChunk
<1>5. CASE (\E n \in 0 .. MaxCalls : StreamEnds(t, n)) \/ CallTool(t) \/ ToolResult(t)
  BY <1>5 DEF StreamEnds, CallTool, ToolResult, ToolResultWith
<1>6. CASE EmptyAnswer(t) \/ Complete(t) \/ Fail(t) \/ Report(t)
  BY <1>6 DEF EmptyAnswer, Complete, Fail, Report
<1>7. CASE Answer(t)
  BY <1>7 DEF Answer
<1>8. CASE Close(t) \/ Respond(t) \/ FailHttp(t) \/ Abort(t)
  <2>1. Nothing \in [chunks : Nat, text : BOOLEAN]
    BY DEF Nothing
  <2>2. /\ spoke' = [spoke EXCEPT ![t] = FALSE] /\ sent' = [sent EXCEPT ![t] = 0]
        /\ collecting' = [collecting EXCEPT ![t] = FALSE]
        /\ got' = [got EXCEPT ![t] = Nothing]
    BY <1>8 DEF Close, Respond, FailHttp, Abort, Release, Forget
  <2> QED
    BY <2>1, <2>2
<1>9. CASE CollectorLeaves(t)
  BY <1>9 DEF CollectorLeaves
<1> QED
  BY <1>1, <1>2, <1>3, <1>4, <1>5, <1>6, <1>7, <1>8, <1>9 DEF Step, Environment

(* The round a turn begins is one that max_rounds leaves it.                *)
LEMMA RoundsLeftKeeps ==
  ASSUME RInv, RoundsLeft, NEW t \in Turn, Step(t) \/ Environment(t)
  PROVE  RoundsLeft'
<1>1. MaxToolRounds \in Nat \ {0} /\ round[t] \in Nat /\ round[t] <= MaxToolRounds
  <2>1. MaxToolRounds \in Nat \ {0}
    BY TurnsAssumption
  <2>2. round[t] \in Nat
    BY DEF RInv, RoundTypes
  <2>3. round[t] <= MaxToolRounds
    BY DEF RoundsLeft
  <2> QED
    BY <2>1, <2>2, <2>3
<1>2. SUFFICES /\ \A u \in Turn : u # t => pc'[u] = pc[u] /\ round'[u] = round[u]
               /\ round'[t] <= MaxToolRounds
               /\ pc'[t] \in {"calling", "dispatching"} => round'[t] < MaxToolRounds
  BY DEF RoundsLeft
<1> USE DEF RInv, RoundTypes, Goto, sessionVars, roundVars
<1>3. CASE Start(t) \/ LockWs(t)
  BY <1>1, <1>3 DEF Start, LockWs
<1>4. CASE LockHttp(t) \/ Think(t)
  BY <1>1, <1>4 DEF LockHttp, Think, Open
<1>5. CASE StreamOpens(t) \/ EmptyAnswer(t) \/ Answer(t) \/ Fail(t) \/ Report(t)
  BY <1>1, <1>5 DEF StreamOpens, EmptyAnswer, Answer, Fail, Report
<1>6. CASE Complete(t)
  <2>1. PICK to \in {"closing", "responding"} : pc' = [pc EXCEPT ![t] = to]
    BY <1>6 DEF Complete
  <2> QED
    BY <1>1, <1>6, <2>1 DEF Complete
<1>7. CASE Delta(t) \/ AudioChunk(t) \/ CollectorLeaves(t)
  BY <1>1, <1>7 DEF Delta, AudioChunk, CollectorLeaves, RoundsLeft
<1>8. CASE \E n \in 0 .. MaxCalls : StreamEnds(t, n)
  <2>1. /\ round' = round /\ \E to \in {"answering", "empty", "calling"} :
             pc' = [pc EXCEPT ![t] = to] /\ (to = "calling" => round[t] # MaxToolRounds)
    BY <1>8 DEF StreamEnds
  <2> QED
    BY <1>1, <2>1
<1>9. CASE CallTool(t)
  BY <1>1, <1>9 DEF CallTool, RoundsLeft
<1>10. CASE ToolResult(t)
  <2>1. pc[t] = "dispatching"
    BY <1>10 DEF ToolResult, ToolResultWith
  <2>3. round[t] < MaxToolRounds
    BY <2>1 DEF RoundsLeft
  <2>2. \/ pc' = [pc EXCEPT ![t] = "asking"] /\ round' = [round EXCEPT ![t] = round[t] + 1]
        \/ pc' = [pc EXCEPT ![t] = "calling"] /\ round' = round
    BY <1>10 DEF ToolResult, ToolResultWith, AppendToolRound
  <2> QED
    BY <1>1, <2>1, <2>2, <2>3
<1>11. CASE Close(t) \/ Respond(t) \/ FailHttp(t) \/ Abort(t)
  BY <1>1, <1>11 DEF Close, Respond, FailHttp, Abort, Release, Forget
<1> QED
  BY <1>3, <1>4, <1>5, <1>6, <1>7, <1>8, <1>9, <1>10, <1>11 DEF Step, Environment

(* What a step does to the queue: a turn joins it when it starts to wait,   *)
(* the first leaves it with the lock, and a turn that is over leaves it     *)
(* wherever it is.                                                          *)
LEMMA QueueSteps ==
  ASSUME RInv, NEW t \in Turn, Step(t) \/ Environment(t)
  PROVE  /\ \A u \in Turn : u # t => pc'[u] = pc[u]
         /\ \/ pc[t] # "waiting" /\ pc'[t] = "waiting" /\ queue' = Append(queue, t)
            \/ /\ pc'[t] # "waiting" /\ queue # <<>>
               /\ t = Head(queue) /\ queue' = Tail(queue)
            \/ pc'[t] # "waiting" /\ queue' = RemoveFirst(queue, t)
            \/ pc[t] # "waiting" /\ pc'[t] # "waiting" /\ queue' = queue
<1> USE DEF RInv, RoundTypes, Goto, sessionVars
<1>1. CASE Start(t)
  BY <1>1 DEF Start
<1>2. CASE LockWs(t) \/ LockHttp(t)
  BY <1>2 DEF LockWs, LockHttp, Lock
<1>3. CASE \/ Think(t) \/ StreamOpens(t) \/ EmptyAnswer(t) \/ Answer(t) \/ Fail(t) \/ Report(t)
           \/ CallTool(t)
  BY <1>3 DEF Think, StreamOpens, EmptyAnswer, Answer, Fail, Report, CallTool
<1>4. CASE Complete(t)
  <2>1. PICK to \in {"closing", "responding"} : pc' = [pc EXCEPT ![t] = to]
    BY <1>4 DEF Complete
  <2> QED
    BY <1>4, <2>1 DEF Complete
<1>5. CASE Delta(t) \/ AudioChunk(t) \/ CollectorLeaves(t)
  BY <1>5 DEF Delta, AudioChunk, CollectorLeaves
<1>6. CASE \E n \in 0 .. MaxCalls : StreamEnds(t, n)
  <2>1. /\ pc[t] = "streaming" /\ queue' = queue
        /\ \E to \in {"answering", "empty", "calling"} : pc' = [pc EXCEPT ![t] = to]
    BY <1>6 DEF StreamEnds
  <2> QED
    BY <2>1
<1>7. CASE ToolResult(t)
  BY <1>7 DEF ToolResult, ToolResultWith
<1>8. CASE Close(t) \/ Respond(t) \/ FailHttp(t) \/ Abort(t)
  BY <1>8 DEF Close, Respond, FailHttp, Abort, Release
<1> QED
  BY <1>1, <1>2, <1>3, <1>4, <1>5, <1>6, <1>7, <1>8 DEF Step, Environment

LEMMA QueuedKeeps ==
  ASSUME RInv, Queued, NEW t \in Turn, Step(t) \/ Environment(t)
  PROVE  Queued'
<1> DEFINE n == Len(queue)
<1>1. /\ queue \in Seq(Turn) /\ n \in Nat /\ Once(queue)
      /\ \A i \in 1 .. n : queue[i] \in Turn
      /\ \A u \in Turn : pc[u] = "waiting" <=> \E i \in 1 .. n : queue[i] = u
  BY LenProperties, ElementOfSeq DEF Queued
<1>2. \A u \in Turn : u # t => pc'[u] = pc[u]
  BY QueueSteps
<1>3. CASE pc[t] # "waiting" /\ pc'[t] = "waiting" /\ queue' = Append(queue, t)
  <2> DEFINE q == Append(queue, t)
  <2>1. /\ q \in Seq(Turn) /\ Len(q) = n + 1 /\ q[n + 1] = t
        /\ \A i \in 1 .. n : q[i] = queue[i]
    BY <1>1, AppendProperties
  <2> HIDE DEF q, n
  <2>2. \A i \in 1 .. n + 1 : i \in 1 .. n \/ i = n + 1
    BY <1>1
  <2>3. \A i \in 1 .. n : i \in 1 .. n + 1 /\ q[i] # t /\ i # n + 1
    BY <1>1, <1>3, <2>1
  <2>4. n + 1 \in 1 .. n + 1
    BY <1>1
  <2>5. Once(q)
    BY <1>1, <2>1, <2>2, <2>3 DEF Once, n
  <2>6. ASSUME NEW u \in Turn
        PROVE pc'[u] = "waiting" <=> \E i \in 1 .. n + 1 : q[i] = u
    BY <1>1, <1>2, <1>3, <2>1, <2>2, <2>3, <2>4
  <2> QED
    BY <1>3, <2>1, <2>5, <2>6 DEF Queued, q
<1>4. CASE pc'[t] # "waiting" /\ queue # <<>> /\ t = Head(queue) /\ queue' = Tail(queue)
  <2> DEFINE q == Tail(queue)
  <2>1. /\ q \in Seq(Turn) /\ Len(q) = n - 1 /\ n # 0 /\ queue[1] = t
        /\ \A i \in 1 .. n - 1 : q[i] = queue[i + 1]
    BY <1>1, <1>4, HeadTailProperties, EmptySeq
  <2> HIDE DEF q
  <2>2. \A i \in 1 .. n - 1 : i + 1 \in 1 .. n /\ i + 1 # 1
    BY <1>1
  <2>3. \A i \in 1 .. n : i = 1 \/ (i - 1 \in 1 .. n - 1 /\ i - 1 + 1 = i)
    BY <1>1
  <2>4. 1 \in 1 .. n
    BY <1>1, <2>1
  <2>5. Once(q)
    <3> SUFFICES ASSUME NEW i \in 1 .. n - 1, NEW j \in 1 .. n - 1, q[i] = q[j] PROVE i = j
      BY <2>1 DEF Once
    <3>1. i + 1 = j + 1
      BY <1>1, <2>1, <2>2 DEF Once
    <3> QED
      BY <3>1
  <2>6. ASSUME NEW u \in Turn
        PROVE pc'[u] = "waiting" <=> \E i \in 1 .. n - 1 : q[i] = u
    <3>1. CASE u = t
      <4>1. \A i \in 1 .. n - 1 : q[i] # t
        BY <1>1, <2>1, <2>2, <2>4 DEF Once
      <4> QED
        BY <1>4, <3>1, <4>1
    <3>2. CASE u # t
      <4>1. (\E i \in 1 .. n : queue[i] = u) <=> \E i \in 1 .. n - 1 : q[i] = u
        <5>1. ASSUME NEW i \in 1 .. n, queue[i] = u PROVE \E j \in 1 .. n - 1 : q[j] = u
          <6>1. i - 1 \in 1 .. n - 1 /\ i - 1 + 1 = i
            BY <2>1, <2>3, <3>2, <5>1
          <6> QED
            BY <2>1, <5>1, <6>1
        <5>2. ASSUME NEW i \in 1 .. n - 1, q[i] = u PROVE \E j \in 1 .. n : queue[j] = u
          BY <2>1, <2>2, <5>2
        <5> QED
          BY <5>1, <5>2
      <4> QED
        BY <1>1, <1>2, <3>2, <4>1
    <3> QED
      BY <3>1, <3>2
  <2> QED
    BY <1>4, <2>1, <2>5, <2>6 DEF Queued, q
<1>5. CASE pc'[t] # "waiting" /\ queue' = RemoveFirst(queue, t)
  <2> DEFINE q == RemoveFirst(queue, t)
  <2>1. /\ q \in Seq(Turn) /\ Once(q)
        /\ \A u \in Turn : (\E i \in 1 .. Len(q) : q[i] = u)
                              <=> u # t /\ \E i \in 1 .. n : queue[i] = u
    BY <1>1, RemoveFirstOfOnce
  <2> HIDE DEF q
  <2>2. \A u \in Turn : pc'[u] = "waiting" <=> \E i \in 1 .. Len(q) : q[i] = u
    BY <1>1, <1>2, <1>5, <2>1
  <2> QED
    BY <1>5, <2>1, <2>2 DEF Queued, q
<1>6. CASE pc[t] # "waiting" /\ pc'[t] # "waiting" /\ queue' = queue
  BY <1>1, <1>2, <1>6 DEF Queued
<1> QED
  BY <1>3, <1>4, <1>5, <1>6, QueueSteps

LEMMA LInvInit ==
  ASSUME Init PROVE LInv
<1>1. Sent /\ RoundsLeft
  BY TurnsAssumption DEF Init, Sent, RoundsLeft, Nothing
<1>2. Queued
  <2>1. queue = <<>> /\ <<>> \in Seq(Turn) /\ Len(<<>>) = 0
    BY EmptySeq DEF Init
  <2>2. 1 .. 0 = {}
    OBVIOUS
  <2> QED
    BY <2>1, <2>2 DEF Init, Queued, Once
<1> QED
  BY <1>1, <1>2 DEF LInv

LEMMA LInvNext ==
  ASSUME RInv, LInv, [Next]_vars PROVE LInv'
<1>1. CASE UNCHANGED vars
  BY <1>1 DEF vars, sessionVars, roundVars, clientVars, LInv, Sent, RoundsLeft, Queued
<1>2. ASSUME NEW t \in Turn, Step(t) \/ Environment(t) PROVE LInv'
  BY <1>2, SentKeeps, RoundsLeftKeeps, QueuedKeeps DEF LInv
<1> QED
  BY <1>1, <1>2 DEF Next, Over

LEMMA AllInvariants == Spec => [](IInv /\ RInv /\ LInv)
BY IInvInit, IInvNext, RInvInit, RInvNext, LInvInit, LInvNext, PTL DEF Spec

(* The state of a session and its turns is well-typed; in particular no     *)
(* turn begins more than MAX_TOOL_ROUNDS rounds.                            *)
THEOREM TurnsTyped == Spec => []TypeOK
<1>1. IInv /\ RInv /\ LInv => TypeOK
  <2> SUFFICES ASSUME IInv, RInv, LInv PROVE TypeOK
    OBVIOUS
  <2>1. round \in [Turn -> 0 .. MaxToolRounds]
    <3>1. MaxToolRounds \in Nat
      BY TurnsAssumption
    <3>2. round \in [Turn -> Nat] /\ \A t \in Turn : round[t] <= MaxToolRounds
      BY DEF RInv, RoundTypes, LInv, RoundsLeft
    <3> QED
      BY <3>1, <3>2
  <2> QED
    BY <2>1 DEF IInv, Types, RInv, RoundTypes, LInv, Sent, Queued, TypeOK, Message, Entry
<1> QED
  BY <1>1, AllInvariants, PTL

(* The lock of a session is held by a turn at an await inside it, and its   *)
(* queue is the turns that wait: an aborted turn leaves no request behind.  *)
THEOREM LockStaysWithTheLiving == Spec => []LockOfTheLiving
<1>1. IInv /\ LInv => LockOfTheLiving
  <2> SUFFICES ASSUME IInv, LInv PROVE LockOfTheLiving
    OBVIOUS
  <2>1. DOMAIN queue = 1 .. Len(queue)
    BY LenProperties DEF LInv, Queued
  <2> QED
    BY <2>1 DEF IInv, Exclusive, LInv, Queued, Once, LockOfTheLiving
<1> QED
  BY <1>1, AllInvariants, PTL

-----------------------------------------------------------------------------
(* Turns are atomic to each other: the session implements Conversation.     *)
(* The instance has the operators of FiniteSets again.                      *)
LEMMA SameCardinality == \A S : Shared!Cardinality(S) = Cardinality(S)
BY DEF Shared!Cardinality, Cardinality

(* trim_history keeps what Conversation says: everything, or the last       *)
(* MaxHistoryTurns questions and what follows the first of them.            *)
LEMMA TrimIsRecent ==
  ASSUME NEW h \in Seq(Message)
  PROVE  TrimHistory(h) \in Shared!Recent(h)
<1> DEFINE excess == Cardinality(Users(h)) - MaxHistoryTurns
           first == {i \in Users(h) : Cardinality({j \in Users(h) : j < i}) = excess}
           k == CHOOSE i \in first : TRUE
<1>1. \A g : Shared!Questions(g) = Users(g)
  BY DEF Shared!Questions, Users
<1> USE SameCardinality
<1>2. MaxHistoryTurns \in Nat /\ Cardinality(Users(h)) \in Nat /\ Len(h) \in Nat
  BY TurnsAssumption, UsersFinite
<1>3. CASE excess <= 0
  <2>1. TrimHistory(h) = h
    BY <1>3 DEF TrimHistory
  <2>2. Cardinality(Users(h)) <= MaxHistoryTurns
    BY <1>2, <1>3
  <2> QED
    BY <1>1, <2>1, <2>2 DEF Shared!Recent
<1>4. ASSUME ~(excess <= 0),
             NEW m \in Users(h) \cup {Len(h) + 1}, TrimHistory(h) = SubSeq(h, m, Len(h))
      PROVE  TrimHistory(h) \in Shared!Recent(h)
  <2>1. ~(Cardinality(Users(h)) <= MaxHistoryTurns)
    BY <1>2, <1>4
  <2>2. Cardinality(Users(TrimHistory(h))) = MaxHistoryTurns
    BY <2>1, TrimCount
  <2> HIDE DEF excess, first, k
  <2>3. TrimHistory(h) = Shared!From(h, m)
    BY <1>4 DEF Shared!From
  <2>4. m \in Shared!Questions(h) \cup {Len(h) + 1}
    BY <1>1
  <2>5. Cardinality(Shared!Questions(Shared!From(h, m))) = MaxHistoryTurns
    BY <1>1, <2>2, <2>3
  <2>6. ~(Cardinality(Shared!Questions(h)) <= MaxHistoryTurns)
    BY <1>1, <2>1
  <2> QED
    BY <2>3, <2>4, <2>5, <2>6 DEF Shared!Recent
<1>5. CASE ~(excess <= 0) /\ first = {}
  <2>1. TrimHistory(h) = <<>>
    BY <1>5 DEF TrimHistory
  <2> HIDE DEF excess, first, k
  <2>2. SubSeq(h, Len(h) + 1, Len(h)) = <<>>
    BY <1>2, SubSeqEmpty
  <2> QED
    BY <1>4, <1>5, <2>1, <2>2
<1>6. CASE ~(excess <= 0) /\ first # {}
  <2>1. TrimHistory(h) = SubSeq(h, k, Len(h)) /\ k \in Users(h)
    BY <1>6 DEF TrimHistory
  <2> HIDE DEF excess, first, k
  <2> QED
    BY <1>4, <1>6, <2>1
<1> QED
  BY <1>3, <1>5, <1>6

(* A message, and two, at the end of a sequence.                            *)
LEMMA FrontOfAppend ==
  ASSUME NEW S, NEW s \in Seq(S), NEW e \in S
  PROVE  Front(Append(s, e)) = s
<1>1. /\ Append(s, e) \in Seq(S) /\ Len(Append(s, e)) = Len(s) + 1
      /\ \A i \in 1 .. Len(s) : Append(s, e)[i] = s[i]
      /\ Len(s) \in Nat /\ Len(s) + 1 - 1 = Len(s)
  BY AppendProperties, LenProperties
<1>2. \A i \in 1 .. Len(s) : Append(s, e)[i] \in S
  BY <1>1, ElementOfSeq
<1>3. /\ SubSeq(Append(s, e), 1, Len(s)) \in Seq(S)
      /\ Len(SubSeq(Append(s, e), 1, Len(s))) = Len(s)
      /\ \A i \in 1 .. Len(s) : SubSeq(Append(s, e), 1, Len(s))[i] = s[i]
  BY <1>1, <1>2, SubSeqProperties
<1>4. SubSeq(Append(s, e), 1, Len(s)) = s
  BY <1>3, SeqEqual
<1> QED
  BY <1>1, <1>4 DEF Front

LEMMA FrontAndLast ==
  ASSUME NEW S, NEW s \in Seq(S), s # <<>>
  PROVE  Front(s) \in Seq(S) /\ s = Append(Front(s), s[Len(s)])
<1> DEFINE n == Len(s)
           f == SubSeq(s, 1, n - 1)
<1>1. n \in Nat /\ n # 0 /\ \A i \in 1 .. n : s[i] \in S
  BY EmptySeq, LenProperties, ElementOfSeq
<1>2. n - 1 \in Nat /\ \A i \in 1 .. n - 1 : s[i] \in S
  BY <1>1
<1> HIDE DEF n
<1>3. f \in Seq(S) /\ Len(f) = n - 1 /\ \A i \in 1 .. n - 1 : f[i] = s[i]
  BY <1>2, SubSeqProperties
<1> HIDE DEF f
<1>4. /\ Append(f, s[n]) \in Seq(S) /\ Len(Append(f, s[n])) = n
      /\ \A i \in 1 .. n - 1 : Append(f, s[n])[i] = s[i]
      /\ Append(f, s[n])[n] = s[n]
  <2>1. s[n] \in S
    BY <1>1
  <2>2. /\ Append(f, s[n]) \in Seq(S) /\ Len(Append(f, s[n])) = Len(f) + 1
        /\ \A i \in 1 .. Len(f) : Append(f, s[n])[i] = f[i]
        /\ Append(f, s[n])[Len(f) + 1] = s[n]
    BY <1>3, <2>1, AppendProperties
  <2>3. Len(f) + 1 = n
    BY <1>1, <1>3
  <2> QED
    BY <1>3, <2>2, <2>3
<1>5. \A i \in 1 .. n : i \in 1 .. n - 1 \/ i = n
  BY <1>1
<1>6. Append(f, s[n]) = s
  BY <1>4, <1>5, SeqEqual DEF n
<1> QED
  BY <1>3, <1>6 DEF Front, f, n

LEMMA AppendTwo ==
  ASSUME NEW S, NEW s \in Seq(S), NEW d \in S, NEW e \in S
  PROVE  Append(Append(s, d), e) = s \o <<d, e>>
<1>1. /\ Append(s, d) \in Seq(S) /\ Append(Append(s, d), e) \in Seq(S)
      /\ <<d, e>> \in Seq(S) /\ s \o <<d, e>> \in Seq(S)
  BY AppendProperties, ConcatProperties
<1> QED
  BY <1>1, AppendProperties, ConcatProperties, SeqEqual

(* The conversation while a turn thinks is the history without its          *)
(* question, and the history itself while none does.                        *)
LogIs ==
  /\ \A t \in Turn : pc[t] \in Thinking => Log = Front(history) /\ history = Append(Log, User(t))
  /\ (\A t \in Turn : pc[t] \notin Thinking) => Log = history
  /\ Log \in Seq(Message)

LEMMA LogOfHistory == IInv => LogIs
<1> SUFFICES ASSUME IInv PROVE LogIs
  OBVIOUS
<1>1. history \in Seq(Message)
  BY DEF IInv, Types
<1>2. ASSUME NEW t \in Turn, pc[t] \in Thinking
      PROVE  /\ Log = Front(history) /\ history = Append(Log, User(t))
             /\ Log \in Seq(Message)
  <2>1. holder = t /\ t # NoTurn
    BY <1>2, TurnsAssumption DEF IInv, Exclusive, Thinking, Inside, Turn
  <2>2. history # <<>> /\ history[Len(history)] = User(t)
    BY <1>2 DEF IInv, QuestionIsLast
  <2>3. Log = Front(history)
    BY <1>2, <2>1 DEF Log
  <2> QED
    BY <1>1, <2>2, <2>3, FrontAndLast
<1>3. CASE \A t \in Turn : pc[t] \notin Thinking
  <2>1. Log = history
    BY <1>3 DEF Log, IInv, Types
  <2> QED
    BY <1>1, <1>3, <2>1 DEF LogIs
<1>4. CASE ~\A t \in Turn : pc[t] \notin Thinking
  BY <1>2, <1>4 DEF LogIs
<1> QED
  BY <1>3, <1>4

-----------------------------------------------------------------------------
(* What a step means to the conversation: nothing, or a turn.               *)
Means(t) ==
  \/ Log' = Log /\ \A u \in Turn : HadItsSay(u)' = HadItsSay(u)
  \/ Shared!TakesTurn(t)

(* A turn that thinks on says nothing; one that fails leaves its question.  *)
LEMMA QuietMeans ==
  ASSUME IInv, NEW t \in Turn, Quiet(t)
  PROVE  Means(t)
<1>1. PICK to \in Thinking \cup {"failed", "closing"} :
        /\ pc' = [pc EXCEPT ![t] = to]
        /\ pc[t] \in Thinking \/ (pc[t] = "failed" /\ to \notin Thinking)
  BY DEF Quiet
<1>2. pc'[t] = to /\ \A u \in Turn : u # t => pc'[u] = pc[u]
  BY <1>1 DEF IInv, Types
<1>3. UNCHANGED <<history, holder>> /\ holder = t /\ t # NoTurn
  BY <1>1, TurnsAssumption DEF Quiet, IInv, Exclusive, Thinking, Inside, Turn
<1>4. CASE to \in Thinking
  <2>1. Log' = Log
    BY <1>1, <1>2, <1>3, <1>4 DEF Log, Thinking
  <2>2. \A u \in Turn : HadItsSay(u)' = HadItsSay(u)
    BY <1>1, <1>2, <1>4 DEF HadItsSay, Thinking
  <2> QED
    BY <2>1, <2>2 DEF Means
<1>5. CASE to \notin Thinking /\ pc[t] \notin Thinking
  <2>1. Log' = Log
    BY <1>1, <1>2, <1>3, <1>5 DEF Log
  <2>2. \A u \in Turn : HadItsSay(u)' = HadItsSay(u)
    BY <1>1, <1>2, <1>5 DEF HadItsSay
  <2> QED
    BY <2>1, <2>2 DEF Means
<1>6. CASE to \notin Thinking /\ pc[t] \in Thinking
  <2>1. Log' = history /\ history = Append(Log, User(t))
    BY <1>2, <1>3, <1>6, LogOfHistory DEF Log, LogIs
  <2>2. ~HadItsSay(t) /\ HadItsSay(t)' /\ \A u \in Turn : u # t => HadItsSay(u)' = HadItsSay(u)
    BY <1>1, <1>2, <1>6 DEF HadItsSay, Thinking
  <2>3. Shared!Unanswered(t)
    BY <2>1 DEF Shared!Unanswered, Shared!Asks, User
  <2>4. Shared!TakesTurn(t)
    BY <2>2, <2>3 DEF Shared!TakesTurn
  <2> QED
    BY <2>4 DEF Means
<1> QED
  BY <1>4, <1>5, <1>6

(* Between a turn's question and the lock it asked for, and between its     *)
(* answer and its end, the conversation is as it was.                       *)
LEMMA WaitMeans ==
  ASSUME IInv, NEW t \in Turn, Start(t) \/ LockWs(t) \/ Complete(t)
  PROVE  Means(t)
<1>1. PICK from \in {"idle", "waiting", "completing"},
           to \in {"waiting", "locked", "closing", "responding"} :
        /\ pc[t] = from /\ pc' = [pc EXCEPT ![t] = to] /\ history' = history
        /\ from \in {"idle", "waiting"} <=> to \in {"waiting", "locked"}
        /\ \/ holder' = holder
           \/ holder = NoTurn /\ holder' = t
  BY DEF Start, LockWs, Complete, Goto, Lock, sessionVars
<1>2. pc'[t] = to /\ \A u \in Turn : u # t => pc'[u] = pc[u]
  BY <1>1 DEF IInv, Types
<1>3. holder = NoTurn \/ holder \in Turn
  BY DEF IInv, Types
<1>4. Log' = Log
  BY <1>1, <1>2, <1>3 DEF Log, Thinking
<1>5. \A u \in Turn : HadItsSay(u)' = HadItsSay(u)
  BY <1>1, <1>2 DEF HadItsSay
<1> QED
  BY <1>4, <1>5 DEF Means

(* A question is no part of the conversation while its turn thinks.         *)
LEMMA AskMeans ==
  ASSUME IInv, NEW t \in Turn, LockHttp(t) \/ Think(t)
  PROVE  Means(t)
<1>1. /\ pc[t] \in {"waiting", "locked"} /\ pc' = [pc EXCEPT ![t] = "asking"]
      /\ history' = Append(history, User(t))
  BY DEF LockHttp, Think, Goto, Lock, Open
<1>2. holder' = t /\ (holder = NoTurn \/ holder = t) /\ t # NoTurn
  BY TurnsAssumption DEF LockHttp, Think, Goto, Lock, Open, IInv, Exclusive, Inside, Turn
<1>3. pc'[t] = "asking" /\ \A u \in Turn : u # t => pc'[u] = pc[u]
  BY <1>1 DEF IInv, Types
<1>4. Log = history
  BY <1>1, <1>2 DEF Log, Thinking
<1>5. history \in Seq(Message) /\ User(t) \in Message
  BY DEF IInv, Types, User, Message
<1>6. Log' = Front(Append(history, User(t)))
  BY <1>1, <1>2, <1>3 DEF Log, Thinking
<1>7. Log' = Log
  BY <1>4, <1>5, <1>6, FrontOfAppend
<1>8. \A u \in Turn : HadItsSay(u)' = HadItsSay(u)
  BY <1>1, <1>3 DEF HadItsSay
<1> QED
  BY <1>7, <1>8 DEF Means

(* An answer adds the whole exchange.                                       *)
LEMMA AnswerMeans ==
  ASSUME IInv, NEW t \in Turn, Answer(t)
  PROVE  Means(t)
<1>1. /\ pc[t] = "answering" /\ pc' = [pc EXCEPT ![t] = "completing"]
      /\ history' = TrimHistory(Append(history, Assistant(t))) /\ holder' = holder
  BY DEF Answer, Goto
<1>2. pc'[t] = "completing" /\ \A u \in Turn : u # t => pc'[u] = pc[u]
  BY <1>1 DEF IInv, Types
<1>3. holder = t
  BY <1>1 DEF IInv, Exclusive, Inside
<1>4. /\ history = Append(Log, User(t)) /\ Log \in Seq(Message)
      /\ history \in Seq(Message)
  BY <1>1, LogOfHistory DEF LogIs, Thinking, IInv, Types
<1>5. Log' = TrimHistory(Append(history, Assistant(t)))
  BY <1>1, <1>2, <1>3 DEF Log, Thinking
<1>6. User(t) \in Message /\ Assistant(t) \in Message
  BY DEF User, Assistant, Message
<1>7. Append(history, Assistant(t)) = Log \o <<User(t), Assistant(t)>>
  BY <1>4, <1>6, AppendTwo
<1>8. Append(history, Assistant(t)) \in Seq(Message)
  BY <1>4, <1>6, AppendProperties
<1>9. TrimHistory(Append(history, Assistant(t)))
        \in Shared!Recent(Append(history, Assistant(t)))
  BY <1>8, TrimIsRecent
<1>10. Shared!Exchange(t)
  <2>1. Shared!Asks(t) = User(t) /\ Shared!Answers(t) = Assistant(t)
    BY DEF Shared!Asks, Shared!Answers, User, Assistant
  <2> QED
    BY <1>5, <1>7, <1>9, <2>1 DEF Shared!Exchange
<1>11. ~HadItsSay(t) /\ HadItsSay(t)' /\ \A u \in Turn : u # t => HadItsSay(u)' = HadItsSay(u)
  BY <1>1, <1>2 DEF HadItsSay
<1>12. Shared!TakesTurn(t)
  BY <1>10, <1>11 DEF Shared!TakesTurn
<1> QED
  BY <1>12 DEF Means

(* A turn that ends on its way leaves its question, if it had asked it; one *)
(* that ends past its answer or its failure changes nothing.                *)
LEMMA ReleaseMeans ==
  ASSUME IInv, NEW t \in Turn, Release(t), pc[t] \in Inside \cup {"waiting"}
  PROVE  Means(t)
<1>1. /\ pc' = [pc EXCEPT ![t] = "finished"] /\ history' = history
      /\ holder' = IF holder = t THEN NoTurn ELSE holder
  BY DEF Release
<1>2. pc'[t] = "finished" /\ \A u \in Turn : u # t => pc'[u] = pc[u]
  BY <1>1 DEF IInv, Types
<1>3. HadItsSay(t)' /\ \A u \in Turn : u # t => HadItsSay(u)' = HadItsSay(u)
  BY <1>2 DEF HadItsSay
<1>4. holder = NoTurn \/ holder \in Turn
  BY DEF IInv, Types
<1>5. CASE pc[t] \in Thinking
  <2>1. holder = t
    BY <1>5 DEF IInv, Exclusive, Thinking, Inside
  <2>2. Log' = history /\ history = Append(Log, User(t))
    BY <1>1, <1>5, <2>1, LogOfHistory DEF Log, LogIs
  <2>3. ~HadItsSay(t)
    BY <1>5 DEF HadItsSay, Thinking
  <2>4. Shared!Unanswered(t)
    BY <2>2 DEF Shared!Unanswered, Shared!Asks, User
  <2>5. Shared!TakesTurn(t)
    BY <1>3, <2>3, <2>4 DEF Shared!TakesTurn
  <2> QED
    BY <2>5 DEF Means
<1>6. CASE pc[t] \notin Thinking
  <2>1. Log' = Log
    <3>1. CASE holder = t
      BY <1>1, <1>6, <3>1 DEF Log
    <3>2. CASE holder # t
      BY <1>1, <1>2, <1>4, <3>2 DEF Log
    <3> QED
      BY <3>1, <3>2
  <2>2. CASE HadItsSay(t)
    <3>1. \A u \in Turn : HadItsSay(u)' = HadItsSay(u)
      BY <1>2, <2>2 DEF HadItsSay
    <3> QED
      BY <2>1, <3>1 DEF Means
  <2>3. CASE ~HadItsSay(t)
    <3>1. Shared!Silent
      BY <2>1 DEF Shared!Silent
    <3>2. Shared!TakesTurn(t)
      BY <1>3, <2>3, <3>1 DEF Shared!TakesTurn
    <3> QED
      BY <3>2 DEF Means
  <2> QED
    BY <2>2, <2>3
<1> QED
  BY <1>5, <1>6

LEMMA InitShared == Init => Shared!Init
<1> SUFFICES ASSUME Init PROVE Shared!Init
  OBVIOUS
<1>1. Log = <<>>
  BY DEF Init, Log
<1>2. {t \in Turn : HadItsSay(t)} = {}
  BY DEF Init, HadItsSay
<1> QED
  BY <1>1, <1>2 DEF Shared!Init

LEMMA StepShared ==
  ASSUME IInv, [Next]_vars
  PROVE  [Shared!Next]_<<Log, {t \in Turn : HadItsSay(t)}>>
<1>1. CASE UNCHANGED vars
  BY <1>1 DEF vars, sessionVars, Log, HadItsSay
<1>2. ASSUME NEW t \in Turn, Step(t) \/ Environment(t) PROVE Means(t)
  <2>1. CASE \/ StreamOpens(t) \/ Delta(t) \/ AudioChunk(t)
             \/ \E n \in 0 .. MaxCalls : StreamEnds(t, n)
             \/ CallTool(t) \/ ToolResult(t) \/ EmptyAnswer(t) \/ Fail(t) \/ Report(t)
             \/ CollectorLeaves(t)
    BY <2>1, QuietSteps, QuietMeans
  <2>2. CASE Start(t) \/ LockWs(t) \/ Complete(t)
    BY <2>2, WaitMeans
  <2>3. CASE LockHttp(t) \/ Think(t)
    BY <2>3, AskMeans
  <2>4. CASE Answer(t)
    BY <2>4, AnswerMeans
  <2>5. CASE Close(t) \/ Respond(t) \/ FailHttp(t) \/ Abort(t)
    BY <2>5, ReleaseMeans DEF Close, Respond, FailHttp, Abort, Inside
  <2> QED
    BY <1>2, <2>1, <2>2, <2>3, <2>4, <2>5 DEF Step, Environment
<1>3. ASSUME NEW t \in Turn, Means(t)
      PROVE  [Shared!Next]_<<Log, {u \in Turn : HadItsSay(u)}>>
  <2>1. CASE Shared!TakesTurn(t)
    BY <2>1 DEF Shared!Next
  <2>2. CASE Log' = Log /\ \A u \in Turn : HadItsSay(u)' = HadItsSay(u)
    <3>1. {u \in Turn : HadItsSay(u)}' = {u \in Turn : HadItsSay(u)}
      BY <2>2
    <3> QED
      BY <2>2, <3>1
  <2> QED
    BY <1>3, <2>1, <2>2 DEF Means
<1> QED
  BY <1>1, <1>2, <1>3 DEF Next, Over

(* Turns are atomic to each other: whatever suspends, fails or is aborted,  *)
(* the session is a conversation in which each turn is one step.            *)
THEOREM TurnsAreAtomic == Spec => ImplementsConversation
<1>1. Spec => []IInv
  BY IInvInit, IInvNext, PTL DEF Spec
<1> QED
  BY <1>1, InitShared, StepShared, PTL DEF Spec, ImplementsConversation, Shared!Spec
=============================================================================
