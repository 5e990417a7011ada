-------------------------------- MODULE Turns --------------------------------
(***************************************************************************)
(* The turns of one session: execute_turn and run_text_turn of             *)
(* crates/harness-server/src/orchestrator.rs, run by the turn task of a    *)
(* connection (dispatch_turn in ws.rs) or by an HTTP request               *)
(* (turn_handler in http.rs), and the session they share (state.rs).       *)
(*                                                                         *)
(* A turn is suspended at every await.  An action is what runs from one    *)
(* await to the next: sending a message, or getting an answer, and all     *)
(* that follows it without another await.  Sends take effect when they     *)
(* return: the bound of the channel is Connection's concern.               *)
(*                                                                         *)
(* A message of a conversation is its role and its turn, a tool round its  *)
(* number of calls and each result the number of its call.  Definitions    *)
(* marked (Slip) are plausible mistakes in the code next to them; no       *)
(* behaviour uses them.                                                    *)
(***************************************************************************)
EXTENDS Integers, FiniteSets, Sequences, SequencesExt

CONSTANTS
  WsTurns,          \* turns dispatched by connections
  HttpTurns,        \* turns of HTTP requests
  MaxToolRounds,    \* MAX_TOOL_ROUNDS
  MaxHistoryTurns,  \* session.max_history_turns
  MaxCalls,         \* bound: tool calls of a round
  MaxChunks,        \* bound: audio chunks of a turn
  NoTurn            \* the session is not locked

ASSUME TurnsAssumption ==
  /\ WsTurns \cap HttpTurns = {}
  /\ NoTurn \notin WsTurns \cup HttpTurns
  /\ MaxToolRounds \in Nat \ {0}
  /\ {MaxHistoryTurns, MaxCalls, MaxChunks} \subseteq Nat

VARIABLES
  (* the session *)
  history,    \* Session.history
  holder,     \* the turn that holds the session's write lock
  queue,      \* the turns that wait for it
  (* each turn *)
  pc,         \* the await it is suspended at
  round,      \* the number of the model round
  base,       \* the history as this turn found it, with its own message
  extra,      \* the tool rounds so far
  asked,      \* tool calls of the current round
  called,     \* how many of them were dispatched
  results,    \* the calls that have a result
  spoke,      \* did the current round have text?
  sent,       \* audio chunks sent
  completed,  \* was TurnCompleted sent?
  (* the collector of an HTTP request *)
  collecting, \* is it listening?
  got         \* audio chunks collected, and was the text?

sessionVars == <<history, holder, queue>>
roundVars == <<round, base, extra, asked, called, results, spoke>>
clientVars == <<sent, completed, collecting, got>>
vars == <<sessionVars, pc, roundVars, clientVars>>

Turn == WsTurns \cup HttpTurns

User(t)      == [role |-> "user", turn |-> t]
Assistant(t) == [role |-> "assistant", turn |-> t]
Calls(n)     == [role |-> "calls", n |-> n]
Result(n)    == [role |-> "tool", n |-> n]

Nothing == [chunks |-> 0, text |-> FALSE]

\* The awaits at which a turn holds the session.
Inside == {"locked", "asking", "streaming", "calling", "dispatching", "empty", "answering",
           "completing", "failed", "closing", "responding"}

Init ==
  /\ history = <<>> /\ holder = NoTurn /\ queue = <<>>
  /\ pc = [t \in Turn |-> "idle"]
  /\ round = [t \in Turn |-> 0]
  /\ base = [t \in Turn |-> <<>>]
  /\ extra = [t \in Turn |-> <<>>]
  /\ asked = [t \in Turn |-> 0]
  /\ called = [t \in Turn |-> 0]
  /\ results = [t \in Turn |-> <<>>]
  /\ spoke = [t \in Turn |-> FALSE]
  /\ sent = [t \in Turn |-> 0]
  /\ completed = [t \in Turn |-> FALSE]
  /\ collecting = [t \in Turn |-> FALSE]
  /\ got = [t \in Turn |-> Nothing]

Goto(t, from, to) == pc[t] = from /\ pc' = [pc EXCEPT ![t] = to]

-----------------------------------------------------------------------------
(* The history.                                                            *)
Users(h) == {i \in DOMAIN h : h[i].role = "user"}

\* (Slip: one turn at most is dropped.)
TrimHistoryOnce(h) ==
  IF Cardinality(Users(h)) <= MaxHistoryTurns THEN h
  ELSE LET second == {i \in Users(h) : Cardinality({j \in Users(h) : j < i}) = 1}
       IN  IF second = {} THEN <<>> ELSE SubSeq(h, CHOOSE i \in second : TRUE, Len(h))

\* trim_history: whole turns leave the front until max_turns are left.
TrimHistory(h) ==
  LET excess == Cardinality(Users(h)) - MaxHistoryTurns
      first  == {i \in Users(h) : Cardinality({j \in Users(h) : j < i}) = excess}
  IN  IF excess <= 0 THEN h
      ELSE IF first = {} THEN <<>>
      ELSE SubSeq(h, CHOOSE i \in first : TRUE, Len(h))

\* What begins a turn once it has the session: its message, and the first
\* request.
Open(t) ==
  /\ history' = Append(history, User(t))
  /\ base' = [base EXCEPT ![t] = history']
  /\ round' = [round EXCEPT ![t] = 1]
  /\ UNCHANGED <<extra, asked, called, results, spoke>>

-----------------------------------------------------------------------------
(* The session's lock, granted in the order of the requests.               *)
Start(t) ==
  /\ Goto(t, "idle", "waiting")
  /\ queue' = Append(queue, t)
  /\ UNCHANGED <<history, holder, roundVars, clientVars>>

Lock(t) ==
  /\ holder = NoTurn
  /\ queue # <<>> /\ t = Head(queue)
  /\ queue' = Tail(queue)
  /\ holder' = t

\* (Slip: a turn of a connection does not lock the session.)
LockWsUnlocked(t) ==
  /\ t \in WsTurns
  /\ Goto(t, "waiting", "locked")
  /\ queue' = RemoveFirst(queue, t)
  /\ UNCHANGED <<history, holder, roundVars, clientVars>>

\* A turn task has the lock, and is about to send Thinking.
LockWs(t) ==
  /\ t \in WsTurns
  /\ Goto(t, "waiting", "locked")
  /\ Lock(t)
  /\ UNCHANGED <<history, roundVars, clientVars>>

\* An HTTP request has the lock: it starts its collector and its turn.
LockHttp(t) ==
  /\ t \in HttpTurns
  /\ Goto(t, "waiting", "asking")
  /\ Lock(t)
  /\ Open(t)
  /\ collecting' = [collecting EXCEPT ![t] = TRUE]
  /\ UNCHANGED <<sent, completed, got>>

Think(t) ==
  /\ Goto(t, "locked", "asking")
  /\ Open(t)
  /\ UNCHANGED <<holder, queue, clientVars>>

-----------------------------------------------------------------------------
(* A round of the model: a stream of text and tool calls.                  *)
StreamOpens(t) ==
  /\ Goto(t, "asking", "streaming")
  /\ spoke' = [spoke EXCEPT ![t] = FALSE]
  /\ UNCHANGED <<sessionVars, round, base, extra, asked, called, results, clientVars>>

Delta(t) ==
  /\ pc[t] = "streaming"
  /\ spoke' = [spoke EXCEPT ![t] = TRUE]
  /\ UNCHANGED <<sessionVars, pc, round, base, extra, asked, called, results, clientVars>>

\* synthesize_chunk: a sentence of the text was synthesised.
AudioChunk(t) ==
  /\ pc[t] = "streaming" /\ spoke[t]
  /\ sent[t] < MaxChunks
  /\ sent' = [sent EXCEPT ![t] = @ + 1]
  /\ got' = IF collecting[t] THEN [got EXCEPT ![t].chunks = @ + 1] ELSE got
  /\ UNCHANGED <<sessionVars, pc, roundVars, completed, collecting>>

\* (Slip: the last round is not the last.)
StreamEndsUncapped(t, n) ==
  /\ pc[t] = "streaming"
  /\ IF n = 0
       THEN /\ pc' = [pc EXCEPT ![t] = IF spoke[t] THEN "answering" ELSE "empty"]
            /\ UNCHANGED <<asked, called, results>>
       ELSE /\ pc' = [pc EXCEPT ![t] = "calling"]
            /\ asked' = [asked EXCEPT ![t] = n]
            /\ called' = [called EXCEPT ![t] = 0]
            /\ results' = [results EXCEPT ![t] = <<>>]
  /\ UNCHANGED <<sessionVars, round, base, extra, spoke, clientVars>>

\* The stream ends with n tool calls.  Those of the last round are ignored.
StreamEnds(t, n) ==
  /\ pc[t] = "streaming"
  /\ IF n = 0 \/ round[t] = MaxToolRounds
       THEN /\ pc' = [pc EXCEPT ![t] = IF spoke[t] THEN "answering" ELSE "empty"]
            /\ UNCHANGED <<asked, called, results>>
       ELSE /\ pc' = [pc EXCEPT ![t] = "calling"]
            /\ asked' = [asked EXCEPT ![t] = n]
            /\ called' = [called EXCEPT ![t] = 0]
            /\ results' = [results EXCEPT ![t] = <<>>]
  /\ UNCHANGED <<sessionVars, round, base, extra, spoke, clientVars>>

\* The next tool call is announced and dispatched.
CallTool(t) ==
  /\ Goto(t, "calling", "dispatching")
  /\ called' = [called EXCEPT ![t] = @ + 1]
  /\ UNCHANGED <<sessionVars, round, base, extra, asked, results, spoke, clientVars>>

\* append_tool_round, and the request of the next round.
AppendToolRound(t, done) ==
  /\ extra' = [extra EXCEPT ![t] = @ \o <<Calls(asked[t])>>
                                     \o [i \in DOMAIN done |-> Result(done[i])]]
  /\ round' = [round EXCEPT ![t] = @ + 1]

\* The call returned, with a value or an error: both are results.
ToolResultWith(t, done) ==
  /\ pc[t] = "dispatching"
  /\ results' = [results EXCEPT ![t] = done]
  /\ IF called[t] = asked[t]
       THEN /\ pc' = [pc EXCEPT ![t] = "asking"]
            /\ AppendToolRound(t, done)
       ELSE /\ pc' = [pc EXCEPT ![t] = "calling"]
            /\ UNCHANGED <<extra, round>>
  /\ UNCHANGED <<sessionVars, base, asked, called, spoke, clientVars>>

\* (Slip: a call that failed is left out.)
ToolResultIfOk(t) ==
  \E ok \in BOOLEAN :
    ToolResultWith(t, IF ok THEN Append(results[t], called[t]) ELSE results[t])

ToolResult(t) == ToolResultWith(t, Append(results[t], called[t]))

-----------------------------------------------------------------------------
(* The end of a turn.                                                      *)
\* A turn without text is reported as an upstream error, and goes on.
EmptyAnswer(t) ==
  /\ Goto(t, "empty", "answering")
  /\ UNCHANGED <<sessionVars, roundVars, clientVars>>

\* (Slip: an empty answer is not remembered.)
AnswerIfSpoken(t) ==
  /\ Goto(t, "answering", "completing")
  /\ history' = IF spoke[t] THEN TrimHistory(Append(history, Assistant(t))) ELSE history
  /\ got' = IF collecting[t] THEN [got EXCEPT ![t].text = TRUE] ELSE got
  /\ UNCHANGED <<holder, queue, roundVars, sent, completed, collecting>>

\* ResponseText is sent and the history updated.
Answer(t) ==
  /\ Goto(t, "answering", "completing")
  /\ history' = TrimHistory(Append(history, Assistant(t)))
  /\ got' = IF collecting[t] THEN [got EXCEPT ![t].text = TRUE] ELSE got
  /\ UNCHANGED <<holder, queue, roundVars, sent, completed, collecting>>

\* TurnCompleted is sent.
Complete(t) ==
  /\ Goto(t, "completing", IF t \in WsTurns THEN "closing" ELSE "responding")
  /\ completed' = [completed EXCEPT ![t] = TRUE]
  /\ UNCHANGED <<sessionVars, roundVars, sent, collecting, got>>

\* A request or a synthesis fails: run_text_turn returns the error.
Fail(t) ==
  /\ t \in WsTurns
  /\ pc[t] \in {"asking", "streaming"}
  /\ pc' = [pc EXCEPT ![t] = "failed"]
  /\ UNCHANGED <<sessionVars, roundVars, clientVars>>

\* The turn task reports the error, and goes on like after an answer.
Report(t) ==
  /\ Goto(t, "failed", "closing")
  /\ UNCHANGED <<sessionVars, roundVars, clientVars>>

\* What a turn kept for itself is dropped with it.
Forget(t) ==
  /\ round' = [round EXCEPT ![t] = 0]
  /\ base' = [base EXCEPT ![t] = <<>>]
  /\ extra' = [extra EXCEPT ![t] = <<>>]
  /\ asked' = [asked EXCEPT ![t] = 0]
  /\ called' = [called EXCEPT ![t] = 0]
  /\ results' = [results EXCEPT ![t] = <<>>]
  /\ spoke' = [spoke EXCEPT ![t] = FALSE]
  /\ sent' = [sent EXCEPT ![t] = 0]
  /\ collecting' = [collecting EXCEPT ![t] = FALSE]
  /\ got' = [got EXCEPT ![t] = Nothing]

\* (Slip: the waiting request outlives its turn.)
ReleaseOnly(t) ==
  /\ pc' = [pc EXCEPT ![t] = "finished"]
  /\ holder' = IF holder = t THEN NoTurn ELSE holder
  /\ Forget(t)
  /\ UNCHANGED <<queue, history, completed>>

\* The turn is over and its guard of the session dropped.
Release(t) ==
  /\ pc' = [pc EXCEPT ![t] = "finished"]
  /\ holder' = IF holder = t THEN NoTurn ELSE holder
  /\ queue' = RemoveFirst(queue, t)
  /\ Forget(t)
  /\ UNCHANGED <<history, completed>>

\* Speaking and Listening are sent: the turn task ends.
Close(t) == pc[t] = "closing" /\ Release(t)

\* The collector heard the channel close: the handler answers.
Respond(t) == pc[t] = "responding" /\ Release(t)

\* The error of an HTTP turn is the answer; its collector is left alone.
FailHttp(t) ==
  /\ t \in HttpTurns
  /\ pc[t] \in {"asking", "streaming"}
  /\ Release(t)

\* The connection aborts its task, or the HTTP client hangs up.
Abort(t) == pc[t] \in Inside \cup {"waiting"} /\ Release(t)

\* The collector waited too long for a message.
CollectorLeaves(t) ==
  /\ collecting[t]
  /\ pc[t] \in {"asking", "streaming", "dispatching"}
  /\ collecting' = [collecting EXCEPT ![t] = FALSE]
  /\ UNCHANGED <<sessionVars, pc, roundVars, sent, completed, got>>

-----------------------------------------------------------------------------
Step(t) ==
  \/ LockWs(t) \/ LockHttp(t) \/ Think(t)
  \/ StreamOpens(t) \/ Delta(t) \/ AudioChunk(t) \/ \E n \in 0 .. MaxCalls : StreamEnds(t, n)
  \/ CallTool(t) \/ ToolResult(t)
  \/ EmptyAnswer(t) \/ Answer(t) \/ Complete(t)
  \/ Fail(t) \/ Report(t) \/ Close(t) \/ Respond(t) \/ FailHttp(t)

Environment(t) == Start(t) \/ Abort(t) \/ CollectorLeaves(t)

\* Every turn is over.
Over == (\A t \in Turn : pc[t] = "finished") /\ UNCHANGED vars

Next == (\E t \in Turn : Step(t) \/ Environment(t)) \/ Over

Spec == Init /\ [][Next]_vars

(* What the code itself sees to.  The lock is granted in order.  The turn of *)
(* an HTTP request sends to a collector that reads, or has left, and its    *)
(* tools have timeouts.  A turn of a connection sends to the connection's   *)
(* client, and nothing limits a send; nor is a turn's model round limited:  *)
(* the model may be silent, or send for ever, and the chunker may spin.     *)
Progress(t) ==
  /\ pc[t] = "waiting" \/ (t \in HttpTurns /\ pc[t] \notin {"asking", "streaming"})
  /\ Step(t)

FairSpec == Spec /\ \A t \in Turn : WF_vars(Progress(t))

-----------------------------------------------------------------------------
TypeOK ==
  /\ history \in Seq([role : {"user", "assistant"}, turn : Turn])
  /\ holder \in Turn \cup {NoTurn}
  /\ queue \in Seq(Turn)
  /\ pc \in [Turn -> Inside \cup {"idle", "waiting", "finished"}]
  /\ round \in [Turn -> 0 .. MaxToolRounds]
  /\ base \in [Turn -> Seq([role : {"user", "assistant"}, turn : Turn])]
  /\ extra \in [Turn -> Seq([role : {"calls", "tool"}, n : Nat])]
  /\ asked \in [Turn -> Nat] /\ called \in [Turn -> Nat] /\ results \in [Turn -> Seq(Nat)]
  /\ spoke \in [Turn -> BOOLEAN]
  /\ sent \in [Turn -> Nat] /\ completed \in [Turn -> BOOLEAN]
  /\ collecting \in [Turn -> BOOLEAN]
  /\ got \in [Turn -> [chunks : Nat, text : BOOLEAN]]

(* Nothing of a turn that is over holds the others up: the lock is held by  *)
(* a turn at an await inside it, and the requests in its queue are those of *)
(* the waiting turns, one each.                                             *)
LockOfTheLiving ==
  /\ \A t \in Turn : pc[t] \in Inside <=> holder = t
  /\ \A t \in Turn : pc[t] = "waiting" <=> \E i \in DOMAIN queue : queue[i] = t
  /\ \A i, j \in DOMAIN queue : queue[i] = queue[j] => i = j

(* The history is a conversation although turns share it: an answer comes   *)
(* right behind its question, and a question without one is the running     *)
(* turn's or that of a turn that failed or was aborted.                     *)
AnswersFollow ==
  \A i \in DOMAIN history :
    LET t == history[i].turn IN
    /\ history[i].role = "assistant" => i > 1 /\ history[i - 1] = User(t)
    /\ history[i].role = "user" =>
         \/ i < Len(history) /\ history[i + 1] = Assistant(t)
         \/ i = Len(history) /\ holder = t
         \/ pc[t] = "finished" /\ ~completed[t]

(* Every request to the model ends with this turn's question and its tool   *)
(* rounds so far, each call followed by its result, a failed call too; and  *)
(* it is about the conversation as it is, no other turn having spoken since *)
(* this one began.                                                          *)
Answered(messages, i) ==
  \A n \in 1 .. messages[i].n : i + n \in DOMAIN messages /\ messages[i + n] = Result(n)

RequestsAreWhole ==
  \A t \in Turn : pc[t] = "asking" =>
    /\ base[t] = history
    /\ Last(base[t]) = User(t)
    /\ \A i \in DOMAIN extra[t] : extra[t][i].role = "calls" => Answered(extra[t], i)
    /\ Cardinality({i \in DOMAIN extra[t] : extra[t][i].role = "calls"}) = round[t] - 1

(* The history is bounded whatever fails: up to its last answer there are   *)
(* at most max_history_turns questions.                                     *)
HistoryBounded ==
  \A i \in DOMAIN history :
    history[i].role = "assistant" =>
      Cardinality({j \in Users(history) : j < i}) <= MaxHistoryTurns

(* A turn that was reported complete is part of the conversation, with its  *)
(* answer, until max_history_turns others have taken its place.             *)
CompletedIsRemembered ==
  \A t \in Turn : completed[t] =>
    \/ {User(t), Assistant(t)} \subseteq ToSet(history)
    \/ Cardinality({i \in Users(history) : history[i].turn # t}) >= MaxHistoryTurns

(* To each other, turns are atomic, although a turn suspends dozens of times *)
(* and may fail or be aborted at each: the session implements Conversation.  *)
(* The question of the turn that thinks is not part of the conversation yet, *)
(* and a turn has had its say when it is past its answer or has failed.      *)
Thinking == {"asking", "streaming", "calling", "dispatching", "empty", "answering"}

Log == IF holder # NoTurn /\ pc[holder] \in Thinking THEN Front(history) ELSE history

HadItsSay(t) == pc[t] \in {"completing", "failed", "closing", "responding", "finished"}

Shared == INSTANCE Conversation WITH log <- Log, over <- {t \in Turn : HadItsSay(t)}

ImplementsConversation == Shared!Spec

(* The answer of an HTTP turn is the whole turn ("the orchestrator's        *)
(* ServerMsg stream is collected into a single response object ... with all *)
(* audio chunks assembled").                                                *)
CollectsWholeTurn ==
  \A t \in HttpTurns :
    pc[t] = "responding" => got[t] = [chunks |-> sent[t], text |-> TRUE]

(* A turn that waits for the session gets it and ends, however the turns    *)
(* before it fail or are aborted and whoever waits with it; provided no     *)
(* other turn keeps the session for ever.  Two things can make one do so:   *)
(* a model round that does not end (no answer, an endless one, or the       *)
(* endless loop of the chunker), and a client that stays connected without  *)
(* reading what the turn of its connection sends.                           *)
RoundsEnd == \A t \in Turn : \A at \in {"asking", "streaming"} : []<>(pc[t] # at)

ClientsRead ==
  \A t \in WsTurns : \A at \in Inside \ {"asking", "streaming"} : []<>(pc[t] # at)

WaitingTurnsEnd ==
  RoundsEnd /\ ClientsRead => \A t \in Turn : pc[t] = "waiting" ~> pc[t] = "finished"
=============================================================================
