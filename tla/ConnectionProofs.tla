-------------------------- MODULE ConnectionProofs --------------------------
(***************************************************************************)
(* What holds of Connection for every value of its constants: both modes,  *)
(* any channel bounds, any number of sessions, texts, links and turns.     *)
(***************************************************************************)
EXTENDS Connection, SequenceTheorems, TLAPS

-----------------------------------------------------------------------------
(* The texts on their way to a turn: in the event channel, in the handler,  *)
(* held.  Flowing(S): all of them are in S.                                 *)
StepOf(S) ==
  {s \in [op : StepName, msg : Message \cup {"none"}, texts : Seq(S), flag : BOOLEAN] :
     s.op = "gate" => s.texts # <<>>}

EventOf(S) == [kind : {"delta", "completed", "cleared", "err"}, text : S \cup {0}, end : BOOLEAN]

Flowing(S) ==
  /\ todo \in Seq(StepOf(S))
  /\ held \in Seq(S)
  /\ events \in Seq(EventOf(S))

(* The programs that handlers leave behind are sequences of steps.          *)
LEMMA StepTypes ==
  ASSUME NEW S
  PROVE  /\ \A m \in Message : Send(m) \in StepOf(S)
         /\ \A name \in StepName \ {"gate"} : Do(name) \in StepOf(S)
         /\ \A b \in BOOLEAN : Forward(b) \in StepOf(S)
         /\ \A x \in S, b \in BOOLEAN : Gate(x, b) \in StepOf(S)
         /\ \A s \in Seq(S) : Dispatch(s) \in StepOf(S)
<1>1. <<>> \in Seq(S)
  BY EmptySeq
<1>2. \A x \in S : <<x>> \in Seq(S) /\ <<x>> # <<>>
  OBVIOUS
<1> QED BY <1>1, <1>2 DEF StepOf, StepName, Message, Send, Do, Forward, Gate, Dispatch

LEMMA RepeatType ==
  ASSUME NEW S, NEW n \in Nat, NEW s \in S
  PROVE  Repeat(n, s) \in Seq(S)
BY IsASeq DEF Repeat

LEMMA WhenType ==
  ASSUME NEW S, NEW c, NEW s \in Seq(S)
  PROVE  When(c, s) \in Seq(S)
BY EmptySeq DEF When

LEMMA InputFlow ==
  ASSUME NEW S, Flowing(S), Input
  PROVE  Flowing(S)'
<1> USE DEF connVars, gateVars, turnVars, linkVars, sendVars
<1>0. \A m \in Message : <<Send(m)>> \in Seq(StepOf(S))
  BY StepTypes
<1>1. CASE Reject
  BY <1>0, <1>1 DEF Reject, Flowing, Message
<1>2. ASSUME NEW hasId \in DeviceIds, SessionStart(hasId) PROVE Flowing(S)'
  BY <1>0, <1>2, EmptySeq DEF SessionStart, DropSession, Flowing, Message
<1>3. ASSUME NEW n \in 0 .. MaxPerChunk, NEW next \in {"idle", "open"}, AudioData(n, next)
      PROVE  Flowing(S)'
  <2> DEFINE a == Repeat(n, Send("listening"))
             b == When(vad = "idle" /\ next = "open", <<Send("speech")>>)
             c == IF Realtime THEN <<Forward(n > 0 \/ "open" \in {vad, next})>>
                              ELSE Repeat(n, Do("transcribe"))
  <2>1. n \in Nat
    BY ConstantsAssumption
  <2>2. /\ Send("listening") \in StepOf(S)
        /\ Do("transcribe") \in StepOf(S)
        /\ Forward(n > 0 \/ "open" \in {vad, next}) \in StepOf(S)
    BY StepTypes DEF Message, StepName
  <2>3. a \in Seq(StepOf(S))
    BY <2>1, <2>2, RepeatType
  <2>4. b \in Seq(StepOf(S))
    <3>1. <<Send("speech")>> \in Seq(StepOf(S))
      BY <1>0 DEF Message
    <3> QED BY <3>1, WhenType
  <2>5. c \in Seq(StepOf(S))
    BY <2>1, <2>2, RepeatType
  <2>6. todo' = (a \o b) \o c /\ UNCHANGED <<held, events>>
    BY <1>3 DEF AudioData
  <2> HIDE DEF a, b, c
  <2> QED BY <2>3, <2>4, <2>5, <2>6, ConcatProperties DEF Flowing
<1>4. ASSUME NEW emitted \in BOOLEAN, SpeechEnd(emitted) PROVE Flowing(S)'
  <2> DEFINE a == When(link, <<Do("commit")>>)
             b == When(emitted, <<Send("listening")>>)
             c == <<Do("flush")>>
  <2>1. /\ Do("commit") \in StepOf(S) /\ Do("flush") \in StepOf(S)
        /\ Send("listening") \in StepOf(S) /\ Do("transcribe") \in StepOf(S)
    BY StepTypes DEF Message, StepName
  <2>2. a \in Seq(StepOf(S))
    <3>1. <<Do("commit")>> \in Seq(StepOf(S))
      BY <2>1
    <3> QED BY <3>1, WhenType
  <2>3. b \in Seq(StepOf(S))
    <3>1. <<Send("listening")>> \in Seq(StepOf(S))
      BY <2>1
    <3> QED BY <3>1, WhenType
  <2>4. c \in Seq(StepOf(S)) /\ <<Send("listening"), Do("transcribe")>> \in Seq(StepOf(S))
    BY <2>1
  <2>5. /\ \/ todo' = (a \o b) \o c
           \/ todo' = <<Send("listening"), Do("transcribe")>>
           \/ todo' = c
        /\ UNCHANGED <<held, events>>
    BY <1>4 DEF SpeechEnd
  <2> HIDE DEF a, b, c
  <2>6. (a \o b) \o c \in Seq(StepOf(S))
    BY <2>2, <2>3, <2>4, ConcatProperties
  <2> QED BY <2>4, <2>5, <2>6 DEF Flowing
<1>5. CASE FlushDeadline
  BY <1>5, EmptySeq DEF FlushDeadline, FlushHeld, Flowing
<1>6. CASE UpstreamEvent
  <2> DEFINE ev == Head(events)
             a == <<Send("transcript")>>
             b == When(ev.text # 0, <<Gate(ev.text, ev.end)>>)
  <2>1. ev \in EventOf(S) /\ Tail(events) \in Seq(EventOf(S))
    BY <1>6, HeadTailProperties DEF UpstreamEvent, Flowing
  <2>2. a \in Seq(StepOf(S)) /\ <<Send("error")>> \in Seq(StepOf(S))
    BY <1>0 DEF Message
  <2>3. b \in Seq(StepOf(S))
    <3>1. CASE ev.text # 0
      <4>1. Gate(ev.text, ev.end) \in StepOf(S)
        BY <2>1, <3>1, StepTypes DEF EventOf
      <4>2. <<Gate(ev.text, ev.end)>> \in Seq(StepOf(S))
        BY <4>1
      <4> QED BY <4>2, WhenType
    <3>2. CASE ~(ev.text # 0)
      BY <3>2, EmptySeq DEF When
    <3> QED BY <3>1, <3>2
  <2>4. /\ todo' \in {a, a \o b, todo, <<Send("error")>>}
        /\ events' \in {Tail(events), <<>>}
        /\ held' = held
    BY <1>6 DEF UpstreamEvent, TeardownUpstream
  <2> HIDE DEF a, b
  <2>5. a \o b \in Seq(StepOf(S))
    BY <2>2, <2>3, ConcatProperties
  <2> QED BY <2>1, <2>2, <2>4, <2>5, EmptySeq DEF Flowing
<1>7. CASE Leave
  BY <1>7, EmptySeq DEF Leave, EndLoop, DropSession, Flowing
<1> QED BY <1>1, <1>2, <1>3, <1>4, <1>5, <1>6, <1>7 DEF Input

(* A handler's next step: its fields, and what it leaves.                   *)
LEMMA HandlerHead ==
  ASSUME NEW S, Flowing(S), Handler
  PROVE  /\ Head(todo).texts \in Seq(S) /\ Head(todo).flag \in BOOLEAN
         /\ Head(todo).op = "gate" => Head(todo).texts # <<>>
         /\ Tail(todo) \in Seq(StepOf(S))
<1>1. todo # <<>>
  BY DEF Handler, HandlerSend, Transcribe, GateTranscript, HandlerDispatch, HandlerFlush,
         ForwardAudio, CommitAudio, Handling
<1>2. Head(todo) \in StepOf(S) /\ Tail(todo) \in Seq(StepOf(S))
  BY <1>1, HeadTailProperties DEF Flowing
<1> QED BY <1>2 DEF StepOf

LEMMA HandlerFlow ==
  ASSUME NEW S, Flowing(S), Handler, texts \in Nat, texts' # texts => texts + 1 \in S
  PROVE  Flowing(S)'
<1> USE DEF connVars, gateVars, turnVars, linkVars, sendVars
<1>0. \A m \in Message : <<Send(m)>> \in Seq(StepOf(S))
  BY StepTypes
<1>1. CASE HandlerSend \/ HandlerDispatch \/ CommitAudio
  BY <1>1, HandlerHead DEF HandlerSend, HandlerDispatch, CommitAudio, Flowing
<1>2. CASE Transcribe
  <2>1. ASSUME NEW answer \in {"error", "transcript"}, todo' = <<Send(answer)>> \o Tail(todo)
        PROVE  todo' \in Seq(StepOf(S))
    <3>1. <<Send(answer)>> \in Seq(StepOf(S))
      BY <1>0 DEF Message
    <3> QED BY <2>1, <3>1, HandlerHead, ConcatProperties
  <2>2. ASSUME NEW end \in BOOLEAN, texts + 1 \in S,
               todo' = <<Send("transcript"), Gate(texts + 1, end)>> \o Tail(todo)
        PROVE  todo' \in Seq(StepOf(S))
    <3>1. Send("transcript") \in StepOf(S) /\ Gate(texts + 1, end) \in StepOf(S)
      BY <2>2, StepTypes DEF Message
    <3>2. <<Send("transcript"), Gate(texts + 1, end)>> \in Seq(StepOf(S))
      BY <3>1
    <3> QED BY <2>2, <3>2, HandlerHead, ConcatProperties
  <2>3. texts + 1 # texts
    OBVIOUS
  <2>4. texts' # texts \/ \E answer \in {"error", "transcript"} : todo' = <<Send(answer)>> \o Tail(todo)
    BY <1>2, <2>3 DEF Transcribe
  <2> QED BY <1>2, <2>1, <2>2, <2>4 DEF Transcribe, Flowing
<1>3. CASE GateTranscript
  <2> DEFINE all == held \o Head(todo).texts
             a == When(held # <<>>, <<Send("transcript")>>)
             b == <<Dispatch(all)>>
  <2>1. all \in Seq(S)
    BY HandlerHead, ConcatProperties DEF Flowing
  <2>2. a \in Seq(StepOf(S))
    <3>1. <<Send("transcript")>> \in Seq(StepOf(S))
      BY <1>0 DEF Message
    <3> QED BY <3>1, WhenType
  <2>3. b \in Seq(StepOf(S))
    <3> HIDE DEF all
    <3>1. Dispatch(all) \in StepOf(S)
      BY <2>1, StepTypes
    <3> QED BY <3>1
  <2>4. (a \o b) \o Tail(todo) \in Seq(StepOf(S))
    <3> HIDE DEF a, b
    <3> QED BY <2>2, <2>3, HandlerHead, ConcatProperties
  <2>5. /\ \/ held' = <<>> /\ todo' = (a \o b) \o Tail(todo)
           \/ held' = all /\ todo' = Tail(todo)
        /\ events' = events
    BY <1>3 DEF GateTranscript
  <2> HIDE DEF a, b, all
  <2> QED BY <2>1, <2>4, <2>5, HandlerHead, EmptySeq DEF Flowing
<1>4. CASE HandlerFlush
  BY <1>4, HandlerHead, EmptySeq DEF HandlerFlush, FlushHeld, Flowing
<1>5. CASE ForwardAudio
  <2>1. <<Send("error")>> \o Tail(todo) \in Seq(StepOf(S))
    <3>1. <<Send("error")>> \in Seq(StepOf(S))
      BY <1>0 DEF Message
    <3> QED BY <3>1, HandlerHead, ConcatProperties
  <2>2. /\ todo' \in {Tail(todo), <<Send("error")>> \o Tail(todo)}
        /\ events' \in {events, <<>>}
        /\ held' = held
    BY <1>5 DEF ForwardAudio
  <2> QED BY <2>1, <2>2, HandlerHead, EmptySeq DEF Flowing
<1> QED BY <1>1, <1>2, <1>3, <1>4, <1>5 DEF Handler

LEMMA UpstreamFlow ==
  ASSUME NEW S, Flowing(S), Upstream, texts \in Nat, texts' # texts => texts + 1 \in S
  PROVE  Flowing(S)'
<1> USE DEF connVars, gateVars, turnVars, linkVars, sendVars
<1>1. \E ev \in EventOf(S) : events' = Append(events, ev)
  <2>1. \A kind \in {"delta", "completed", "cleared", "err"}, x \in S \cup {0}, b \in BOOLEAN :
          [kind |-> kind, text |-> x, end |-> b] \in EventOf(S)
    BY DEF EventOf
  <2>2. CASE UpstreamSpeaks /\ texts' = texts + 1
    <3>1. PICK kind \in {"delta", "completed", "cleared"}, x \in {0, texts + 1}, b \in BOOLEAN :
            events' = Append(events, [kind |-> kind, text |-> x, end |-> b])
      BY <2>2 DEF UpstreamSpeaks
    <3>2. texts' # texts
      BY <2>2
    <3>3. x \in S \cup {0}
      BY <3>1, <3>2
    <3> QED BY <2>1, <3>1, <3>3
  <2>3. CASE ~(UpstreamSpeaks /\ texts' = texts + 1)
    <3>1. PICK kind \in {"delta", "completed", "cleared", "err"} :
            events' = Append(events, [kind |-> kind, text |-> 0, end |-> FALSE])
      BY <2>3 DEF Upstream, UpstreamSpeaks, PumpDies
    <3> QED BY <2>1, <3>1
  <2> QED BY <2>2, <2>3
<1>2. events' \in Seq(EventOf(S))
  BY <1>1, AppendProperties DEF Flowing
<1>3. UNCHANGED <<todo, held>>
  BY DEF Upstream, UpstreamSpeaks, PumpDies, PumpStep
<1> QED BY <1>2, <1>3 DEF Flowing

(* Only a newly recognised text enters the flow.                            *)
LEMMA FlowNext ==
  ASSUME NEW S, Flowing(S), [Next]_vars, texts \in Nat, texts' # texts => texts + 1 \in S
  PROVE  Flowing(S)'
<1> USE DEF connVars, gateVars, turnVars, linkVars, sendVars, vars
<1>1. CASE Turns \/ Writer \/ Closed \/ Over \/ UNCHANGED vars
  BY <1>1 DEF Turns, Turn, TurnLock, TurnSend, TurnStops, TurnStep, Writer, Write, WriteFails,
              WriterEnds, WriterStep, Closed, Over, Flowing
<1> QED BY <1>1, InputFlow, HandlerFlow, UpstreamFlow DEF Next

LEMMA ToSetType ==
  ASSUME NEW S, NEW s \in Seq(S)
  PROVE  ToSet(s) \subseteq S
BY LenProperties, ElementOfSeq DEF ToSet

LEMMA TextsOfType ==
  ASSUME NEW evs \in Seq(Event)
  PROVE  TextsOf(evs) \subseteq Nat
<1>1. \A i \in DOMAIN evs : evs[i] \in Event
  BY LenProperties, ElementOfSeq
<1> QED BY <1>1 DEF TextsOf, Event

LEMMA EnqueueType ==
  ASSUME TypeOK, Enqueue
  PROVE  queued' \in 0 .. WriteBound /\ writer' \in {"up", "gone", "done"}
BY ConstantsAssumption DEF TypeOK, Enqueue, CanSend

LEMMA DispatchType ==
  ASSUME TypeOK, NEW all \in Seq(Nat), DispatchTurn(all)
  PROVE  /\ tasks' \in Seq(Task) /\ turn' \in 0 .. Len(tasks')
         /\ refused' \subseteq Nat
<1>1. CASE TurnInFlight
  BY <1>1, ToSetType DEF TypeOK, DispatchTurn
<1>2. CASE ~TurnInFlight
  <2> DEFINE task == [pc |-> "lock", texts |-> all, session |-> sessionId, aborted |-> FALSE]
  <2>1. task \in Task
    BY DEF TypeOK, Task, Phase
  <2>2. tasks' = Append(tasks, task) /\ turn' = Len(tasks) + 1 /\ refused' = refused
    BY <1>2 DEF DispatchTurn
  <2> HIDE DEF task
  <2> QED BY <2>1, <2>2, AppendProperties, LenProperties DEF TypeOK
<1> QED BY <1>1, <1>2

LEMMA AbortType ==
  ASSUME TypeOK, AbortTurn
  PROVE  /\ tasks' \in Seq(Task) /\ turn' \in 0 .. Len(tasks')
         /\ refused' \subseteq Nat
<1>1. CASE TurnInFlight
  <2>1. turn \in 1 .. Len(tasks)
    BY <1>1, LenProperties DEF TypeOK, TurnInFlight
  <2>0. tasks[turn] \in Task
    BY <2>1, ElementOfSeq DEF TypeOK
  <2>2. [tasks[turn] EXCEPT !.aborted = TRUE] \in Task
    BY <2>0 DEF Task
  <2>3. tasks' = [tasks EXCEPT ![turn] = [tasks[turn] EXCEPT !.aborted = TRUE]]
    BY <1>1 DEF AbortTurn
  <2> QED BY <2>1, <2>2, <2>3, ExceptSeq DEF TypeOK, AbortTurn
<1>2. CASE ~TurnInFlight
  BY <1>2, LenProperties DEF AbortTurn, TypeOK
<1> QED BY <1>1, <1>2

LEMMA GotoType ==
  ASSUME TypeOK, NEW t \in DOMAIN tasks, NEW phase \in Phase, Goto(t, phase)
  PROVE  tasks' \in Seq(Task) /\ Len(tasks') = Len(tasks)
<1>1. t \in 1 .. Len(tasks)
  BY LenProperties DEF TypeOK
<1>0. tasks[t] \in Task
  BY <1>1, ElementOfSeq DEF TypeOK
<1>2. [tasks[t] EXCEPT !.pc = phase] \in Task
  BY <1>0 DEF Task
<1>3. tasks' = [tasks EXCEPT ![t] = [tasks[t] EXCEPT !.pc = phase]]
  BY DEF Goto
<1> QED BY <1>1, <1>2, <1>3, ExceptSeq DEF TypeOK

-----------------------------------------------------------------------------
(* Type correctness, one lemma per group of actions.  The flags are kept    *)
(* apart from the rest, which lets each prover do what it is good at.       *)
FlagsOK ==
  /\ armed \in BOOLEAN /\ link \in BOOLEAN /\ ending \in BOOLEAN /\ unheard \in BOOLEAN

DataOK ==
  /\ loop \in {"running", "closing", "closed"}
  /\ vad \in {"none", "idle", "open"}
  /\ sessionId \in Nat
  /\ tasks \in Seq(Task) /\ turn \in 0 .. Len(tasks)
  /\ partial \in 0 .. links
  /\ pump \in {"none", "live", "dead"}
  /\ queued \in 0 .. WriteBound /\ writer \in {"up", "gone", "done"}
  /\ texts \in Nat /\ starts \in Nat /\ links \in Nat /\ floor \in 0 .. texts
  /\ refused \subseteq Nat /\ discarded \subseteq Nat

LEMMA FlowingNat == Flowing(Nat) <=> todo \in Seq(Step) /\ held \in Seq(Nat) /\ events \in Seq(Event)
<1>1. StepOf(Nat) = Step
  BY DEF StepOf, Step
<1>2. EventOf(Nat) = Event
  <2>1. Nat \cup {0} = Nat
    OBVIOUS
  <2> QED BY <2>1 DEF EventOf, Event
<1> QED BY <1>1, <1>2 DEF Flowing

LEMMA TypeParts ==
  /\ TypeOK <=> FlagsOK /\ DataOK /\ Flowing(Nat)
  /\ TypeOK' <=> FlagsOK' /\ DataOK' /\ Flowing(Nat)'
<1>1. TypeOK <=> FlagsOK /\ DataOK /\ todo \in Seq(Step) /\ held \in Seq(Nat) /\ events \in Seq(Event)
  BY Zenon DEF TypeOK, FlagsOK, DataOK
<1> QED BY <1>1, FlowingNat, PTL

LEMMA TypeInit == Init => TypeOK
<1> SUFFICES ASSUME Init PROVE TypeOK
  OBVIOUS
<1>1. FlagsOK
  BY DEF Init, FlagsOK
<1>2. DataOK
  BY ConstantsAssumption, EmptySeq DEF Init, DataOK
<1>3. Flowing(Nat)
  BY EmptySeq DEF Init, Flowing
<1> QED BY <1>1, <1>2, <1>3, TypeParts

LEMMA DropSessionFlags ==
  ASSUME DropSession
  PROVE  armed' \in BOOLEAN /\ link' \in BOOLEAN /\ unheard' \in BOOLEAN
BY DEF DropSession

LEMMA DropSessionData ==
  ASSUME TypeOK, DropSession
  PROVE  /\ tasks' \in Seq(Task) /\ turn' \in 0 .. Len(tasks')
         /\ refused' \subseteq Nat
         /\ discarded' \subseteq Nat
         /\ links' = links /\ partial' = 0
         /\ pump' = "none"
<1>1. /\ tasks' \in Seq(Task) /\ turn' \in 0 .. Len(tasks')
      /\ refused' \subseteq Nat
  BY AbortType DEF DropSession
<1>2. discarded' \subseteq Nat
  BY ToSetType, TextsOfType DEF DropSession, TypeOK
<1> QED BY <1>1, <1>2 DEF DropSession

LEMMA FlushHeldType ==
  ASSUME TypeOK, FlushHeld
  PROVE  /\ armed' = FALSE
         /\ tasks' \in Seq(Task) /\ turn' \in 0 .. Len(tasks')
         /\ refused' \subseteq Nat
<1>1. CASE held = <<>>
  BY <1>1 DEF FlushHeld, TypeOK, turnVars
<1>2. CASE held # <<>>
  <2>1. held \in Seq(Nat) /\ DispatchTurn(held)
    BY <1>2 DEF FlushHeld, TypeOK
  <2> QED BY <2>1, DispatchType DEF FlushHeld
<1> QED BY <1>1, <1>2

LEMMA InputType ==
  ASSUME TypeOK, Input
  PROVE  FlagsOK' /\ DataOK'
<1> USE DEF connVars, gateVars, turnVars, linkVars, sendVars
<1>0. FlagsOK /\ DataOK /\ Flowing(Nat)
  BY TypeParts
<1>1. CASE Reject
  BY <1>0, <1>1 DEF Reject, FlagsOK, DataOK
<1>2. ASSUME NEW hasId \in DeviceIds, SessionStart(hasId) PROVE FlagsOK' /\ DataOK'
  <2>1. FlagsOK'
    BY <1>2, DropSessionFlags DEF SessionStart, FlagsOK
  <2>2. DataOK'
    BY <1>0, <1>2, DropSessionData DEF SessionStart, DataOK
  <2> QED BY <2>1, <2>2
<1>3. ASSUME NEW n \in 0 .. MaxPerChunk, NEW next \in {"idle", "open"}, AudioData(n, next)
      PROVE  FlagsOK' /\ DataOK'
  BY <1>0, <1>3 DEF AudioData, FlagsOK, DataOK
<1>4. ASSUME NEW emitted \in BOOLEAN, SpeechEnd(emitted) PROVE FlagsOK' /\ DataOK'
  BY <1>0, <1>4 DEF SpeechEnd, FlagsOK, DataOK
<1>5. CASE FlushDeadline
  <2>1. FlagsOK'
    BY <1>0, <1>5, FlushHeldType DEF FlushDeadline, FlagsOK
  <2>2. DataOK'
    BY <1>0, <1>5, FlushHeldType DEF FlushDeadline, DataOK
  <2> QED BY <2>1, <2>2
<1>6. CASE UpstreamEvent
  <2>1. FlagsOK'
    BY <1>0, <1>6 DEF UpstreamEvent, TeardownUpstream, FlagsOK
  <2>2. UNCHANGED <<connVars, turnVars, sendVars, texts, links>>
    BY <1>6 DEF UpstreamEvent, TeardownUpstream
  <2>3. partial' \in {0, links, partial} /\ pump' \in {"none", pump}
    BY <1>6 DEF UpstreamEvent, TeardownUpstream
  <2>4. discarded' \subseteq Nat
    <3>1. TextsOf(events) \subseteq Nat
      BY <1>0, FlowingNat, TextsOfType
    <3> QED BY <1>0, <1>6, <3>1 DEF UpstreamEvent, TeardownUpstream, DataOK
  <2>5. DataOK'
    BY <1>0, <2>2, <2>3, <2>4 DEF DataOK
  <2> QED BY <2>1, <2>5
<1>7. CASE Leave
  <2>1. FlagsOK'
    BY <1>7, DropSessionFlags DEF Leave, EndLoop, FlagsOK
  <2>2. DataOK'
    BY <1>0, <1>7, DropSessionData DEF Leave, EndLoop, DataOK
  <2> QED BY <2>1, <2>2
<1> QED BY <1>1, <1>2, <1>3, <1>4, <1>5, <1>6, <1>7 DEF Input

LEMMA HandlerType ==
  ASSUME TypeOK, Handler
  PROVE  FlagsOK' /\ DataOK'
<1> USE DEF connVars, gateVars, turnVars, linkVars, sendVars
<1>0. FlagsOK /\ DataOK /\ Flowing(Nat)
  BY TypeParts
<1>1. CASE HandlerSend
  <2>1. FlagsOK'
    BY <1>0, <1>1 DEF HandlerSend, FlagsOK
  <2>2. queued' \in 0 .. WriteBound /\ writer' \in {"up", "gone", "done"}
    BY <1>1, EnqueueType DEF HandlerSend
  <2>3. DataOK'
    BY <1>0, <1>1, <2>2 DEF HandlerSend, DataOK
  <2> QED BY <2>1, <2>3
<1>2. CASE Transcribe
  <2>1. FlagsOK'
    BY <1>0, <1>2 DEF Transcribe, FlagsOK
  <2>2. texts' \in Nat /\ texts <= texts'
    BY <1>0, <1>2 DEF Transcribe, DataOK
  <2>3. DataOK'
    BY <1>0, <1>2, <2>2 DEF Transcribe, DataOK
  <2> QED BY <2>1, <2>3
<1>3. CASE GateTranscript
  BY <1>0, <1>3 DEF GateTranscript, FlagsOK, DataOK
<1>4. CASE HandlerDispatch
  <2>1. FlagsOK'
    BY <1>0, <1>4 DEF HandlerDispatch, FlagsOK
  <2>2. DataOK'
    BY <1>0, <1>4, HandlerHead, DispatchType DEF HandlerDispatch, DataOK
  <2> QED BY <2>1, <2>2
<1>5. CASE HandlerFlush
  <2>1. FlagsOK'
    BY <1>0, <1>5, FlushHeldType DEF HandlerFlush, FlagsOK
  <2>2. DataOK'
    BY <1>0, <1>5, FlushHeldType DEF HandlerFlush, DataOK
  <2> QED BY <2>1, <2>2
<1>6. CASE ForwardAudio
  <2>1. FlagsOK'
    BY <1>0, <1>6, HandlerHead DEF ForwardAudio, FlagsOK
  <2>2. discarded' \subseteq Nat
    <3>1. TextsOf(events) \subseteq Nat
      BY <1>0, FlowingNat, TextsOfType
    <3> QED BY <1>0, <1>6, <3>1 DEF ForwardAudio, DataOK
  <2>3. links' \in Nat /\ links <= links' /\ partial' = partial
    BY <1>0, <1>6 DEF ForwardAudio, DataOK
  <2>4. pump' \in {"none", "live", "dead"}
    BY <1>0, <1>6 DEF ForwardAudio, DataOK
  <2>5. UNCHANGED <<connVars, turnVars, sendVars, texts>>
    BY <1>6 DEF ForwardAudio
  <2>6. DataOK'
    BY <1>0, <2>2, <2>3, <2>4, <2>5 DEF DataOK
  <2> QED BY <2>1, <2>6
<1>7. CASE CommitAudio
  BY <1>0, <1>7 DEF CommitAudio, FlagsOK, DataOK
<1> QED BY <1>1, <1>2, <1>3, <1>4, <1>5, <1>6, <1>7 DEF Handler

LEMMA TaskType ==
  ASSUME TypeOK, NEW t \in DOMAIN tasks, Turn(t)
  PROVE  FlagsOK' /\ DataOK'
<1> USE DEF connVars, gateVars, turnVars, linkVars, sendVars, TurnStep
<1>0. FlagsOK /\ DataOK
  BY TypeParts
<1>1. FlagsOK'
  BY <1>0 DEF Turn, TurnLock, TurnSend, TurnStops, FlagsOK
<1>2. \E phase \in Phase : Goto(t, phase)
  BY DEF Turn, TurnLock, TurnSend, TurnStops, Phase
<1>3. tasks' \in Seq(Task) /\ Len(tasks') = Len(tasks)
  BY <1>2, GotoType
<1>4. queued' \in 0 .. WriteBound /\ writer' \in {"up", "gone", "done"}
  BY <1>0, EnqueueType DEF Turn, TurnLock, TurnSend, TurnStops, DataOK
<1>5. DataOK'
  BY <1>0, <1>3, <1>4 DEF Turn, TurnLock, TurnSend, TurnStops, DataOK
<1> QED BY <1>1, <1>5

LEMMA EnvironmentType ==
  ASSUME TypeOK, Writer \/ Closed \/ Upstream \/ Over \/ UNCHANGED vars
  PROVE  FlagsOK' /\ DataOK'
<1> USE DEF connVars, gateVars, turnVars, linkVars, sendVars, vars
<1>0. FlagsOK /\ DataOK
  BY TypeParts
<1>1. CASE Writer
  <2>1. FlagsOK'
    BY <1>0, <1>1 DEF Writer, Write, WriteFails, WriterEnds, WriterStep, FlagsOK
  <2>2. queued' \in 0 .. WriteBound /\ writer' \in {"up", "gone", "done"}
    BY <1>0, <1>1, ConstantsAssumption DEF Writer, Write, WriteFails, WriterEnds, DataOK
  <2>3. UNCHANGED <<connVars, gateVars, turnVars, linkVars, todo, texts, discarded, ending>>
    BY <1>1 DEF Writer, Write, WriteFails, WriterEnds, WriterStep
  <2>4. DataOK'
    BY <1>0, <2>2, <2>3 DEF DataOK
  <2> QED BY <2>1, <2>4
<1>2. CASE Closed
  BY <1>0, <1>2 DEF Closed, FlagsOK, DataOK
<1>3. CASE Upstream
  <2>1. FlagsOK'
    BY <1>0, <1>3 DEF Upstream, UpstreamSpeaks, PumpDies, PumpStep, FlagsOK
  <2>2. texts' \in Nat /\ texts <= texts'
    BY <1>0, <1>3 DEF Upstream, UpstreamSpeaks, PumpDies, DataOK
  <2>3. /\ pump' \in {pump, "dead"}
        /\ UNCHANGED <<connVars, turnVars, sendVars, partial, links, discarded>>
    BY <1>3 DEF Upstream, UpstreamSpeaks, PumpDies, PumpStep
  <2>4. DataOK'
    BY <1>0, <2>2, <2>3 DEF DataOK
  <2> QED BY <2>1, <2>4
<1>4. CASE Over \/ UNCHANGED vars
  <2>1. FlagsOK'
    BY <1>0, <1>4 DEF Over, FlagsOK
  <2>2. DataOK'
    BY <1>0, <1>4 DEF Over, DataOK
  <2> QED BY <2>1, <2>2
<1> QED BY <1>1, <1>2, <1>3, <1>4

LEMMA TypeNext == TypeOK /\ [Next]_vars => TypeOK'
<1> SUFFICES ASSUME TypeOK, [Next]_vars PROVE TypeOK'
  OBVIOUS
<1>1. FlagsOK' /\ DataOK'
  BY InputType, HandlerType, TaskType, EnvironmentType DEF Next, Turns
<1>2. texts \in Nat /\ (texts + 1 \in Nat) /\ Flowing(Nat)
  BY TypeParts DEF DataOK
<1>3. Flowing(Nat)'
  BY <1>2, FlowNext
<1> QED BY <1>1, <1>3, TypeParts

(* Every variable keeps its type, the write channel its bound, and every    *)
(* gate step a text.                                                        *)
THEOREM TypeCorrect == Spec => []TypeOK
BY TypeInit, TypeNext, PTL DEF Spec

-----------------------------------------------------------------------------
(* A held transcript has a deadline.  The gate keeps this because it is     *)
(* only ever given a text: what it holds is never empty.                    *)
LEMMA HeldNext ==
  ASSUME TypeOK, HeldHasDeadline, [Next]_vars
  PROVE  HeldHasDeadline'
<1> USE DEF connVars, gateVars, turnVars, linkVars, sendVars, vars
<1>1. CASE GateTranscript
  <2>1. Flowing(Nat) /\ Handler
    BY <1>1, TypeParts DEF Handler
  <2>2. Head(todo).op = "gate" /\ held \in Seq(Nat)
    BY <1>1, <2>1 DEF GateTranscript, Handling, Flowing
  <2>3. held \o Head(todo).texts # <<>>
    BY <2>1, <2>2, HandlerHead, ConcatEqualIffEmpty
  <2>4. \/ held' = <<>> /\ armed' = FALSE
        \/ held' = held \o Head(todo).texts /\ armed' = TRUE
    BY <1>1 DEF GateTranscript
  <2> QED BY <2>3, <2>4 DEF HeldHasDeadline
<1>2. CASE FlushHeld \/ DropSession
  BY <1>2 DEF FlushHeld, DropSession, HeldHasDeadline
<1>3. CASE UNCHANGED gateVars
  BY <1>3 DEF HeldHasDeadline
<1>4. GateTranscript \/ FlushHeld \/ DropSession \/ UNCHANGED gateVars
  <2>1. Input => FlushHeld \/ DropSession \/ UNCHANGED gateVars
    BY DEF Input, Reject, SessionStart, AudioData, SpeechEnd, FlushDeadline, UpstreamEvent,
           Leave, EndLoop
  <2>2. Handler => GateTranscript \/ FlushHeld \/ UNCHANGED gateVars
    BY DEF Handler, HandlerSend, Transcribe, HandlerDispatch, HandlerFlush, ForwardAudio,
           CommitAudio
  <2>3. Turns \/ Writer \/ Closed \/ Upstream \/ Over => UNCHANGED gateVars
    BY DEF Turns, Turn, TurnLock, TurnSend, TurnStops, TurnStep, Writer, Write, WriteFails,
           WriterEnds, WriterStep, Closed, Upstream, UpstreamSpeaks, PumpDies, PumpStep, Over
  <2> QED BY <2>1, <2>2, <2>3 DEF Next
<1> QED BY <1>1, <1>2, <1>3, <1>4

(* A held transcript always has a flush deadline, and no deadline outlives  *)
(* what was held.                                                           *)
THEOREM HeldHasDeadlineAlways == Spec => []HeldHasDeadline
<1>1. Init => HeldHasDeadline
  BY DEF Init, HeldHasDeadline
<1> QED BY TypeCorrect, <1>1, HeldNext, PTL DEF Spec

-----------------------------------------------------------------------------
(* One turn at a time.                                                      *)
LEMMA DispatchOneTurn ==
  ASSUME TypeOK, OneTurn, NEW all \in Seq(Nat), DispatchTurn(all)
  PROVE  OneTurn'
<1>1. CASE TurnInFlight
  BY <1>1 DEF DispatchTurn, OneTurn
<1>2. CASE ~TurnInFlight
  <2> DEFINE task == [pc |-> "lock", texts |-> all, session |-> sessionId, aborted |-> FALSE]
  <2>1. task \in Task /\ tasks \in Seq(Task)
    BY DEF TypeOK, Task, Phase
  <2>2. tasks' = Append(tasks, task) /\ turn' = Len(tasks) + 1
    BY <1>2 DEF DispatchTurn
  <2>3. \A t \in DOMAIN tasks : tasks[t].pc = "finished" \/ tasks[t].aborted
    <3>1. 0 \notin DOMAIN tasks
      BY <2>1, LenProperties
    <3> QED BY <1>2, <3>1 DEF OneTurn, TurnInFlight
  <2>4. /\ DOMAIN tasks' = 1 .. Len(tasks) + 1
        /\ \A t \in 1 .. Len(tasks) : tasks'[t] = tasks[t]
    <3> HIDE DEF task
    <3> QED BY <2>1, <2>2, AppendProperties, LenProperties
  <2>5. DOMAIN tasks = 1 .. Len(tasks) /\ Len(tasks) \in Nat
    BY <2>1, LenProperties
  <2> QED BY <2>2, <2>3, <2>4, <2>5 DEF OneTurn
<1> QED BY <1>1, <1>2

(* The abort reaches the one turn that may run.                             *)
LEMMA AbortNone ==
  ASSUME TypeOK, OneTurn, AbortTurn
  PROVE  /\ DOMAIN tasks' = DOMAIN tasks
         /\ \A t \in DOMAIN tasks' : tasks'[t].pc = "finished" \/ tasks'[t].aborted
<1>0. tasks \in Seq(Task) /\ DOMAIN tasks = 1 .. Len(tasks) /\ turn \in 0 .. Len(tasks)
  BY LenProperties DEF TypeOK
<1>1. CASE TurnInFlight
  <2>1. turn \in DOMAIN tasks
    BY <1>0, <1>1, LenProperties DEF TurnInFlight
  <2>2. tasks' = [tasks EXCEPT ![turn].aborted = TRUE]
    BY <1>1 DEF AbortTurn
  <2>3. /\ DOMAIN tasks' = DOMAIN tasks
        /\ tasks'[turn] = [tasks[turn] EXCEPT !.aborted = TRUE]
        /\ \A t \in DOMAIN tasks : t # turn => tasks'[t] = tasks[t]
    BY <2>1, <2>2
  <2>4. tasks[turn] \in Task
    BY <1>0, <2>1, ElementOfSeq
  <2>5. tasks'[turn].aborted
    BY <2>3, <2>4 DEF Task
  <2> QED BY <2>3, <2>5 DEF OneTurn
<1>2. CASE ~TurnInFlight
  BY <1>0, <1>2 DEF AbortTurn, OneTurn, TurnInFlight
<1> QED BY <1>1, <1>2

LEMMA TaskSteps ==
  ASSUME TypeOK, NEW t \in DOMAIN tasks, Turn(t)
  PROVE  /\ DOMAIN tasks' = DOMAIN tasks
         /\ tasks[t].pc # "finished"
         /\ \A u \in DOMAIN tasks : /\ tasks'[u].texts = tasks[u].texts
                                    /\ tasks'[u].session = tasks[u].session
                                    /\ tasks'[u].aborted = tasks[u].aborted
                                    /\ u # t => tasks'[u].pc = tasks[u].pc
<1>0. tasks[t] \in Task
  BY LenProperties, ElementOfSeq DEF TypeOK
<1>1. PICK phase \in Phase : Goto(t, phase)
  BY DEF Turn, TurnLock, TurnSend, TurnStops, Phase
<1>2. tasks[t].pc # "finished"
  BY DEF Turn, TurnLock, TurnSend, TurnStops
<1>3. tasks' = [tasks EXCEPT ![t] = [tasks[t] EXCEPT !.pc = phase]]
  BY <1>1 DEF Goto
<1>4. /\ [tasks[t] EXCEPT !.pc = phase].texts = tasks[t].texts
      /\ [tasks[t] EXCEPT !.pc = phase].session = tasks[t].session
      /\ [tasks[t] EXCEPT !.pc = phase].aborted = tasks[t].aborted
  BY <1>0 DEF Task
<1> QED BY <1>2, <1>3, <1>4

LEMMA OneTurnNext ==
  ASSUME TypeOK, OneTurn, [Next]_vars
  PROVE  OneTurn'
<1> USE DEF connVars, gateVars, turnVars, linkVars, sendVars, vars
<1>1. ASSUME NEW all \in Seq(Nat), DispatchTurn(all) PROVE OneTurn'
  BY <1>1, DispatchOneTurn
<1>2. CASE AbortTurn
  BY <1>2, AbortNone DEF OneTurn
<1>3. CASE Turns
  <2>1. PICK t \in DOMAIN tasks : Turn(t)
    BY <1>3 DEF Turns
  <2>2. turn' = turn
    BY <2>1 DEF Turn, TurnLock, TurnSend, TurnStops, TurnStep
  <2> QED BY <2>1, <2>2, TaskSteps DEF OneTurn
<1>4. CASE UNCHANGED <<turn, tasks>>
  BY <1>4 DEF OneTurn
<1>5. \/ \E all \in Seq(Nat) : DispatchTurn(all)
      \/ AbortTurn \/ Turns \/ UNCHANGED <<turn, tasks>>
  <2>1. FlushHeld => \/ \E all \in Seq(Nat) : DispatchTurn(all)
                     \/ UNCHANGED <<turn, tasks>>
    BY DEF FlushHeld, TypeOK
  <2>2. Input => FlushHeld \/ AbortTurn \/ UNCHANGED <<turn, tasks>>
    BY DEF Input, Reject, SessionStart, AudioData, SpeechEnd, FlushDeadline, UpstreamEvent,
           Leave, EndLoop, DropSession
  <2>3. HandlerDispatch => \E all \in Seq(Nat) : DispatchTurn(all)
    BY HandlerHead, TypeParts DEF HandlerDispatch, Handler
  <2>4. Handler => FlushHeld \/ HandlerDispatch \/ UNCHANGED <<turn, tasks>>
    BY DEF Handler, HandlerSend, Transcribe, GateTranscript, HandlerFlush, ForwardAudio,
           CommitAudio
  <2>5. Writer \/ Closed \/ Upstream \/ Over => UNCHANGED <<turn, tasks>>
    BY DEF Writer, Write, WriteFails, WriterEnds, WriterStep, Closed, Upstream,
           UpstreamSpeaks, PumpDies, PumpStep, Over
  <2> QED BY <2>1, <2>2, <2>3, <2>4, <2>5 DEF Next
<1> QED BY <1>1, <1>2, <1>3, <1>4, <1>5

(* The only turn that can be running, and not already told to stop, is the  *)
(* one that session.start, session.stop and the end of the loop can abort.  *)
THEOREM OneTurnAlways == Spec => []OneTurn
<1>1. Init => OneTurn
  BY DEF Init, OneTurn
<1> QED BY TypeCorrect, <1>1, OneTurnNext, PTL DEF Spec

-----------------------------------------------------------------------------
(* Isolation of sessions.  The invariant puts the texts that flow in the    *)
(* set of those recognised since session.start; that set is constant while  *)
(* the session lasts, and every text recognised meanwhile enters it.        *)
Fresh(f) == {x \in Nat : x > f}

Running(t) == tasks[t].pc # "finished" /\ ~tasks[t].aborted

Isolated ==
  /\ Flowing(Fresh(floor))
  /\ \A t \in DOMAIN tasks :
       Running(t) => tasks[t].texts \in Seq(Fresh(floor)) /\ tasks[t].session = sessionId

LEMMA IsolatedImplies == Isolated => SessionIsolation
<1> SUFFICES ASSUME Isolated PROVE SessionIsolation
  OBVIOUS
<1> DEFINE S == Fresh(floor)
<1>1. \A seq \in Seq(S) : \A x \in ToSet(seq) : x > floor
  BY ToSetType DEF Fresh
<1>2. \A x \in TextsIn(todo) : x > floor
  <2>1. \A i \in DOMAIN todo : todo[i] \in StepOf(S)
    BY LenProperties, ElementOfSeq DEF Isolated, Flowing
  <2>2. \A i \in DOMAIN todo : todo[i].texts \in Seq(S)
    BY <2>1 DEF StepOf
  <2> QED BY <1>1, <2>2 DEF TextsIn
<1>3. \A x \in TextsOf(events) : x > floor
  <2>1. \A i \in DOMAIN events : events[i] \in EventOf(S)
    BY LenProperties, ElementOfSeq DEF Isolated, Flowing
  <2>2. \A i \in DOMAIN events : events[i].text \in S \cup {0}
    BY <2>1 DEF EventOf
  <2> QED BY <2>2 DEF TextsOf, Fresh
<1>4. \A x \in ToSet(held) : x > floor
  BY <1>1 DEF Isolated, Flowing
<1>5. \A t \in DOMAIN tasks : Running(t) =>
        /\ \A x \in ToSet(tasks[t].texts) : x > floor
        /\ tasks[t].session = sessionId
  BY <1>1 DEF Isolated
<1> QED BY <1>2, <1>3, <1>4, <1>5 DEF SessionIsolation, Running

(* A new session starts with nothing on its way and nothing running.        *)
LEMMA IsolatedStart ==
  ASSUME TypeOK, OneTurn, NEW hasId \in DeviceIds, SessionStart(hasId)
  PROVE  Isolated'
<1>1. PICK f : f = floor'
  OBVIOUS
<1>2. <<Send("listening")>> \in Seq(StepOf(Fresh(f)))
  BY StepTypes DEF Message
<1>3. Flowing(Fresh(f))'
  BY <1>2, EmptySeq DEF SessionStart, DropSession, Flowing
<1>4. \A t \in DOMAIN tasks' : ~Running(t)'
  BY AbortNone DEF SessionStart, DropSession, Running
<1> QED BY <1>1, <1>3, <1>4 DEF Isolated

LEMMA DispatchIsolated ==
  ASSUME TypeOK, Isolated, UNCHANGED <<floor, sessionId>>,
         NEW all \in Seq(Fresh(floor)), DispatchTurn(all)
  PROVE  \A t \in DOMAIN tasks' :
           Running(t)' => tasks'[t].texts \in Seq(Fresh(floor)) /\ tasks'[t].session = sessionId
<1>1. CASE TurnInFlight
  BY <1>1 DEF DispatchTurn, Isolated, Running
<1>2. CASE ~TurnInFlight
  <2> DEFINE task == [pc |-> "lock", texts |-> all, session |-> sessionId, aborted |-> FALSE]
  <2>1. tasks' = Append(tasks, task) /\ tasks \in Seq(Task)
    BY <1>2 DEF DispatchTurn, TypeOK
  <2>2. task \in Task
    <3>1. all \in Seq(Nat)
      BY SeqMonotonic DEF Fresh
    <3> QED BY <3>1 DEF TypeOK, Task, Phase
  <2>3. /\ DOMAIN tasks' = 1 .. Len(tasks) + 1
        /\ \A t \in 1 .. Len(tasks) : tasks'[t] = tasks[t]
        /\ tasks'[Len(tasks) + 1] = task
    <3> HIDE DEF task
    <3> QED BY <2>1, <2>2, AppendProperties, LenProperties
  <2>4. DOMAIN tasks = 1 .. Len(tasks) /\ Len(tasks) \in Nat
    BY <2>1, LenProperties
  <2> QED BY <2>3, <2>4 DEF Isolated, Running
<1> QED BY <1>1, <1>2

LEMMA IsolatedNext ==
  ASSUME TypeOK, OneTurn, Isolated, [Next]_vars
  PROVE  Isolated'
<1> USE DEF connVars, gateVars, turnVars, linkVars, sendVars, vars
<1>1. CASE \E hasId \in DeviceIds : SessionStart(hasId)
  BY <1>1, IsolatedStart
<1>2. CASE UNCHANGED <<floor, sessionId>>
  <2>1. PICK f : f = floor
    OBVIOUS
  <2>2. Flowing(Fresh(f))'
    <3>1. texts \in Nat /\ texts + 1 \in Fresh(f)
      BY <2>1 DEF TypeOK, Fresh
    <3> QED BY <2>1, <3>1, FlowNext DEF Isolated
  <2>3. \A t \in DOMAIN tasks' :
          Running(t)' => tasks'[t].texts \in Seq(Fresh(floor)) /\ tasks'[t].session = sessionId
    <3>1. CASE \E all \in Seq(Fresh(floor)) : DispatchTurn(all)
      BY <1>2, <3>1, DispatchIsolated
    <3>2. CASE AbortTurn
      BY <3>2, AbortNone DEF Running
    <3>3. CASE Turns
      <4>1. PICK t \in DOMAIN tasks : Turn(t)
        BY <3>3 DEF Turns
      <4> QED BY <4>1, TaskSteps DEF Isolated, Running
    <3>4. CASE UNCHANGED tasks
      BY <3>4 DEF Isolated, Running
    <3>5. \/ \E all \in Seq(Fresh(floor)) : DispatchTurn(all)
          \/ AbortTurn \/ Turns \/ UNCHANGED tasks
      <4>1. FlushHeld => (\E all \in Seq(Fresh(floor)) : DispatchTurn(all)) \/ UNCHANGED tasks
        BY DEF FlushHeld, Isolated, Flowing
      <4>2. Input => FlushHeld \/ AbortTurn \/ UNCHANGED tasks
        BY DEF Input, Reject, SessionStart, AudioData, SpeechEnd, FlushDeadline, UpstreamEvent,
               Leave, EndLoop, DropSession
      <4>3. HandlerDispatch => \E all \in Seq(Fresh(floor)) : DispatchTurn(all)
        BY <2>1, HandlerHead DEF HandlerDispatch, Handler, Isolated
      <4>4. Handler => FlushHeld \/ HandlerDispatch \/ UNCHANGED tasks
        BY DEF Handler, HandlerSend, Transcribe, GateTranscript, HandlerFlush, ForwardAudio,
               CommitAudio
      <4>5. Writer \/ Closed \/ Upstream \/ Over => UNCHANGED tasks
        BY DEF Writer, Write, WriteFails, WriterEnds, WriterStep, Closed, Upstream,
               UpstreamSpeaks, PumpDies, PumpStep, Over
      <4> QED BY <4>1, <4>2, <4>3, <4>4, <4>5 DEF Next
    <3> QED BY <3>1, <3>2, <3>3, <3>4, <3>5
  <2> QED BY <1>2, <2>1, <2>2, <2>3 DEF Isolated
<1>3. (\E hasId \in DeviceIds : SessionStart(hasId)) \/ UNCHANGED <<floor, sessionId>>
  <2>1. Input => (\E hasId \in DeviceIds : SessionStart(hasId)) \/ UNCHANGED <<floor, sessionId>>
    BY DEF Input, Reject, AudioData, SpeechEnd, FlushDeadline, UpstreamEvent, Leave, EndLoop
  <2>2. Handler => UNCHANGED <<floor, sessionId>>
    BY DEF Handler, HandlerSend, Transcribe, GateTranscript, HandlerDispatch, HandlerFlush,
           ForwardAudio, CommitAudio
  <2>3. Turns \/ Writer \/ Closed \/ Upstream \/ Over => UNCHANGED <<floor, sessionId>>
    BY DEF Turns, Turn, TurnLock, TurnSend, TurnStops, TurnStep, Writer, Write, WriteFails,
           WriterEnds, WriterStep, Closed, Upstream, UpstreamSpeaks, PumpDies, PumpStep, Over
  <2> QED BY <2>1, <2>2, <2>3 DEF Next
<1> QED BY <1>1, <1>2, <1>3

(* No text crosses a session.start: what is held, handled or in the event   *)
(* channel, and what the running turn answers, is of the current session.   *)
THEOREM SessionsAreIsolated == Spec => []SessionIsolation
<1>1. Init => Isolated
  BY EmptySeq DEF Init, Isolated, Flowing
<1> QED BY TypeCorrect, OneTurnAlways, <1>1, IsolatedNext, IsolatedImplies, PTL DEF Spec

-----------------------------------------------------------------------------
(* A pump's error is its last event: nothing is behind it in the channel,   *)
(* and its pump sends no more.  Hence tearing the link down at that error   *)
(* drops no text.                                                           *)
ErrorIsLast ==
  \A i \in DOMAIN events :
    events[i].kind = "err" => i = Len(events) /\ events[i].text = 0 /\ pump # "live"

LEMMA ErrorIsLastNext ==
  ASSUME TypeOK, ErrorIsLast, [Next]_vars
  PROVE  ErrorIsLast'
<1> USE DEF connVars, gateVars, turnVars, linkVars, sendVars, vars
<1>0. events \in Seq(Event)
  BY DEF TypeOK
<1>1. CASE UNCHANGED <<events, pump>>
  BY <1>1 DEF ErrorIsLast
<1>2. CASE events' = <<>>
  BY <1>2, EmptySeq DEF ErrorIsLast
<1>3. CASE events # <<>> /\ events' = Tail(events) /\ pump' = pump
  <2>1. /\ Len(events') = Len(events) - 1
        /\ \A i \in 1 .. Len(events') : events'[i] = events[i + 1]
        /\ DOMAIN events' = 1 .. Len(events') /\ DOMAIN events = 1 .. Len(events)
        /\ Len(events) \in Nat
    BY <1>0, <1>3, HeadTailProperties
  <2>2. SUFFICES ASSUME NEW i \in DOMAIN events', events'[i].kind = "err"
                 PROVE  i = Len(events') /\ events'[i].text = 0 /\ pump' # "live"
    BY DEF ErrorIsLast
  <2>3. i \in 1 .. Len(events') /\ i + 1 \in DOMAIN events /\ events'[i] = events[i + 1]
    BY <2>1
  <2>4. i + 1 = Len(events) /\ events[i + 1].text = 0 /\ pump # "live"
    BY <2>2, <2>3 DEF ErrorIsLast
  <2>5. i = Len(events')
    BY <2>1, <2>3, <2>4
  <2>6. events'[i].text = 0
    BY <2>3, <2>4
  <2> QED BY <1>3, <2>4, <2>5, <2>6
<1>4. CASE Upstream
  <2>1. PICK ev \in Event : events' = Append(events, ev)
                          /\ (ev.kind = "err" => ev.text = 0 /\ pump' = "dead")
    <3>1. CASE PumpDies
      <4>1. [kind |-> "err", text |-> 0, end |-> FALSE] \in Event
        BY DEF Event
      <4> QED BY <3>1, <4>1 DEF PumpDies
    <3>2. CASE UpstreamSpeaks
      <4>1. \A kind \in {"delta", "completed", "cleared"}, end \in BOOLEAN :
              /\ [kind |-> kind, text |-> 0, end |-> end] \in Event
              /\ [kind |-> kind, text |-> texts + 1, end |-> end] \in Event
        BY DEF Event, TypeOK
      <4>2. \E kind \in {"delta", "completed", "cleared"}, text \in {0, texts + 1}, end \in BOOLEAN :
              events' = Append(events, [kind |-> kind, text |-> text, end |-> end])
        BY <3>2 DEF UpstreamSpeaks
      <4> QED BY <4>1, <4>2
    <3> QED BY <1>4, <3>1, <3>2 DEF Upstream
  <2>2. pump = "live"
    BY <1>4 DEF Upstream, UpstreamSpeaks, PumpDies
  <2>3. \A i \in DOMAIN events : events[i].kind # "err"
    BY <2>2 DEF ErrorIsLast
  <2>4. /\ Len(events') = Len(events) + 1
        /\ events'[Len(events) + 1] = ev
        /\ \A i \in 1 .. Len(events) : events'[i] = events[i]
        /\ DOMAIN events' = 1 .. Len(events') /\ DOMAIN events = 1 .. Len(events)
        /\ Len(events) \in Nat
    BY <1>0, <2>1, AppendProperties
  <2>5. SUFFICES ASSUME NEW i \in DOMAIN events', events'[i].kind = "err"
                 PROVE  i = Len(events') /\ events'[i].text = 0 /\ pump' # "live"
    BY DEF ErrorIsLast
  <2>6. i = Len(events) + 1
    BY <2>3, <2>4, <2>5
  <2> QED BY <2>1, <2>4, <2>5, <2>6
<1>5. UNCHANGED <<events, pump>> \/ events' = <<>> \/ Upstream
      \/ (events # <<>> /\ events' = Tail(events) /\ pump' = pump)
  <2>1. CASE Input
    BY <2>1 DEF Input, Reject, SessionStart, AudioData, SpeechEnd, FlushDeadline, UpstreamEvent,
                Leave, EndLoop, DropSession, TeardownUpstream
  <2>2. CASE Handler
    BY <2>2 DEF Handler, HandlerSend, Transcribe, GateTranscript, HandlerDispatch, HandlerFlush,
                ForwardAudio, CommitAudio
  <2>3. CASE Turns \/ Writer \/ Closed \/ Over \/ UNCHANGED vars
    BY <2>3 DEF Turns, Turn, TurnLock, TurnSend, TurnStops, TurnStep, Writer, Write, WriteFails,
                WriterEnds, WriterStep, Closed, Over
  <2> QED BY <2>1, <2>2, <2>3 DEF Next
<1> QED BY <1>1, <1>2, <1>3, <1>4, <1>5

LEMMA ErrorDropsNothing ==
  ASSUME TypeOK, ErrorIsLast, events # <<>>, Head(events).kind = "err"
  PROVE  TextsOf(events) = {}
<1>1. /\ Head(events) = events[1] /\ 1 \in DOMAIN events
      /\ DOMAIN events = 1 .. Len(events) /\ Len(events) \in Nat
  BY HeadTailProperties, EmptySeq DEF TypeOK
<1>2. Len(events) = 1 /\ events[1].text = 0
  BY <1>1 DEF ErrorIsLast
<1> QED BY <1>1, <1>2 DEF TextsOf

LEMMA DiscardStep ==
  ASSUME TypeOK, ErrorIsLast, [Next]_vars, discarded' # discarded
  PROVE  starts' # starts \/ loop' # loop \/ links' # links
<1> USE DEF connVars, gateVars, turnVars, linkVars, sendVars, vars
<1>1. CASE Input
  <2>1. CASE UpstreamEvent
    BY <2>1, ErrorDropsNothing DEF UpstreamEvent, TeardownUpstream
  <2>2. CASE \E hasId \in DeviceIds : SessionStart(hasId)
    BY <2>2 DEF SessionStart, TypeOK
  <2>3. CASE Leave
    BY <2>3 DEF Leave, EndLoop, Idle
  <2> QED BY <1>1, <2>1, <2>2, <2>3 DEF Input, Reject, AudioData, SpeechEnd, FlushDeadline
<1>2. CASE Handler
  <2>1. links' = links + 1 \/ UNCHANGED discarded
    BY <1>2 DEF Handler, HandlerSend, Transcribe, GateTranscript, HandlerDispatch, HandlerFlush,
                ForwardAudio, CommitAudio
  <2> QED BY <2>1 DEF TypeOK
<1>3. CASE Turns \/ Writer \/ Closed \/ Upstream \/ Over \/ UNCHANGED vars
  BY <1>3 DEF Turns, Turn, TurnLock, TurnSend, TurnStops, TurnStep, Writer, Write, WriteFails,
              WriterEnds, WriterStep, Closed, Upstream, UpstreamSpeaks, PumpDies, PumpStep, Over
<1> QED BY <1>1, <1>2, <1>3 DEF Next

(* Within a session no failure of the upstream link loses a transcript that *)
(* was received: texts are discarded only by session.start, at the end of   *)
(* the connection, and by the dial that replaces a link.                    *)
THEOREM FailuresLoseNoText == Spec => FailureLosesNoText
<1>1. Init => ErrorIsLast
  BY EmptySeq DEF Init, ErrorIsLast
<1>2. TypeOK /\ ErrorIsLast /\ [Next]_vars =>
      [discarded' # discarded => starts' # starts \/ loop' # loop \/ links' # links]_vars
  BY DiscardStep
<1> QED BY TypeCorrect, <1>1, <1>2, ErrorIsLastNext, PTL DEF Spec, FailureLosesNoText

-----------------------------------------------------------------------------
(* The places of a text.  Among texts 1 .. n those in T (turns) come before *)
(* those in H (held), D (in the handler) and E (in the event channel); R    *)
(* (refused) and X (discarded) have the rest.                               *)
Before(A, B) == \A x \in A, y \in B : x < y

Apart(R, T, H, D, E) == R \cap T = {} /\ R \cap H = {} /\ R \cap D = {} /\ R \cap E = {}

Placed(n, T, H, D, E, R, X) ==
  /\ \A x \in T \cup H \cup D \cup E \cup R \cup X : x \in Nat /\ x <= n
  /\ \A x \in 1 .. n : x \in T \cup H \cup D \cup E \cup R \cup X
  /\ Before(T, H) /\ Before(T, D) /\ Before(T, E)
  /\ Before(H, D) /\ Before(H, E) /\ Before(D, E)
  /\ Apart(R, T, H, D, E) /\ Apart(X, T, H, D, E) /\ R \cap X = {}

LEMMA NewText ==
  ASSUME NEW n \in Nat, NEW T, NEW H, NEW D, NEW E, NEW R, NEW X, Placed(n, T, H, D, E, R, X)
  PROVE  /\ Placed(n + 1, T, H, D, E \cup {n + 1}, R, X)
         /\ D = {} /\ E = {} => Placed(n + 1, T, H, {n + 1}, E, R, X)
<1>1. \A x \in T \cup H \cup D \cup E \cup R \cup X : x \in Nat /\ x < n + 1
  BY DEF Placed
<1>2. \A x \in 1 .. n + 1 : x \in 1 .. n \/ x = n + 1
  OBVIOUS
<1> QED BY <1>1, <1>2 DEF Placed, Before, Apart

LEMMA Received ==
  ASSUME NEW n \in Nat, NEW T, NEW H, NEW E, NEW R, NEW X, Placed(n, T, H, {}, E, R, X),
         NEW x \in E, \A y \in E \ {x} : x < y
  PROVE  Placed(n, T, H, {x}, E \ {x}, R, X)
BY DEF Placed, Before, Apart

LEMMA Gated ==
  ASSUME NEW n \in Nat, NEW T, NEW H, NEW D, NEW E, NEW R, NEW X, Placed(n, T, H, D, E, R, X)
  PROVE  Placed(n, T, {}, H \cup D, E, R, X) /\ Placed(n, T, H \cup D, {}, E, R, X)
BY DEF Placed, Before, Apart

LEMMA Dispatched ==
  ASSUME NEW n \in Nat, NEW T, NEW H, NEW D, NEW E, NEW R, NEW X, Placed(n, T, H, D, E, R, X)
  PROVE  /\ Placed(n, T \cup H, {}, D, E, R, X)
         /\ Placed(n, T, {}, D, E, R \cup H, X)
         /\ H = {} => Placed(n, T \cup D, {}, {}, E, R, X) /\ Placed(n, T, {}, {}, E, R \cup D, X)
<1>1. Apart(X, H, {}, {}, {}) /\ Apart(X, D, {}, {}, {})
  BY DEF Placed, Apart
<1>2. \A x \in Nat : ~(x < x)
  OBVIOUS
<1>3. H \cap T = {} /\ H \cap D = {} /\ H \cap E = {} /\ D \cap T = {} /\ D \cap E = {}
  BY <1>2 DEF Placed, Before
<1>4. Placed(n, T \cup H, {}, D, E, R, X)
  BY DEF Placed, Before, Apart
<1>5. Placed(n, T, {}, D, E, R \cup H, X)
  BY <1>3 DEF Placed, Before, Apart
<1>6. H = {} => Placed(n, T \cup D, {}, {}, E, R, X)
  BY DEF Placed, Before, Apart
<1>7. H = {} => Placed(n, T, {}, {}, E, R \cup D, X)
  BY <1>3 DEF Placed, Before, Apart
<1> QED BY <1>4, <1>5, <1>6, <1>7

LEMMA Dropped ==
  ASSUME NEW n \in Nat, NEW T, NEW H, NEW D, NEW E, NEW R, NEW X, Placed(n, T, H, D, E, R, X)
  PROVE  /\ Placed(n, T, H, D, {}, R, X \cup E)
         /\ Placed(n, T, {}, D, {}, R, X \cup H \cup E)
<1>1. \A x \in Nat : ~(x < x)
  OBVIOUS
<1>2. H \cap T = {} /\ H \cap D = {} /\ H \cap E = {} /\ E \cap T = {} /\ D \cap E = {}
  BY <1>1 DEF Placed, Before
<1>3. Placed(n, T, H, D, {}, R, X \cup E)
  BY <1>2 DEF Placed, Before, Apart
<1>4. Placed(n, T, {}, D, {}, R, X \cup H \cup E)
  BY <1>2 DEF Placed, Before, Apart
<1> QED BY <1>3, <1>4

-----------------------------------------------------------------------------
(* The program of a handler.  At most one of its steps carries texts, and   *)
(* nothing but messages are sent before it.                                 *)
Plain(q) == \A i \in DOMAIN q : q[i].texts = <<>>

Leading(q) ==
  \A i \in DOMAIN q : q[i].texts # <<>> =>
    /\ q[i].op \in {"gate", "dispatch"}
    /\ \A j \in 1 .. i - 1 : q[j].op = "send"

LEMMA PlainLeads ==
  ASSUME NEW q, Plain(q)
  PROVE  Leading(q) /\ TextsIn(q) = {}
<1>1. Leading(q)
  BY DEF Plain, Leading
<1>2. ToSet(<<>>) = {}
  BY EmptySeq DEF ToSet
<1>3. TextsIn(q) = {}
  BY <1>2 DEF Plain, TextsIn
<1> QED BY <1>1, <1>3

\* A step that carries texts in front of a plain rest, perhaps with a message
\* before it.
Carrying(q, m, s, r) == q = <<s>> \o r \/ q = <<Send(m), s>> \o r

LEMMA CarrierLeads ==
  ASSUME NEW m \in Message, NEW s \in Step, NEW r \in Seq(Step), Plain(r),
         s.op \in {"gate", "dispatch"}, NEW q, Carrying(q, m, s, r)
  PROVE  /\ q \in Seq(Step) /\ Leading(q) /\ TextsIn(q) = ToSet(s.texts)
         /\ \A i \in DOMAIN q : q[i].texts \in {<<>>, s.texts}
         /\ \A i \in DOMAIN q : q[i] = s \/ q[i].texts = <<>>
         /\ \A i \in DOMAIN q : q[i] = s \/ q[i].op = "send" \/ \E j \in DOMAIN r : q[i] = r[j]
<1>0. Send(m) \in Step /\ Send(m).op = "send" /\ Send(m).texts = <<>>
  <2>1. Send(m) \in StepOf(Nat)
    BY StepTypes
  <2> QED BY <2>1 DEF StepOf, Step, Send
<1> DEFINE x == Send(m)
<1> HIDE DEF x
<1>1. PICK k \in {1, 2} :
        /\ q \in Seq(Step) /\ DOMAIN q = 1 .. k + Len(r) /\ q[k] = s
        /\ \A i \in 1 .. k - 1 : q[i] = x
        /\ \A i \in 1 .. Len(r) : q[k + i] = r[i]
        /\ Len(r) \in Nat /\ DOMAIN r = 1 .. Len(r)
  <2>1. <<s>> \in Seq(Step) /\ <<x, s>> \in Seq(Step)
    BY <1>0 DEF x
  <2>2. CASE q = <<s>> \o r
    BY <2>1, <2>2
  <2>3. CASE q = <<x, s>> \o r
    BY <2>1, <2>3
  <2> QED BY <2>2, <2>3 DEF x, Carrying
<1>2. \A i \in DOMAIN q : i < k \/ i = k \/ (i > k /\ i - k \in DOMAIN r /\ q[i] = r[i - k])
  BY <1>1
<1>3. \A i \in DOMAIN q : i < k => i \in 1 .. k - 1
  BY <1>1
<1>4. \A i \in DOMAIN q :
        \/ i < k /\ q[i] = x
        \/ i = k /\ q[i] = s
        \/ \E j \in DOMAIN r : q[i] = r[j]
  BY <1>1, <1>2, <1>3
<1>5. \A j \in DOMAIN r : r[j].texts = <<>>
  BY DEF Plain
<1>6. x.op = "send" /\ x.texts = <<>>
  BY <1>0 DEF x
<1>7. \A i \in DOMAIN q : q[i] = s \/ q[i].texts = <<>>
  BY <1>4, <1>5, <1>6
<1>8. \A i \in DOMAIN q : q[i] = s \/ q[i].op = "send" \/ \E j \in DOMAIN r : q[i] = r[j]
  BY <1>4, <1>6
<1>9. Leading(q)
  <2>1. ASSUME NEW i \in DOMAIN q, q[i].texts # <<>> PROVE i <= k
    <3>1. CASE i - k \in DOMAIN r /\ q[i] = r[i - k]
      BY <1>5, <2>1, <3>1
    <3>2. CASE i < k \/ i = k
      BY <1>1, <3>2
    <3> QED BY <1>2, <3>1, <3>2
  <2> QED BY <1>1, <1>6, <1>7, <2>1 DEF Leading
<1>10. TextsIn(q) = ToSet(s.texts)
  <2>1. ToSet(<<>>) = {}
    BY EmptySeq DEF ToSet
  <2>2. k \in DOMAIN q /\ q[k] = s
    BY <1>1
  <2>3. \A i \in DOMAIN q : ToSet(q[i].texts) \in {{}, ToSet(s.texts)}
    BY <1>7, <2>1
  <2>4. \A e : e \in TextsIn(q) <=> \E i \in DOMAIN q : e \in ToSet(q[i].texts)
    BY DEF TextsIn
  <2>5. \A e : e \in TextsIn(q) => e \in ToSet(s.texts)
    BY <2>3, <2>4
  <2>6. \A e : e \in ToSet(s.texts) => e \in TextsIn(q)
    BY <2>2, <2>4
  <2> QED BY <2>5, <2>6
<1> QED BY <1>1, <1>7, <1>8, <1>9, <1>10

\* What is left of a program after its first step.
LEMMA LeadingTail ==
  ASSUME NEW q \in Seq(Step), Leading(q), q # <<>>
  PROVE  /\ Tail(q) \in Seq(Step) /\ Leading(Tail(q))
         /\ \A i \in DOMAIN Tail(q) : \E j \in DOMAIN q : Tail(q)[i] = q[j]
         /\ Head(q).op # "send" => Plain(Tail(q)) /\ TextsIn(q) = ToSet(Head(q).texts)
         /\ Head(q).op \notin {"gate", "dispatch"} => TextsIn(Tail(q)) = TextsIn(q)
<1>1. /\ Tail(q) \in Seq(Step) /\ Head(q) = q[1] /\ Len(q) \in Nat /\ Len(q) > 0
      /\ DOMAIN q = 1 .. Len(q) /\ DOMAIN Tail(q) = 1 .. Len(q) - 1
      /\ \A i \in 1 .. Len(q) - 1 : Tail(q)[i] = q[i + 1]
  OBVIOUS
<1>2. \A i \in DOMAIN Tail(q) : i + 1 \in DOMAIN q /\ Tail(q)[i] = q[i + 1]
  BY <1>1
<1>3. Leading(Tail(q))
  <2>1. SUFFICES ASSUME NEW i \in DOMAIN Tail(q), Tail(q)[i].texts # <<>>
                 PROVE  /\ Tail(q)[i].op \in {"gate", "dispatch"}
                        /\ \A j \in 1 .. i - 1 : Tail(q)[j].op = "send"
    BY DEF Leading
  <2>2. \A j \in 1 .. i - 1 : j + 1 \in 1 .. (i + 1) - 1 /\ Tail(q)[j] = q[j + 1]
    BY <1>1, <2>1
  <2>3. /\ q[i + 1].op \in {"gate", "dispatch"}
        /\ \A j \in 1 .. (i + 1) - 1 : q[j].op = "send"
    BY <1>2, <2>1 DEF Leading
  <2> QED BY <1>2, <2>1, <2>2, <2>3
<1>4. ToSet(<<>>) = {}
  BY EmptySeq DEF ToSet
<1>5. \A i \in DOMAIN q : i = 1 \/ (i - 1 \in DOMAIN Tail(q) /\ Tail(q)[i - 1] = q[i])
  BY <1>1
<1>6. TextsIn(q) = ToSet(q[1].texts) \cup TextsIn(Tail(q))
  <2>1. 1 \in DOMAIN q
    BY <1>1
  <2> QED BY <1>2, <1>5, <2>1 DEF TextsIn
<1>7. CASE Head(q).op # "send"
  <2>1. \A i \in DOMAIN Tail(q) : 1 \in 1 .. (i + 1) - 1
    BY <1>1
  <2>2. Plain(Tail(q))
    BY <1>1, <1>2, <1>7, <2>1 DEF Plain, Leading
  <2>3. TextsIn(Tail(q)) = {}
    BY <2>2, PlainLeads
  <2>4. TextsIn(q) = ToSet(Head(q).texts)
    BY <1>1, <1>6, <2>3
  <2>5. Head(q).op \notin {"gate", "dispatch"} => q[1].texts = <<>>
    BY <1>1 DEF Leading
  <2>6. Head(q).op \notin {"gate", "dispatch"} => TextsIn(Tail(q)) = TextsIn(q)
    BY <1>1, <1>4, <2>3, <2>4, <2>5
  <2>7. \A i \in DOMAIN Tail(q) : \E j \in DOMAIN q : Tail(q)[i] = q[j]
    BY <1>2
  <2> QED BY <1>1, <1>3, <2>2, <2>4, <2>6, <2>7
<1>8. CASE Head(q).op = "send"
  <2>1. q[1].texts = <<>>
    BY <1>1, <1>8 DEF Leading
  <2> QED BY <1>1, <1>2, <1>3, <1>4, <1>6, <1>8, <2>1
<1> QED BY <1>7, <1>8

-----------------------------------------------------------------------------
(* The event channel.                                                       *)
SortedEvents(evs) ==
  /\ \A i \in DOMAIN evs : evs[i].text # 0 => evs[i].kind = "completed"
  /\ \A i, j \in DOMAIN evs :
       i < j /\ evs[i].text # 0 /\ evs[j].text # 0 => evs[i].text < evs[j].text

LEMMA EventsNone == TextsOf(<<>>) = {} /\ SortedEvents(<<>>)
BY EmptySeq DEF TextsOf, SortedEvents

LEMMA EventTaken ==
  ASSUME NEW evs \in Seq(Event), evs # <<>>, SortedEvents(evs)
  PROVE  /\ SortedEvents(Tail(evs))
         /\ Head(evs).text # 0 => Head(evs).kind = "completed"
         /\ Head(evs).text = 0 => TextsOf(Tail(evs)) = TextsOf(evs)
         /\ Head(evs).text # 0 =>
              /\ Head(evs).text \in TextsOf(evs)
              /\ TextsOf(Tail(evs)) = TextsOf(evs) \ {Head(evs).text}
              /\ \A y \in TextsOf(Tail(evs)) : Head(evs).text < y
<1>1. /\ Head(evs) = evs[1] /\ Len(evs) \in Nat /\ Len(evs) > 0
      /\ DOMAIN evs = 1 .. Len(evs) /\ DOMAIN Tail(evs) = 1 .. Len(evs) - 1
      /\ \A i \in 1 .. Len(evs) - 1 : Tail(evs)[i] = evs[i + 1]
  OBVIOUS
<1>2. \A i \in DOMAIN Tail(evs) : i + 1 \in DOMAIN evs /\ 1 < i + 1 /\ Tail(evs)[i] = evs[i + 1]
  BY <1>1
<1>3. \A i \in DOMAIN evs : i = 1 \/ (i - 1 \in DOMAIN Tail(evs) /\ Tail(evs)[i - 1] = evs[i])
  BY <1>1
<1>4. SortedEvents(Tail(evs))
  <2>1. SUFFICES ASSUME NEW i \in DOMAIN Tail(evs), NEW j \in DOMAIN Tail(evs), i < j,
                        Tail(evs)[i].text # 0, Tail(evs)[j].text # 0
                 PROVE  Tail(evs)[i].text < Tail(evs)[j].text
    BY <1>2 DEF SortedEvents
  <2>2. i + 1 < j + 1
    BY <1>1, <2>1
  <2> QED BY <1>2, <2>1, <2>2 DEF SortedEvents
<1>5. \A e : e \in TextsOf(evs) <=> e # 0 /\ (e = evs[1].text \/ e \in TextsOf(Tail(evs)))
  <2>1. 1 \in DOMAIN evs
    BY <1>1
  <2> QED BY <1>2, <1>3, <2>1 DEF TextsOf
<1>6. 0 \notin TextsOf(Tail(evs))
  BY DEF TextsOf
<1>7. evs[1].text # 0 => \A y \in TextsOf(Tail(evs)) : evs[1].text < y
  <2>1. SUFFICES ASSUME evs[1].text # 0, NEW i \in DOMAIN Tail(evs), Tail(evs)[i].text # 0
                 PROVE  evs[1].text < Tail(evs)[i].text
    BY DEF TextsOf
  <2>2. 1 \in DOMAIN evs
    BY <1>1
  <2> QED BY <1>2, <2>1, <2>2 DEF SortedEvents
<1>8. evs[1].text # 0 => evs[1].text \notin TextsOf(Tail(evs))
  <2>1. evs[1].text \in Nat
    <3>1. evs[1] \in Event
      BY <1>1, ElementOfSeq
    <3> QED BY <3>1 DEF Event
  <2>2. ~(evs[1].text < evs[1].text)
    BY <2>1
  <2> QED BY <1>7, <2>2
<1>9. evs[1].text # 0 => evs[1].kind = "completed"
  <2>1. 1 \in DOMAIN evs
    BY <1>1
  <2> QED BY <2>1 DEF SortedEvents
<1> QED BY <1>1, <1>4, <1>5, <1>6, <1>7, <1>8, <1>9

LEMMA EventAdded ==
  ASSUME NEW evs \in Seq(Event), NEW ev \in Event, SortedEvents(evs),
         ev.text # 0 => ev.kind = "completed" /\ \A y \in TextsOf(evs) : y < ev.text
  PROVE  /\ SortedEvents(Append(evs, ev))
         /\ TextsOf(Append(evs, ev)) = TextsOf(evs) \cup ({ev.text} \ {0})
<1> DEFINE q == Append(evs, ev)
<1>1. /\ Len(evs) \in Nat /\ DOMAIN evs = 1 .. Len(evs) /\ DOMAIN q = 1 .. Len(evs) + 1
      /\ \A i \in DOMAIN evs : q[i] = evs[i]
      /\ q[Len(evs) + 1] = ev
  BY AppendProperties, LenProperties
<1> HIDE DEF q
<1>2. \A i \in DOMAIN q : i \in DOMAIN evs \/ i = Len(evs) + 1
  BY <1>1
<1>3. \A i \in DOMAIN evs : i \in DOMAIN q /\ i < Len(evs) + 1
  BY <1>1
<1>4. \A e : e \in TextsOf(q) <=> e # 0 /\ (e = ev.text \/ e \in TextsOf(evs))
  <2>1. Len(evs) + 1 \in DOMAIN q
    BY <1>1
  <2> QED BY <1>1, <1>2, <1>3, <2>1 DEF TextsOf
<1>5. 0 \notin TextsOf(evs)
  BY DEF TextsOf
<1>6. SortedEvents(q)
  <2>1. SUFFICES ASSUME NEW i \in DOMAIN q, NEW j \in DOMAIN q, i < j,
                        q[i].text # 0, q[j].text # 0
                 PROVE  q[i].text < q[j].text
    BY <1>1, <1>2 DEF SortedEvents
  <2>2. i \in DOMAIN evs
    BY <1>1, <1>2, <2>1
  <2>3. CASE j \in DOMAIN evs
    BY <1>1, <2>1, <2>2, <2>3 DEF SortedEvents
  <2>4. CASE j = Len(evs) + 1
    <3>1. evs[i].text \in TextsOf(evs)
      BY <1>1, <2>1, <2>2 DEF TextsOf
    <3> QED BY <1>1, <2>1, <2>2, <2>4, <3>1
  <2> QED BY <1>2, <2>3, <2>4
<1> QED BY <1>4, <1>5, <1>6 DEF q

-----------------------------------------------------------------------------
(* Turns.                                                                   *)
SortedTurns ==
  \A t \in DOMAIN tasks :
    /\ Increasing(tasks[t].texts)
    /\ \A u \in DOMAIN tasks :
         t < u => \A x \in ToSet(tasks[t].texts), y \in ToSet(tasks[u].texts) : x < y

SameTurns ==
  /\ DOMAIN tasks' = DOMAIN tasks
  /\ \A t \in DOMAIN tasks : tasks'[t].texts = tasks[t].texts

LEMMA SameTurnsKeep ==
  ASSUME SortedTurns, SameTurns
  PROVE  SortedTurns' /\ InTurns' = InTurns
BY DEF SortedTurns, SameTurns, InTurns

LEMMA AbortSame ==
  ASSUME TypeOK, AbortTurn
  PROVE  SameTurns
<1>0. tasks \in Seq(Task) /\ DOMAIN tasks = 1 .. Len(tasks) /\ turn \in 0 .. Len(tasks)
  BY LenProperties DEF TypeOK
<1>1. CASE TurnInFlight
  <2>1. turn \in DOMAIN tasks
    BY <1>0, <1>1, LenProperties DEF TurnInFlight
  <2>2. tasks' = [tasks EXCEPT ![turn] = [tasks[turn] EXCEPT !.aborted = TRUE]]
    BY <1>1 DEF AbortTurn
  <2>3. tasks[turn] \in Task
    BY <1>0, <2>1, ElementOfSeq
  <2>4. [tasks[turn] EXCEPT !.aborted = TRUE].texts = tasks[turn].texts
    BY <2>3 DEF Task
  <2> QED BY <2>1, <2>2, <2>4 DEF SameTurns
<1>2. CASE ~TurnInFlight
  BY <1>2 DEF AbortTurn, SameTurns
<1> QED BY <1>1, <1>2

LEMMA DispatchTexts ==
  ASSUME TypeOK, SortedTurns, NEW all \in Seq(Nat), DispatchTurn(all),
         Increasing(all), Before(InTurns, ToSet(all))
  PROVE  /\ SortedTurns'
         /\ \/ InTurns' = InTurns /\ refused' = refused \cup ToSet(all)
            \/ InTurns' = InTurns \cup ToSet(all) /\ refused' = refused
<1>1. CASE TurnInFlight
  <2>1. SameTurns /\ refused' = refused \cup ToSet(all)
    BY <1>1 DEF DispatchTurn, SameTurns
  <2> QED BY <2>1, SameTurnsKeep
<1>2. CASE ~TurnInFlight
  <2> DEFINE task == [pc |-> "lock", texts |-> all, session |-> sessionId, aborted |-> FALSE]
             n == Len(tasks) + 1
  <2>1. tasks' = Append(tasks, task) /\ tasks \in Seq(Task) /\ refused' = refused
    BY <1>2 DEF DispatchTurn, TypeOK
  <2>2. task \in Task /\ task.texts = all
    BY DEF TypeOK, Task, Phase
  <2> HIDE DEF task
  <2>3. /\ Len(tasks) \in Nat /\ DOMAIN tasks = 1 .. Len(tasks) /\ DOMAIN tasks' = 1 .. n
        /\ \A t \in DOMAIN tasks : tasks'[t] = tasks[t]
        /\ tasks'[n] = task
    BY <2>1, <2>2, AppendProperties, LenProperties
  <2>4. \A t \in DOMAIN tasks' : t \in DOMAIN tasks \/ t = n
    BY <2>3
  <2>5. n \in DOMAIN tasks' /\ \A t \in DOMAIN tasks : t \in DOMAIN tasks' /\ t < n
    BY <2>3
  <2> HIDE DEF n
  <2>6. \A t \in DOMAIN tasks : ToSet(tasks[t].texts) \subseteq InTurns
    BY DEF InTurns
  <2>7. \A e : e \in InTurns' <=> e \in InTurns \/ e \in ToSet(all)
    BY <2>2, <2>3, <2>4, <2>5 DEF InTurns
  <2>8. SortedTurns'
    <3>1. SUFFICES ASSUME NEW t \in DOMAIN tasks'
                   PROVE  /\ Increasing(tasks'[t].texts)
                          /\ \A u \in DOMAIN tasks' : t < u =>
                               \A x \in ToSet(tasks'[t].texts), y \in ToSet(tasks'[u].texts) : x < y
      BY DEF SortedTurns
    <3>2. CASE t = n
      <4>1. \A u \in DOMAIN tasks' : ~(t < u)
        BY <2>3, <3>2 DEF n
      <4> QED BY <2>2, <2>3, <3>2, <4>1
    <3>3. CASE t \in DOMAIN tasks
      <4>1. Increasing(tasks'[t].texts)
        BY <2>3, <3>3 DEF SortedTurns
      <4>2. ASSUME NEW u \in DOMAIN tasks', t < u,
                   NEW x \in ToSet(tasks'[t].texts), NEW y \in ToSet(tasks'[u].texts)
            PROVE  x < y
        <5>1. CASE u \in DOMAIN tasks
          BY <2>3, <3>3, <4>2, <5>1 DEF SortedTurns
        <5>2. CASE u = n
          BY <2>2, <2>3, <2>6, <3>3, <4>2, <5>2 DEF Before
        <5> QED BY <2>4, <5>1, <5>2
      <4> QED BY <4>1, <4>2
    <3> QED BY <2>4, <3>2, <3>3
  <2> QED BY <2>1, <2>7, <2>8
<1> QED BY <1>1, <1>2

-----------------------------------------------------------------------------
(* Sequences of texts.                                                      *)
LEMMA JoinTexts ==
  ASSUME NEW a \in Seq(Nat), NEW b \in Seq(Nat), Increasing(a), Increasing(b),
         Before(ToSet(a), ToSet(b))
  PROVE  Increasing(a \o b) /\ ToSet(a \o b) = ToSet(a) \cup ToSet(b)
<1> DEFINE q == a \o b
<1>1. /\ Len(a) \in Nat /\ Len(b) \in Nat /\ DOMAIN a = 1 .. Len(a) /\ DOMAIN b = 1 .. Len(b)
      /\ DOMAIN q = 1 .. Len(a) + Len(b)
      /\ \A i \in DOMAIN a : q[i] = a[i]
      /\ \A i \in DOMAIN b : q[Len(a) + i] = b[i]
  OBVIOUS
<1> HIDE DEF q
<1>2. \A i \in DOMAIN q : i \in DOMAIN a \/ (i - Len(a) \in DOMAIN b /\ q[i] = b[i - Len(a)] /\ i > Len(a))
  BY <1>1
<1>3. /\ \A i \in DOMAIN a : i \in DOMAIN q /\ i <= Len(a)
      /\ \A i \in DOMAIN b : Len(a) + i \in DOMAIN q
  BY <1>1
<1>4. \A i \in DOMAIN a : a[i] \in ToSet(a)
  BY DEF ToSet
<1>5. \A i \in DOMAIN b : b[i] \in ToSet(b)
  BY DEF ToSet
<1>6. Increasing(q)
  <2>1. SUFFICES ASSUME NEW i \in DOMAIN q, NEW j \in DOMAIN q, i < j
                 PROVE  q[i] < q[j]
    BY DEF Increasing
  <2>2. CASE i \in DOMAIN a /\ j \in DOMAIN a
    BY <1>1, <2>1, <2>2 DEF Increasing
  <2>3. CASE i \in DOMAIN a /\ j \notin DOMAIN a
    BY <1>1, <1>2, <1>4, <1>5, <2>1, <2>3 DEF Before
  <2>4. CASE i \notin DOMAIN a /\ j \in DOMAIN a
    BY <1>1, <1>2, <1>3, <2>1, <2>4
  <2>5. CASE i \notin DOMAIN a /\ j \notin DOMAIN a
    <3>1. i - Len(a) < j - Len(a)
      BY <1>1, <2>1
    <3> QED BY <1>2, <2>1, <2>5, <3>1 DEF Increasing
  <2> QED BY <2>2, <2>3, <2>4, <2>5
<1>7. \A e : e \in ToSet(q) <=> e \in ToSet(a) \/ e \in ToSet(b)
  BY <1>1, <1>2, <1>3 DEF ToSet
<1> QED BY <1>6, <1>7 DEF q

LEMMA NoTexts == ToSet(<<>>) = {} /\ Increasing(<<>>)
BY EmptySeq DEF ToSet, Increasing

LEMMA OneText == ASSUME NEW x \in Nat PROVE ToSet(<<x>>) = {x} /\ Increasing(<<x>>)
<1>1. DOMAIN <<x>> = {1} /\ <<x>>[1] = x
  OBVIOUS
<1> QED BY <1>1 DEF ToSet, Increasing

-----------------------------------------------------------------------------
(* The invariant.                                                           *)
Ops(q) ==
  \A i \in DOMAIN q : /\ q[i].op = "transcribe" => ~Realtime
                      /\ q[i].op = "upstream" => Realtime
                      /\ Increasing(q[i].texts)

\* Without an upstream link there are no events.
Batch == ~Realtime => events = <<>> /\ pump = "none"

\* A text on its way to a dispatch took what was held along.
TakesHeld ==
  \A i \in DOMAIN todo :
    todo[i].op = "dispatch" /\ todo[i].texts # <<>> => held = <<>>

InPlace == Placed(texts, InTurns, ToSet(held), TextsIn(todo), TextsOf(events), refused, discarded)

Ordered ==
  /\ Leading(todo) /\ Ops(todo) /\ Batch /\ TakesHeld
  /\ Increasing(held) /\ SortedTurns /\ SortedEvents(events)
  /\ InPlace

\* Steps that move no text.
LEMMA StaysOrdered ==
  ASSUME Ordered, UNCHANGED <<held, texts, refused, discarded, events>>, SameTurns,
         Leading(todo'), Ops(todo'), TextsIn(todo') = TextsIn(todo), Batch',
         \A i \in DOMAIN todo' : todo'[i].texts = <<>> \/ \E j \in DOMAIN todo : todo'[i] = todo[j]
  PROVE  Ordered'
<1>1. TakesHeld'
  BY DEF Ordered, TakesHeld
<1> QED BY <1>1, SameTurnsKeep DEF Ordered, InPlace

\* A program without texts replaces a program without texts.
LEMMA PlainStays ==
  ASSUME Ordered, UNCHANGED <<held, texts, refused, discarded, events>>, SameTurns,
         TextsIn(todo) = {}, Plain(todo'), Ops(todo'), Batch'
  PROVE  Ordered'
<1>1. Leading(todo') /\ TextsIn(todo') = {}
  BY PlainLeads
<1>2. \A i \in DOMAIN todo' : todo'[i].texts = <<>>
  BY DEF Plain
<1> QED BY <1>1, <1>2, StaysOrdered

\* What a handler puts in front of the rest of the program.
LEMMA MessageInFront ==
  ASSUME NEW m \in Message, NEW q \in Seq(Step), Leading(q), Ops(q)
  PROVE  LET r == <<Send(m)>> \o q
         IN  /\ Leading(r) /\ Ops(r) /\ TextsIn(r) = TextsIn(q)
             /\ \A i \in DOMAIN r : r[i].texts = <<>> \/ \E j \in DOMAIN q : r[i] = q[j]
<1> DEFINE x == Send(m)
           r == <<x>> \o q
<1>0. x \in Step /\ x.op = "send" /\ x.texts = <<>>
  <2>1. Send(m) \in StepOf(Nat)
    BY StepTypes
  <2> QED BY <2>1 DEF StepOf, Step, Send
<1> HIDE DEF x
<1>1. /\ Len(q) \in Nat /\ DOMAIN q = 1 .. Len(q) /\ DOMAIN r = 1 .. Len(q) + 1
      /\ r[1] = x /\ \A i \in DOMAIN q : r[i + 1] = q[i]
  BY <1>0
<1> HIDE DEF r
<1>2. \A i \in DOMAIN r : i = 1 \/ (i - 1 \in DOMAIN q /\ r[i] = q[i - 1])
  BY <1>1
<1>3. \A i \in DOMAIN q : i + 1 \in DOMAIN r
  BY <1>1
<1>4. Leading(r)
  <2>1. SUFFICES ASSUME NEW i \in DOMAIN r, r[i].texts # <<>>
                 PROVE  r[i].op \in {"gate", "dispatch"} /\ \A j \in 1 .. i - 1 : r[j].op = "send"
    BY DEF Leading
  <2>2. i - 1 \in DOMAIN q /\ r[i] = q[i - 1]
    BY <1>0, <1>1, <1>2, <2>1
  <2>3. r[i].op \in {"gate", "dispatch"} /\ \A j \in 1 .. (i - 1) - 1 : q[j].op = "send"
    BY <2>1, <2>2 DEF Leading
  <2>4. ASSUME NEW j \in 1 .. i - 1 PROVE j = 1 \/ (j - 1 \in 1 .. (i - 1) - 1 /\ r[j] = q[j - 1])
    <3>1. j \in DOMAIN r
      BY <1>1, <2>1
    <3>2. j = 1 \/ r[j] = q[j - 1]
      BY <1>2, <3>1
    <3>3. i \in Int /\ j \in Int /\ 1 <= j /\ j <= i - 1
      BY <1>1, <2>1
    <3> QED BY <3>2, <3>3
  <2> QED BY <1>0, <1>1, <2>3, <2>4
<1>5. Ops(r)
  BY <1>0, <1>1, <1>2, NoTexts DEF Ops
<1>6. \A i \in DOMAIN r : r[i].texts = <<>> \/ \E j \in DOMAIN q : r[i] = q[j]
  BY <1>0, <1>1, <1>2
<1>7. TextsIn(r) = TextsIn(q)
  <2>1. \A e : e \in TextsIn(r) => e \in TextsIn(q)
    BY <1>6, NoTexts DEF TextsIn
  <2>2. \A e : e \in TextsIn(q) => e \in TextsIn(r)
    BY <1>1, <1>3 DEF TextsIn
  <2> QED BY <2>1, <2>2
<1> QED BY <1>4, <1>5, <1>6, <1>7 DEF r, x

-----------------------------------------------------------------------------
(* Steps without texts, as inputs leave them.                               *)
PlainStep ==
  {s \in Step : /\ s.texts = <<>>
                /\ s.op = "transcribe" => ~Realtime
                /\ s.op = "upstream" => Realtime}

LEMMA PlainSteps ==
  /\ \A m \in Message : Send(m) \in PlainStep
  /\ \A name \in {"flush", "commit"} : Do(name) \in PlainStep
  /\ ~Realtime => Do("transcribe") \in PlainStep
  /\ Realtime => \A b \in BOOLEAN : Forward(b) \in PlainStep
<1>1. StepOf(Nat) = Step
  BY DEF StepOf, Step
<1> QED BY <1>1, StepTypes DEF PlainStep, Send, Do, Forward, StepName

LEMMA PlainProgram ==
  ASSUME NEW q \in Seq(PlainStep)
  PROVE  Plain(q) /\ Ops(q)
<1>1. \A i \in DOMAIN q : q[i] \in PlainStep
  BY LenProperties, ElementOfSeq
<1> QED BY <1>1, NoTexts DEF Plain, Ops, PlainStep

LEMMA InputProgram ==
  ASSUME TypeOK, Ordered,
         \/ Reject
         \/ \E n \in 0 .. MaxPerChunk, next \in {"idle", "open"} : AudioData(n, next)
         \/ \E emitted \in BOOLEAN : SpeechEnd(emitted)
  PROVE  todo' \in Seq(PlainStep)
<1>0. \A m \in Message : <<Send(m)>> \in Seq(PlainStep) /\ Send(m) \in PlainStep
  BY PlainSteps
<1>1. CASE Reject
  BY <1>0, <1>1 DEF Reject, Message
<1>2. ASSUME NEW n \in 0 .. MaxPerChunk, NEW next \in {"idle", "open"}, AudioData(n, next)
      PROVE  todo' \in Seq(PlainStep)
  <2> DEFINE a == Repeat(n, Send("listening"))
             b == When(vad = "idle" /\ next = "open", <<Send("speech")>>)
             c == IF Realtime THEN <<Forward(n > 0 \/ "open" \in {vad, next})>>
                              ELSE Repeat(n, Do("transcribe"))
  <2>1. n \in Nat
    BY ConstantsAssumption
  <2>2. a \in Seq(PlainStep)
    BY <1>0, <2>1, RepeatType DEF Message
  <2>3. b \in Seq(PlainStep)
    <3>1. <<Send("speech")>> \in Seq(PlainStep)
      BY <1>0 DEF Message
    <3> QED BY <3>1, WhenType
  <2>4. c \in Seq(PlainStep)
    <3>1. CASE Realtime
      <4>1. Forward(n > 0 \/ "open" \in {vad, next}) \in PlainStep
        BY <3>1, PlainSteps
      <4> QED BY <3>1, <4>1
    <3>2. CASE ~Realtime
      <4>1. Do("transcribe") \in PlainStep
        BY <3>2, PlainSteps
      <4> QED BY <2>1, <3>2, <4>1, RepeatType
    <3> QED BY <3>1, <3>2
  <2>5. todo' = (a \o b) \o c
    BY <1>2 DEF AudioData
  <2> HIDE DEF a, b, c
  <2> QED BY <2>2, <2>3, <2>4, <2>5, ConcatProperties
<1>3. ASSUME NEW emitted \in BOOLEAN, SpeechEnd(emitted)
      PROVE  todo' \in Seq(PlainStep)
  <2> DEFINE a == When(link, <<Do("commit")>>)
             b == When(emitted, <<Send("listening")>>)
             c == <<Do("flush")>>
  <2>1. Do("commit") \in PlainStep /\ Do("flush") \in PlainStep
    BY PlainSteps
  <2>2. a \in Seq(PlainStep)
    <3>1. <<Do("commit")>> \in Seq(PlainStep)
      BY <2>1
    <3> QED BY <3>1, WhenType
  <2>3. b \in Seq(PlainStep)
    <3>1. <<Send("listening")>> \in Seq(PlainStep)
      BY <1>0 DEF Message
    <3> QED BY <3>1, WhenType
  <2>4. c \in Seq(PlainStep)
    BY <2>1
  <2>5. ~Realtime => <<Send("listening"), Do("transcribe")>> \in Seq(PlainStep)
    <3>1. ~Realtime => Do("transcribe") \in PlainStep
      BY PlainSteps
    <3>2. Send("listening") \in PlainStep
      BY <1>0 DEF Message
    <3> QED BY <3>1, <3>2
  <2>6. \/ todo' = (a \o b) \o c
        \/ ~Realtime /\ todo' = <<Send("listening"), Do("transcribe")>>
        \/ todo' = c
    BY <1>3 DEF SpeechEnd
  <2> HIDE DEF a, b, c
  <2>7. (a \o b) \o c \in Seq(PlainStep)
    BY <2>2, <2>3, <2>4, ConcatProperties
  <2> QED BY <2>4, <2>5, <2>6, <2>7
<1> QED BY <1>1, <1>2, <1>3

LEMMA EmptyProgram == Plain(<<>>) /\ Ops(<<>>)
BY EmptySeq DEF Plain, Ops

\* What is dropped with a session, or with a link, is discarded.
LEMMA DropOrdered ==
  ASSUME TypeOK, Ordered, DropSession, todo = <<>>, texts' = texts,
         todo' = <<>> \/ \E m \in Message : todo' = <<Send(m)>>
  PROVE  Ordered'
<1>1. todo' \in Seq(PlainStep) /\ todo \in Seq(PlainStep)
  <2>1. \A m \in Message : <<Send(m)>> \in Seq(PlainStep)
    BY PlainSteps
  <2> QED BY <2>1, EmptySeq
<1>2. Plain(todo') /\ Ops(todo') /\ Leading(todo') /\ TextsIn(todo') = {} /\ TextsIn(todo) = {}
  BY <1>1, PlainProgram, PlainLeads
<1>3. /\ AbortTurn /\ held' = <<>> /\ pump' = "none" /\ events' = <<>>
      /\ discarded' = discarded \cup ToSet(held) \cup TextsOf(events) /\ refused' = refused
  BY DEF DropSession, AbortTurn
<1>4. SortedTurns' /\ InTurns' = InTurns
  BY <1>3, AbortSame, SameTurnsKeep DEF Ordered
<1>5. Placed(texts, InTurns, {}, {}, {}, refused, discarded \cup ToSet(held) \cup TextsOf(events))
  BY <1>2, Dropped DEF Ordered, InPlace, TypeOK
<1>6. InPlace'
  BY <1>2, <1>3, <1>4, <1>5, EventsNone, NoTexts DEF InPlace
<1>7. Batch' /\ TakesHeld'
  BY <1>3 DEF Batch, TakesHeld
<1> QED BY <1>2, <1>3, <1>4, <1>6, <1>7, NoTexts, EventsNone DEF Ordered

LEMMA FlushOrdered ==
  ASSUME TypeOK, Ordered, FlushHeld, UNCHANGED <<events, pump, texts, discarded>>,
         TextsIn(todo) = {}, Plain(todo'), Ops(todo')
  PROVE  Ordered'
<1>1. Leading(todo') /\ TextsIn(todo') = {}
  BY PlainLeads
<1>2. TakesHeld' /\ Batch' /\ held' = <<>>
  BY DEF FlushHeld, TakesHeld, Batch, Ordered
<1>3. Before(InTurns, ToSet(held)) /\ Increasing(held) /\ held \in Seq(Nat)
  BY DEF Ordered, InPlace, Placed, TypeOK
<1>4. CASE held = <<>>
  <2>1. UNCHANGED <<tasks, refused, held>>
    BY <1>4 DEF FlushHeld, turnVars
  <2>2. SameTurns
    BY <2>1 DEF SameTurns
  <2> QED BY <1>2, <2>1, <2>2, PlainStays
<1>5. CASE held # <<>>
  <2>1. /\ SortedTurns'
        /\ \/ InTurns' = InTurns /\ refused' = refused \cup ToSet(held)
           \/ InTurns' = InTurns \cup ToSet(held) /\ refused' = refused
    BY <1>3, <1>5, DispatchTexts DEF FlushHeld, Ordered
  <2>2. /\ Placed(texts, InTurns \cup ToSet(held), {}, {}, TextsOf(events), refused, discarded)
        /\ Placed(texts, InTurns, {}, {}, TextsOf(events), refused \cup ToSet(held), discarded)
    BY <1>1, Dispatched DEF Ordered, InPlace, TypeOK
  <2>3. InPlace'
    BY <1>1, <1>2, <2>1, <2>2, NoTexts DEF InPlace
  <2> QED BY <1>1, <1>2, <2>1, <2>3, NoTexts DEF Ordered
<1> QED BY <1>4, <1>5

\* A program with one step that carries texts.
LEMMA CarrierProgram ==
  ASSUME NEW m \in Message, NEW s \in Step, NEW r \in Seq(Step), Plain(r), Ops(r),
         s.op \in {"gate", "dispatch"}, Increasing(s.texts), NEW q, Carrying(q, m, s, r)
  PROVE  /\ Leading(q) /\ Ops(q) /\ TextsIn(q) = ToSet(s.texts)
         /\ \A i \in DOMAIN q : q[i].texts # <<>> => q[i] = s
<1>1. /\ Leading(q) /\ TextsIn(q) = ToSet(s.texts)
      /\ \A i \in DOMAIN q : q[i].texts \in {<<>>, s.texts}
      /\ \A i \in DOMAIN q : q[i] = s \/ q[i].texts = <<>>
      /\ \A i \in DOMAIN q : q[i] = s \/ q[i].op = "send" \/ \E j \in DOMAIN r : q[i] = r[j]
  BY CarrierLeads
<1>2. \A i \in DOMAIN q : Increasing(q[i].texts)
  BY <1>1, NoTexts
<1>3. \A i \in DOMAIN q : /\ q[i].op = "transcribe" => ~Realtime
                          /\ q[i].op = "upstream" => Realtime
  BY <1>1 DEF Ops
<1> QED BY <1>1, <1>2, <1>3 DEF Ops

LEMMA TwoSteps ==
  ASSUME NEW a \in Step, NEW b \in Step
  PROVE  /\ <<a>> \o <<b>> = <<a, b>> \o <<>>
         /\ \A r \in Seq(Step) : <<a>> \o <<b>> \o r = <<a, b>> \o r
<1>1. <<a>> \o <<b>> = <<a, b>>
  <2> DEFINE q == <<a>> \o <<b>>
             r == <<a, b>>
  <2>1. q \in Seq(Step) /\ Len(q) = 2 /\ q[1] = a /\ q[2] = b
    OBVIOUS
  <2>2. r \in Seq(Step) /\ Len(r) = 2 /\ r[1] = a /\ r[2] = b
    OBVIOUS
  <2>3. \A i \in 1 .. 2 : i = 1 \/ i = 2
    OBVIOUS
  <2> HIDE DEF q, r
  <2>4. q = r
    BY <2>1, <2>2, <2>3, SeqEqual
  <2> QED BY <2>4 DEF q, r
<1>2. <<a, b>> \in Seq(Step) /\ <<a, b>> \o <<>> = <<a, b>>
  OBVIOUS
<1> QED BY <1>1, <1>2

LEMMA GateStep ==
  ASSUME NEW x \in Nat, NEW b \in BOOLEAN
  PROVE  /\ Gate(x, b) \in Step /\ Gate(x, b).op = "gate" /\ Gate(x, b).texts = <<x>>
<1>1. Gate(x, b) \in StepOf(Nat)
  BY StepTypes
<1> QED BY <1>1 DEF StepOf, Step, Gate

LEMMA DispatchStep ==
  ASSUME NEW all \in Seq(Nat)
  PROVE  /\ Dispatch(all) \in Step /\ Dispatch(all).op = "dispatch" /\ Dispatch(all).texts = all
<1>1. Dispatch(all) \in StepOf(Nat)
  BY StepTypes
<1> QED BY <1>1 DEF StepOf, Step, Dispatch

LEMMA EventOrdered ==
  ASSUME TypeOK, Ordered, UpstreamEvent
  PROVE  Ordered'
<1> DEFINE ev == Head(events)
           x == ev.text
           b == ev.end
<1>1. /\ todo = <<>> /\ events # <<>> /\ events \in Seq(Event)
      /\ UNCHANGED <<held, tasks, refused, texts>>
  BY DEF UpstreamEvent, Idle, TypeOK, gateVars, turnVars
<1>2. ev \in Event /\ x \in Nat /\ b \in BOOLEAN
  <2>1. ev \in Event
    BY <1>1, HeadTailProperties
  <2> QED BY <2>1 DEF Event
<1>3. SameTurns /\ SortedTurns' /\ InTurns' = InTurns
  BY <1>1, SameTurnsKeep DEF SameTurns, Ordered
<1>4. \A m \in Message : Plain(<<Send(m)>>) /\ Ops(<<Send(m)>>)
  <2>1. \A m \in Message : <<Send(m)>> \in Seq(PlainStep)
    BY PlainSteps
  <2> QED BY <2>1, PlainProgram
<1>5. Plain(todo) /\ Ops(todo) /\ Leading(todo) /\ TextsIn(todo) = {}
  BY <1>1, EmptyProgram, PlainLeads
<1>6. Placed(texts, InTurns, ToSet(held), {}, TextsOf(events), refused, discarded)
  BY <1>5 DEF Ordered, InPlace
<1>7. /\ SortedEvents(Tail(events))
      /\ x = 0 => TextsOf(Tail(events)) = TextsOf(events)
      /\ x # 0 => /\ x \in TextsOf(events)
                  /\ TextsOf(Tail(events)) = TextsOf(events) \ {x}
                  /\ \A y \in TextsOf(Tail(events)) : x < y
  BY <1>1, EventTaken DEF Ordered
<1>8. Realtime
  BY <1>1 DEF Ordered, Batch
<1> HIDE DEF x, b
<1>9. ASSUME events' = Tail(events), discarded' = discarded, x = 0, Plain(todo'), Ops(todo')
      PROVE  Ordered'
  <2>1. Leading(todo') /\ TextsIn(todo') = {}
    BY <1>9, PlainLeads
  <2>2. TakesHeld'
    BY <1>9 DEF Plain, TakesHeld
  <2>3. InPlace'
    BY <1>1, <1>3, <1>6, <1>7, <1>9, <2>1 DEF InPlace
  <2>4. SortedEvents(events') /\ Increasing(held')
    BY <1>1, <1>7, <1>9 DEF Ordered
  <2> QED BY <1>3, <1>8, <1>9, <2>1, <2>2, <2>3, <2>4 DEF Ordered, Batch
<1>10. ASSUME events' = Tail(events), discarded' = discarded, x # 0,
              todo' = <<Send("transcript")>> \o <<Gate(x, b)>>
       PROVE  Ordered'
  <2> DEFINE s == Gate(x, b)
             q == <<Send("transcript"), s>> \o <<>>
  <2>1. s \in Step /\ s.op = "gate" /\ s.texts = <<x>> /\ <<x>> # <<>>
    BY <1>2, GateStep
  <2>2. todo' = q
    <3>1. Send("transcript") \in Step
      BY PlainSteps DEF PlainStep, Message
    <3> QED BY <1>10, <2>1, <3>1, TwoSteps
  <2>3. ToSet(s.texts) = {x} /\ Increasing(s.texts)
    BY <1>2, <2>1, OneText
  <2> HIDE DEF s
  <2>4. <<>> \in Seq(Step) /\ "transcript" \in Message /\ Carrying(q, "transcript", s, <<>>)
    BY EmptySeq DEF Message, Carrying
  <2> HIDE DEF q
  <2>5. /\ Leading(q) /\ Ops(q) /\ TextsIn(q) = {x}
        /\ \A i \in DOMAIN q : q[i].texts # <<>> => q[i] = s
    <3>1. s.op \in {"gate", "dispatch"} /\ Plain(<<>>) /\ Ops(<<>>)
      BY <2>1, EmptyProgram
    <3> DEFINE none == <<>>
    <3>2. /\ none \in Seq(Step) /\ Plain(none) /\ Ops(none) /\ "transcript" \in Message
          /\ Carrying(q, "transcript", s, none)
      BY <2>4, <3>1
    <3> HIDE DEF none
    <3>3. /\ Leading(q) /\ Ops(q) /\ TextsIn(q) = ToSet(s.texts)
          /\ \A i \in DOMAIN q : q[i].texts # <<>> => q[i] = s
      BY <2>1, <2>3, <3>1, <3>2, CarrierProgram
    <3> QED BY <2>3, <3>3
  <2>6. TakesHeld'
    BY <2>1, <2>2, <2>5 DEF TakesHeld
  <2>7. Placed(texts, InTurns, ToSet(held), {x}, TextsOf(events) \ {x}, refused, discarded)
    BY <1>6, <1>7, <1>10, Received DEF TypeOK
  <2>8. InPlace'
    BY <1>1, <1>3, <1>7, <1>10, <2>2, <2>5, <2>7 DEF InPlace
  <2>9. SortedEvents(events') /\ Increasing(held')
    BY <1>1, <1>7, <1>10 DEF Ordered
  <2> QED BY <1>3, <1>8, <2>2, <2>5, <2>6, <2>8, <2>9 DEF Ordered, Batch
<1>11. ASSUME TeardownUpstream, todo' = <<Send("error")>>, ev.kind = "err"
       PROVE  Ordered'
  <2>1. events' = <<>> /\ discarded' = discarded \cup TextsOf(events)
    BY <1>11 DEF TeardownUpstream
  <2>2. Plain(todo') /\ Ops(todo')
    BY <1>4, <1>11 DEF Message
  <2>3. Leading(todo') /\ TextsIn(todo') = {}
    BY <2>2, PlainLeads
  <2>4. TakesHeld'
    BY <2>2 DEF Plain, TakesHeld
  <2>5. Placed(texts, InTurns, ToSet(held), {}, {}, refused, discarded \cup TextsOf(events))
    BY <1>6, Dropped DEF TypeOK
  <2>6. InPlace'
    BY <1>1, <1>3, <2>1, <2>3, <2>5, EventsNone DEF InPlace
  <2>7. SortedEvents(events') /\ Increasing(held')
    BY <1>1, <2>1, EventsNone DEF Ordered
  <2> QED BY <1>3, <1>8, <2>2, <2>3, <2>4, <2>6, <2>7 DEF Ordered, Batch
<1>12. x # 0 => ev.kind = "completed"
  BY <1>1, EventTaken DEF Ordered, x
<1>13. CASE ev.kind \in {"delta", "cleared"}
  <2>1. events' = Tail(events) /\ discarded' = discarded /\ todo' \in {todo, <<Send("transcript")>>}
    BY <1>13 DEF UpstreamEvent
  <2> QED BY <1>4, <1>5, <1>9, <1>12, <1>13, <2>1 DEF Message
<1>14. CASE ev.kind = "completed"
  <2>1. /\ events' = Tail(events) /\ discarded' = discarded
        /\ todo' = <<Send("transcript")>> \o When(x # 0, <<Gate(x, b)>>)
    BY <1>14 DEF UpstreamEvent, x, b
  <2>2. CASE x # 0
    BY <1>10, <2>1, <2>2 DEF When
  <2>3. CASE x = 0
    <3>1. Send("transcript") \in Step
      BY PlainSteps DEF PlainStep, Message
    <3>2. todo' = <<Send("transcript")>>
      BY <2>1, <2>3, <3>1 DEF When
    <3> QED BY <1>4, <1>9, <2>1, <2>3, <3>2 DEF Message
  <2> QED BY <2>2, <2>3
<1>15. CASE ev.kind = "err"
  BY <1>11, <1>15 DEF UpstreamEvent
<1> QED BY <1>2, <1>13, <1>14, <1>15 DEF Event

LEMMA InputOrdered ==
  ASSUME TypeOK, Ordered, Input
  PROVE  Ordered'
<1>1. todo = <<>> /\ Plain(todo) /\ TextsIn(todo) = {}
  <2>1. todo = <<>>
    BY DEF Input, Reject, SessionStart, AudioData, SpeechEnd, FlushDeadline, UpstreamEvent,
           Leave, Idle
  <2> QED BY <2>1, EmptyProgram, PlainLeads
<1>2. CASE \/ Reject
           \/ \E n \in 0 .. MaxPerChunk, next \in {"idle", "open"} : AudioData(n, next)
           \/ \E emitted \in BOOLEAN : SpeechEnd(emitted)
  <2>1. Plain(todo') /\ Ops(todo')
    BY <1>2, InputProgram, PlainProgram
  <2>2. UNCHANGED <<held, texts, refused, discarded, events, pump, tasks>>
    BY <1>2 DEF Reject, AudioData, SpeechEnd, connVars, gateVars, turnVars, linkVars
  <2>3. SameTurns /\ Batch'
    BY <2>2 DEF SameTurns, Batch, Ordered
  <2> QED BY <1>1, <2>1, <2>2, <2>3, PlainStays
<1>3. ASSUME NEW hasId \in DeviceIds, SessionStart(hasId) PROVE Ordered'
  BY <1>1, <1>3, DropOrdered DEF SessionStart, Message
<1>4. CASE FlushDeadline
  <2>1. FlushHeld /\ UNCHANGED <<events, pump, texts, discarded, todo>>
    BY <1>4 DEF FlushDeadline, linkVars
  <2> QED BY <1>1, <2>1, EmptyProgram, FlushOrdered
<1>5. CASE UpstreamEvent
  BY <1>5, EventOrdered
<1>6. CASE Leave
  BY <1>1, <1>6, DropOrdered DEF Leave, EndLoop
<1> QED BY <1>2, <1>3, <1>4, <1>5, <1>6 DEF Input

\* The rest of a handler's program, after the step it takes.
LEMMA HandlerRest ==
  ASSUME TypeOK, Ordered, todo # <<>>
  PROVE  /\ Tail(todo) \in Seq(Step) /\ Leading(Tail(todo)) /\ Ops(Tail(todo))
         /\ \A i \in DOMAIN Tail(todo) : \E j \in DOMAIN todo : Tail(todo)[i] = todo[j]
         /\ Head(todo) \in Step /\ Increasing(Head(todo).texts)
         /\ \E j \in DOMAIN todo : Head(todo) = todo[j]
         /\ Head(todo).op # "send" =>
              Plain(Tail(todo)) /\ TextsIn(Tail(todo)) = {} /\ TextsIn(todo) = ToSet(Head(todo).texts)
         /\ Head(todo).op \notin {"gate", "dispatch"} => TextsIn(Tail(todo)) = TextsIn(todo)
<1>1. todo \in Seq(Step) /\ Leading(todo) /\ Ops(todo)
  BY DEF TypeOK, Ordered
<1>2. /\ Tail(todo) \in Seq(Step) /\ Leading(Tail(todo))
      /\ \A i \in DOMAIN Tail(todo) : \E j \in DOMAIN todo : Tail(todo)[i] = todo[j]
      /\ Head(todo).op # "send" => Plain(Tail(todo)) /\ TextsIn(todo) = ToSet(Head(todo).texts)
      /\ Head(todo).op \notin {"gate", "dispatch"} => TextsIn(Tail(todo)) = TextsIn(todo)
  BY <1>1, LeadingTail
<1>3. Head(todo) = todo[1] /\ 1 \in DOMAIN todo /\ Head(todo) \in Step
  BY <1>1
<1>4. Ops(Tail(todo))
  BY <1>1, <1>2 DEF Ops
<1>5. Plain(Tail(todo)) => TextsIn(Tail(todo)) = {}
  BY PlainLeads
<1>6. Increasing(Head(todo).texts)
  BY <1>1, <1>3 DEF Ops
<1> QED BY <1>2, <1>3, <1>4, <1>5, <1>6

LEMMA TranscribeOrdered ==
  ASSUME TypeOK, Ordered, Transcribe
  PROVE  Ordered'
<1> DEFINE rest == Tail(todo)
<1>1. /\ todo # <<>> /\ Head(todo).op = "transcribe"
      /\ UNCHANGED <<held, tasks, refused, discarded, events, pump>>
  BY DEF Transcribe, Handling, gateVars, turnVars, linkVars
<1>2. /\ rest \in Seq(Step) /\ Leading(rest) /\ Ops(rest) /\ Plain(rest)
      /\ TextsIn(rest) = {} /\ TextsIn(todo) = {}
      /\ \E j \in DOMAIN todo : Head(todo) = todo[j]
  BY <1>1, HandlerRest
<1>3. ~Realtime
  BY <1>1, <1>2 DEF Ordered, Ops
<1>4. SameTurns /\ SortedTurns' /\ InTurns' = InTurns
  BY <1>1, SameTurnsKeep DEF SameTurns, Ordered
<1>5. Batch'
  BY <1>1 DEF Batch, Ordered
<1> HIDE DEF rest
<1>6. ASSUME NEW answer \in {"error", "transcript"}, todo' = <<Send(answer)>> \o rest, texts' = texts
      PROVE  Ordered'
  <2>1. answer \in Message
    BY DEF Message
  <2>2. /\ Leading(todo') /\ Ops(todo') /\ TextsIn(todo') = {}
        /\ \A i \in DOMAIN todo' : todo'[i].texts = <<>> \/ \E j \in DOMAIN rest : todo'[i] = rest[j]
    BY <1>2, <1>6, <2>1, MessageInFront
  <2>3. \A i \in DOMAIN todo' : todo'[i].texts = <<>>
    BY <1>2, <2>2 DEF Plain
  <2> QED BY <1>1, <1>2, <1>4, <1>5, <1>6, <2>2, <2>3, StaysOrdered
<1>7. ASSUME NEW end \in BOOLEAN, texts' = texts + 1,
             todo' = <<Send("transcript"), Gate(texts + 1, end)>> \o rest
      PROVE  Ordered'
  <2> DEFINE s == Gate(texts + 1, end)
  <2>1. texts + 1 \in Nat /\ texts \in Nat
    BY DEF TypeOK
  <2>2. s \in Step /\ s.op = "gate" /\ s.texts = <<texts + 1>>
    BY <2>1, GateStep
  <2>3. ToSet(s.texts) = {texts + 1} /\ Increasing(s.texts)
    BY <2>1, <2>2, OneText
  <2>4. todo' = <<Send("transcript"), s>> \o rest
    BY <1>7
  <2> HIDE DEF s
  <2>5. "transcript" \in Message /\ Carrying(todo', "transcript", s, rest)
    BY <2>4 DEF Message, Carrying
  <2>6. /\ Leading(todo') /\ Ops(todo') /\ TextsIn(todo') = {texts + 1}
        /\ \A i \in DOMAIN todo' : todo'[i].texts # <<>> => todo'[i] = s
    <3>1. s.op \in {"gate", "dispatch"} /\ rest \in Seq(Step) /\ Plain(rest) /\ Ops(rest)
      BY <1>2, <2>2
    <3>2. /\ Leading(todo') /\ Ops(todo') /\ TextsIn(todo') = ToSet(s.texts)
          /\ \A i \in DOMAIN todo' : todo'[i].texts # <<>> => todo'[i] = s
      BY <2>2, <2>3, <2>5, <3>1, CarrierProgram
    <3> QED BY <2>3, <3>2
  <2>7. TakesHeld'
    BY <2>2, <2>6 DEF TakesHeld
  <2>8. TextsOf(events) = {}
    BY <1>3, EventsNone DEF Ordered, Batch
  <2>9. Placed(texts + 1, InTurns, ToSet(held), {texts + 1}, TextsOf(events), refused, discarded)
    BY <1>2, <2>1, <2>8, NewText DEF Ordered, InPlace
  <2>10. InPlace'
    BY <1>1, <1>4, <1>7, <2>6, <2>9 DEF InPlace
  <2> QED BY <1>1, <1>4, <1>5, <2>6, <2>7, <2>10 DEF Ordered
<1> QED BY <1>6, <1>7 DEF Transcribe, rest

LEMMA GateOrdered ==
  ASSUME TypeOK, Ordered, GateTranscript
  PROVE  Ordered'
<1> DEFINE rest == Tail(todo)
           all == held \o Head(todo).texts
<1>1. /\ todo # <<>> /\ Head(todo).op = "gate"
      /\ UNCHANGED <<tasks, refused, discarded, events, pump, texts>>
  BY DEF GateTranscript, Handling, turnVars, linkVars
<1>2. /\ rest \in Seq(Step) /\ Leading(rest) /\ Ops(rest) /\ Plain(rest)
      /\ TextsIn(rest) = {} /\ TextsIn(todo) = ToSet(Head(todo).texts)
      /\ Head(todo).texts \in Seq(Nat) /\ Increasing(Head(todo).texts)
  BY <1>1, HandlerRest DEF Step
<1>3. SameTurns /\ SortedTurns' /\ InTurns' = InTurns
  BY <1>1, SameTurnsKeep DEF SameTurns, Ordered
<1>4. Batch'
  BY <1>1 DEF Batch, Ordered
<1>5. held \in Seq(Nat) /\ Increasing(held) /\ Before(ToSet(held), ToSet(Head(todo).texts))
  BY <1>2 DEF TypeOK, Ordered, InPlace, Placed
<1>6. /\ all \in Seq(Nat) /\ Increasing(all)
      /\ ToSet(all) = ToSet(held) \cup TextsIn(todo)
  BY <1>2, <1>5, JoinTexts, ConcatProperties
<1>7. /\ Placed(texts, InTurns, {}, ToSet(all), TextsOf(events), refused, discarded)
      /\ Placed(texts, InTurns, ToSet(all), {}, TextsOf(events), refused, discarded)
  <2>1. texts \in Nat
    BY DEF TypeOK
  <2> QED BY <1>6, <2>1, Gated DEF Ordered, InPlace
<1> HIDE DEF rest, all
<1>8. ASSUME held' = all, todo' = rest PROVE Ordered'
  <2>1. InPlace'
    BY <1>1, <1>2, <1>3, <1>7, <1>8 DEF InPlace
  <2>2. TakesHeld'
    BY <1>2, <1>8 DEF TakesHeld, Plain
  <2> QED BY <1>1, <1>2, <1>3, <1>4, <1>6, <1>8, <2>1, <2>2 DEF Ordered
<1>9. ASSUME held' = <<>>, todo' = When(held # <<>>, <<Send("transcript")>>) \o <<Dispatch(all)>> \o rest
      PROVE  Ordered'
  <2> DEFINE s == Dispatch(all)
  <2>1. s \in Step /\ s.op = "dispatch" /\ s.texts = all
    BY <1>6, DispatchStep
  <2>2. todo' = When(held # <<>>, <<Send("transcript")>>) \o <<s>> \o rest
    BY <1>9
  <2>3. "transcript" \in Message /\ Send("transcript") \in Step
    BY PlainSteps DEF PlainStep, Message
  <2> HIDE DEF s
  <2>4. <<s>> \in Seq(Step) /\ <<>> \o <<s>> = <<s>>
    BY <2>1
  <2>5. todo' \in {<<s>> \o rest, <<Send("transcript"), s>> \o rest}
    BY <1>2, <2>1, <2>2, <2>3, <2>4, TwoSteps DEF When
  <2>6. /\ Leading(todo') /\ Ops(todo') /\ TextsIn(todo') = ToSet(all)
    <3>1. s.op \in {"gate", "dispatch"} /\ Increasing(s.texts)
      BY <1>6, <2>1
    <3>2. Carrying(todo', "transcript", s, rest)
      BY <2>5 DEF Carrying
    <3> QED BY <1>2, <2>1, <2>3, <3>1, <3>2, CarrierProgram
  <2>7. TakesHeld'
    BY <1>9 DEF TakesHeld
  <2>8. InPlace'
    BY <1>1, <1>3, <1>7, <1>9, <2>6, NoTexts DEF InPlace
  <2> QED BY <1>1, <1>3, <1>4, <1>9, <2>6, <2>7, <2>8, NoTexts DEF Ordered
<1> QED BY <1>8, <1>9 DEF GateTranscript, rest, all

LEMMA DispatchOrdered ==
  ASSUME TypeOK, Ordered, HandlerDispatch
  PROVE  Ordered'
<1> DEFINE all == Head(todo).texts
<1>1. /\ todo # <<>> /\ Head(todo).op = "dispatch" /\ todo' = Tail(todo) /\ DispatchTurn(all)
      /\ UNCHANGED <<held, discarded, events, pump, texts>>
  BY DEF HandlerDispatch, Handling, gateVars, linkVars
<1>2. /\ Leading(todo') /\ Ops(todo') /\ Plain(todo') /\ TextsIn(todo') = {}
      /\ TextsIn(todo) = ToSet(all) /\ all \in Seq(Nat) /\ Increasing(all)
      /\ \E j \in DOMAIN todo : Head(todo) = todo[j]
  BY <1>1, HandlerRest DEF Step
<1>3. all # <<>> => held = <<>>
  BY <1>1, <1>2 DEF Ordered, TakesHeld
<1>4. /\ SortedTurns'
      /\ \/ InTurns' = InTurns /\ refused' = refused \cup ToSet(all)
         \/ InTurns' = InTurns \cup ToSet(all) /\ refused' = refused
  BY <1>1, <1>2, DispatchTexts DEF Ordered, InPlace, Placed
<1>5. InPlace'
  <2>1. CASE all = <<>>
    <3>1. ToSet(all) = {}
      BY <2>1, NoTexts
    <3>2. InTurns' = InTurns /\ refused' = refused
      BY <1>4, <3>1
    <3> QED BY <1>1, <1>2, <3>1, <3>2 DEF Ordered, InPlace
  <2>2. CASE all # <<>>
    <3>1. ToSet(held) = {}
      BY <1>3, <2>2, NoTexts
    <3>2. texts \in Nat
      BY DEF TypeOK
    <3>3. Placed(texts, InTurns, {}, ToSet(all), TextsOf(events), refused, discarded)
      BY <1>2, <3>1 DEF Ordered, InPlace
    <3>4. /\ Placed(texts, InTurns \cup ToSet(all), {}, {}, TextsOf(events), refused, discarded)
          /\ Placed(texts, InTurns, {}, {}, TextsOf(events), refused \cup ToSet(all), discarded)
      BY <3>2, <3>3, Dispatched
    <3> QED BY <1>1, <1>2, <1>4, <3>1, <3>4 DEF InPlace
  <2> QED BY <2>1, <2>2
<1>6. TakesHeld' /\ Batch'
  BY <1>1, <1>2 DEF TakesHeld, Plain, Batch, Ordered
<1> QED BY <1>1, <1>2, <1>4, <1>5, <1>6 DEF Ordered

LEMMA ForwardOrdered ==
  ASSUME TypeOK, Ordered, ForwardAudio
  PROVE  Ordered'
<1> DEFINE rest == Tail(todo)
<1>1. /\ todo # <<>> /\ Head(todo).op = "upstream"
      /\ UNCHANGED <<held, tasks, refused, texts>>
  BY DEF ForwardAudio, Handling, gateVars, turnVars
<1>2. /\ rest \in Seq(Step) /\ Leading(rest) /\ Ops(rest) /\ Plain(rest)
      /\ TextsIn(rest) = {} /\ TextsIn(todo) = {}
      /\ \E j \in DOMAIN todo : Head(todo) = todo[j]
  BY <1>1, HandlerRest
<1>3. Realtime
  BY <1>1, <1>2 DEF Ordered, Ops
<1>4. SameTurns /\ SortedTurns' /\ InTurns' = InTurns
  BY <1>1, SameTurnsKeep DEF SameTurns, Ordered
<1>5. Batch'
  BY <1>3 DEF Batch
<1> HIDE DEF rest
<1>6. ASSUME todo' \in {rest, <<Send("error")>> \o rest}, UNCHANGED <<events, discarded>>
      PROVE  Ordered'
  <2>1. "error" \in Message
    BY DEF Message
  <2>2. \A i \in DOMAIN rest : rest[i].texts = <<>>
    BY <1>2 DEF Plain
  <2>3. CASE todo' = rest
    BY <1>1, <1>2, <1>4, <1>5, <1>6, <2>2, <2>3, StaysOrdered
  <2>4. CASE todo' = <<Send("error")>> \o rest
    <3>1. /\ Leading(todo') /\ Ops(todo') /\ TextsIn(todo') = {}
          /\ \A i \in DOMAIN todo' : todo'[i].texts = <<>> \/ \E j \in DOMAIN rest : todo'[i] = rest[j]
      BY <1>2, <2>1, <2>4, MessageInFront
    <3>2. \A i \in DOMAIN todo' : todo'[i].texts = <<>>
      BY <2>2, <3>1
    <3> QED BY <1>1, <1>2, <1>4, <1>5, <1>6, <3>1, <3>2, StaysOrdered
  <2> QED BY <1>6, <2>3, <2>4
<1>7. ASSUME todo' = rest, events' = <<>>, discarded' = discarded \cup TextsOf(events)
      PROVE  Ordered'
  <2>1. texts \in Nat
    BY DEF TypeOK
  <2>2. Placed(texts, InTurns, ToSet(held), {}, {}, refused, discarded \cup TextsOf(events))
    BY <1>2, <2>1, Dropped DEF Ordered, InPlace
  <2>3. InPlace'
    BY <1>1, <1>2, <1>4, <1>7, <2>2, EventsNone DEF InPlace
  <2>4. TakesHeld'
    BY <1>2, <1>7 DEF TakesHeld, Plain
  <2> QED BY <1>1, <1>2, <1>4, <1>5, <1>7, <2>3, <2>4, EventsNone DEF Ordered
<1>8. \/ todo' \in {rest, <<Send("error")>> \o rest} /\ UNCHANGED <<events, discarded>>
      \/ todo' = rest /\ events' = <<>> /\ discarded' = discarded \cup TextsOf(events)
  BY DEF ForwardAudio, rest
<1> QED BY <1>6, <1>7, <1>8

LEMMA HandlerOrdered ==
  ASSUME TypeOK, Ordered, Handler
  PROVE  Ordered'
<1>1. ASSUME todo # <<>>, Head(todo).op \notin {"gate", "dispatch"}, todo' = Tail(todo),
             UNCHANGED <<held, texts, refused, discarded, events, pump, tasks>>
      PROVE  Ordered'
  <2>1. /\ Leading(todo') /\ Ops(todo') /\ TextsIn(todo') = TextsIn(todo)
        /\ \A i \in DOMAIN todo' : \E j \in DOMAIN todo : todo'[i] = todo[j]
    BY <1>1, HandlerRest
  <2>2. SameTurns /\ Batch'
    BY <1>1 DEF SameTurns, Batch, Ordered
  <2> QED BY <1>1, <2>1, <2>2, StaysOrdered
<1>2. CASE HandlerSend
  BY <1>1, <1>2 DEF HandlerSend, Handling, gateVars, turnVars, linkVars
<1>3. CASE CommitAudio
  BY <1>1, <1>3 DEF CommitAudio, Handling, gateVars, turnVars
<1>4. CASE HandlerFlush
  <2>1. /\ todo # <<>> /\ Head(todo).op = "flush" /\ todo' = Tail(todo) /\ FlushHeld
        /\ UNCHANGED <<events, pump, texts, discarded>>
    BY <1>4 DEF HandlerFlush, Handling, linkVars
  <2>2. Plain(todo') /\ Ops(todo') /\ TextsIn(todo) = {}
    BY <2>1, HandlerRest
  <2> QED BY <2>1, <2>2, FlushOrdered
<1> QED BY <1>2, <1>3, <1>4, TranscribeOrdered, GateOrdered, DispatchOrdered, ForwardOrdered
        DEF Handler

LEMMA UpstreamOrdered ==
  ASSUME TypeOK, Ordered, Upstream
  PROVE  Ordered'
<1>1. /\ pump = "live" /\ events \in Seq(Event) /\ texts \in Nat
      /\ UNCHANGED <<held, tasks, refused, todo, discarded>>
  BY DEF Upstream, UpstreamSpeaks, PumpDies, PumpStep, TypeOK, gateVars, turnVars
<1>2. Realtime
  BY <1>1 DEF Ordered, Batch
<1>3. SameTurns /\ SortedTurns' /\ InTurns' = InTurns
  BY <1>1, SameTurnsKeep DEF SameTurns, Ordered
<1>4. TakesHeld' /\ Batch'
  BY <1>1, <1>2 DEF TakesHeld, Batch, Ordered
<1>5. ASSUME NEW kind \in {"delta", "completed", "cleared", "err"}, texts' = texts,
             events' = Append(events, [kind |-> kind, text |-> 0, end |-> FALSE])
      PROVE  Ordered'
  <2> DEFINE ev == [kind |-> kind, text |-> 0, end |-> FALSE]
  <2>1. ev \in Event /\ ev.text = 0
    BY DEF Event
  <2>2. events' = Append(events, ev)
    BY <1>5
  <2> HIDE DEF ev
  <2>3. SortedEvents(events') /\ TextsOf(events') = TextsOf(events) \cup ({0} \ {0})
    BY <1>1, <2>1, <2>2, EventAdded DEF Ordered
  <2>4. TextsOf(events') = TextsOf(events)
    BY <2>3
  <2>5. InPlace'
    BY <1>1, <1>3, <1>5, <2>4 DEF InPlace, Ordered
  <2> QED BY <1>1, <1>3, <1>4, <2>3, <2>5 DEF Ordered
<1>6. ASSUME NEW end \in BOOLEAN, texts' = texts + 1,
             events' = Append(events, [kind |-> "completed", text |-> texts + 1, end |-> end])
      PROVE  Ordered'
  <2> DEFINE ev == [kind |-> "completed", text |-> texts + 1, end |-> end]
  <2>1. ev \in Event /\ ev.text = texts + 1 /\ ev.kind = "completed"
    BY <1>1 DEF Event
  <2>2. events' = Append(events, ev)
    BY <1>6
  <2> HIDE DEF ev
  <2>3. \A y \in TextsOf(events) : y < texts + 1
    BY <1>1 DEF Ordered, InPlace, Placed
  <2>4. SortedEvents(events') /\ TextsOf(events') = TextsOf(events) \cup ({texts + 1} \ {0})
    BY <1>1, <2>1, <2>2, <2>3, EventAdded DEF Ordered
  <2>5. TextsOf(events') = TextsOf(events) \cup {texts + 1}
    <3>1. texts + 1 # 0
      BY <1>1
    <3> QED BY <2>4, <3>1
  <2>6. Placed(texts + 1, InTurns, ToSet(held), TextsIn(todo), TextsOf(events) \cup {texts + 1},
               refused, discarded)
    BY <1>1, NewText DEF Ordered, InPlace
  <2>7. InPlace'
    BY <1>1, <1>3, <1>6, <2>5, <2>6 DEF InPlace
  <2> QED BY <1>1, <1>3, <1>4, <2>4, <2>7 DEF Ordered
<1> QED BY <1>5, <1>6 DEF Upstream, UpstreamSpeaks, PumpDies

LEMMA OrderedNext ==
  ASSUME TypeOK, Ordered, [Next]_vars
  PROVE  Ordered'
<1> USE DEF connVars, gateVars, turnVars, linkVars, sendVars, vars
<1>1. CASE Turns \/ Writer \/ Closed \/ Over \/ UNCHANGED vars
  <2>1. UNCHANGED <<held, texts, refused, discarded, events, pump, todo>>
    BY <1>1 DEF Turns, Turn, TurnLock, TurnSend, TurnStops, TurnStep, Writer, Write, WriteFails,
                WriterEnds, WriterStep, Closed, Over
  <2>2. SameTurns
    <3>1. CASE Turns
      BY <3>1, TaskSteps DEF Turns, SameTurns
    <3>2. CASE ~Turns
      BY <1>1, <3>2 DEF Writer, Write, WriteFails, WriterEnds, WriterStep, Closed, Over, SameTurns
    <3> QED BY <3>1, <3>2
  <2>3. Leading(todo') /\ Ops(todo') /\ Batch'
    BY <2>1 DEF Ordered, Batch
  <2> QED BY <2>1, <2>2, <2>3, StaysOrdered
<1> QED BY <1>1, InputOrdered, HandlerOrdered, UpstreamOrdered DEF Next

LEMMA OrderedInit == ASSUME Init PROVE Ordered
<1>1. /\ todo = <<>> /\ held = <<>> /\ tasks = <<>> /\ events = <<>> /\ pump = "none" /\ texts = 0
      /\ refused = {} /\ discarded = {}
  BY DEF Init
<1>2. Leading(todo) /\ Ops(todo) /\ TextsIn(todo) = {} /\ TakesHeld /\ Batch
  BY <1>1, EmptyProgram, PlainLeads DEF TakesHeld, Batch
<1>3. InTurns = {} /\ SortedTurns
  <2>1. DOMAIN tasks = {}
    BY <1>1, EmptySeq
  <2> QED BY <2>1 DEF InTurns, SortedTurns
<1>4. Placed(0, {}, {}, {}, {}, {}, {})
  BY DEF Placed, Before, Apart
<1> QED BY <1>1, <1>2, <1>3, <1>4, NoTexts, EventsNone DEF Ordered, InPlace

LEMMA OrderedImplies ==
  ASSUME TypeOK, Ordered
  PROVE  InOrder /\ EachTextOnce
<1> DEFINE T == InTurns
           H == ToSet(held)
           D == TextsIn(todo)
           E == TextsOf(events)
<1>1. InOrder
  <2>1. \A t \in DOMAIN tasks : ToSet(tasks[t].texts) \subseteq InTurns
    BY DEF InTurns
  <2>2. Before(InTurns, ToSet(held))
    BY DEF Ordered, InPlace, Placed
  <2> QED BY <2>1, <2>2 DEF Ordered, SortedTurns, InOrder, Before
<1>2. Placed(texts, T, H, D, E, refused, discarded)
  BY DEF Ordered, InPlace
<1> HIDE DEF T, H, D, E
<1>3. /\ T \cap H = {} /\ T \cap D = {} /\ T \cap E = {}
      /\ H \cap D = {} /\ H \cap E = {} /\ D \cap E = {}
  <2>1. \A x \in Nat : ~(x < x)
    OBVIOUS
  <2> QED BY <1>2, <2>1 DEF Placed, Before
<1>4. ASSUME NEW x \in 1 .. texts
      PROVE  LET places == <<x \in E, x \in D, x \in H, x \in T, x \in refused, x \in discarded>>
             IN  \E i \in DOMAIN places : places[i] /\ \A j \in DOMAIN places : places[j] => j = i
  <2> DEFINE e == x \in E
             d == x \in D
             h == x \in H
             t == x \in T
             r == x \in refused
             u == x \in discarded
  <2>1. x \in T \cup H \cup D \cup E \cup refused \cup discarded
    BY <1>2 DEF Placed
  <2>2. refused \cap discarded = {} /\ Apart(refused, T, H, D, E) /\ Apart(discarded, T, H, D, E)
    BY <1>2 DEF Placed
  <2>3. /\ e \/ d \/ h \/ t \/ r \/ u
        /\ e => ~d /\ ~h /\ ~t /\ ~r /\ ~u
        /\ d => ~h /\ ~t /\ ~r /\ ~u
        /\ h => ~t /\ ~r /\ ~u
        /\ t => ~r /\ ~u
        /\ r => ~u
    BY <1>3, <2>1, <2>2 DEF Apart
  <2>4. {e, d, h, t, r, u} \subseteq BOOLEAN
    OBVIOUS
  <2> HIDE DEF e, d, h, t, r, u
  <2>5. LET places == <<e, d, h, t, r, u>>
        IN  \E i \in DOMAIN places : places[i] /\ \A j \in DOMAIN places : places[j] => j = i
    <3> DEFINE p == <<e, d, h, t, r, u>>
    <3>1. DOMAIN p = 1 .. 6
      OBVIOUS
    <3>2. p[1] = e /\ p[2] = d /\ p[3] = h /\ p[4] = t /\ p[5] = r /\ p[6] = u
      OBVIOUS
    <3>3. \A j \in 1 .. 6 : j = 1 \/ j = 2 \/ j = 3 \/ j = 4 \/ j = 5 \/ j = 6
      OBVIOUS
    <3> HIDE DEF p
    <3>4. \E i \in 1 .. 6 : p[i] = TRUE /\ \A j \in 1 .. 6 : p[j] = TRUE => j = i
      <4>1. CASE e
        <5>1. /\ p[1] = TRUE /\ p[2] = FALSE /\ p[3] = FALSE
              /\ p[4] = FALSE /\ p[5] = FALSE /\ p[6] = FALSE
          BY <2>3, <2>4, <3>2, <4>1
        <5> QED BY <3>3, <5>1
      <4>2. CASE d
        <5>1. /\ p[1] = FALSE /\ p[2] = TRUE /\ p[3] = FALSE
              /\ p[4] = FALSE /\ p[5] = FALSE /\ p[6] = FALSE
          BY <2>3, <2>4, <3>2, <4>2
        <5> QED BY <3>3, <5>1
      <4>3. CASE h
        <5>1. /\ p[1] = FALSE /\ p[2] = FALSE /\ p[3] = TRUE
              /\ p[4] = FALSE /\ p[5] = FALSE /\ p[6] = FALSE
          BY <2>3, <2>4, <3>2, <4>3
        <5> QED BY <3>3, <5>1
      <4>4. CASE t
        <5>1. /\ p[1] = FALSE /\ p[2] = FALSE /\ p[3] = FALSE
              /\ p[4] = TRUE /\ p[5] = FALSE /\ p[6] = FALSE
          BY <2>3, <2>4, <3>2, <4>4
        <5> QED BY <3>3, <5>1
      <4>5. CASE r
        <5>1. /\ p[1] = FALSE /\ p[2] = FALSE /\ p[3] = FALSE
              /\ p[4] = FALSE /\ p[5] = TRUE /\ p[6] = FALSE
          BY <2>3, <2>4, <3>2, <4>5
        <5> QED BY <3>3, <5>1
      <4>6. CASE u
        <5>1. /\ p[1] = FALSE /\ p[2] = FALSE /\ p[3] = FALSE
              /\ p[4] = FALSE /\ p[5] = FALSE /\ p[6] = TRUE
          BY <2>3, <2>4, <3>2, <4>6
        <5> QED BY <3>3, <5>1
      <4> QED BY <2>3, <4>1, <4>2, <4>3, <4>4, <4>5, <4>6
    <3> QED BY <3>1, <3>4 DEF p
  <2> QED BY <2>5 DEF e, d, h, t, r, u
<1> QED BY <1>1, <1>4 DEF EachTextOnce, T, H, D, E

(* Every recognised text is in one place: on its way, held, in one turn, or *)
(* dropped for a reason the code has.                                       *)
THEOREM TextsAreKept == Spec => []EachTextOnce
BY TypeCorrect, OrderedInit, OrderedNext, OrderedImplies, PTL DEF Spec

(* Texts reach turns in the order they were spoken.                         *)
THEOREM TextsStayInOrder == Spec => []InOrder
BY TypeCorrect, OrderedInit, OrderedNext, OrderedImplies, PTL DEF Spec

-----------------------------------------------------------------------------
(* While the handler of a realtime speech.end runs, a flush lies ahead of   *)
(* whatever is held, and nothing of the handler can hold anything again.    *)
FlushAhead ==
  Realtime /\ ending =>
    /\ \A i \in DOMAIN todo : todo[i].op \in {"send", "commit", "flush"}
    /\ held # <<>> => \E i \in DOMAIN todo : todo[i].op = "flush"

EndStep == {s \in Step : s.op \in {"send", "commit", "flush"}}

LEMMA SpeechEndProgram ==
  ASSUME TypeOK, Realtime, NEW emitted \in BOOLEAN, SpeechEnd(emitted)
  PROVE  /\ \A i \in DOMAIN todo' : todo'[i].op \in {"send", "commit", "flush"}
         /\ \E i \in DOMAIN todo' : todo'[i].op = "flush"
<1> DEFINE a == When(link, <<Do("commit")>>)
           b == When(emitted, <<Send("listening")>>)
           c == <<Do("flush")>>
<1>1. /\ Do("commit") \in EndStep /\ Do("flush") \in EndStep /\ Send("listening") \in EndStep
      /\ Do("flush").op = "flush"
  <2>1. /\ Do("commit") \in Step /\ Do("flush") \in Step /\ Send("listening") \in Step
    BY PlainSteps DEF PlainStep, Message
  <2> QED BY <2>1 DEF EndStep, Do, Send
<1>2. a \in Seq(EndStep)
  <2>1. <<Do("commit")>> \in Seq(EndStep)
    BY <1>1
  <2> QED BY <2>1, WhenType
<1>3. b \in Seq(EndStep)
  <2>1. <<Send("listening")>> \in Seq(EndStep)
    BY <1>1
  <2> QED BY <2>1, WhenType
<1>4. c \in Seq(EndStep) /\ Len(c) = 1 /\ c[1].op = "flush"
  BY <1>1
<1>5. todo' = (a \o b) \o c
  BY DEF SpeechEnd
<1> HIDE DEF a, b, c
<1> DEFINE q == a \o b
<1>6. q \in Seq(EndStep) /\ Len(q) \in Nat
  BY <1>2, <1>3, ConcatProperties
<1> HIDE DEF q
<1>7. todo' \in Seq(EndStep) /\ Len(todo') = Len(q) + 1 /\ todo'[Len(q) + 1] = c[1]
  <2>1. todo' = q \o c
    BY <1>5 DEF q
  <2>2. /\ q \o c \in Seq(EndStep) /\ Len(q \o c) = Len(q) + Len(c)
        /\ \A i \in 1 .. Len(q) + Len(c) :
             (q \o c)[i] = IF i <= Len(q) THEN q[i] ELSE c[i - Len(q)]
    BY <1>4, <1>6, ConcatProperties
  <2>3. Len(q) + 1 \in 1 .. Len(q) + Len(c) /\ ~(Len(q) + 1 <= Len(q)) /\ (Len(q) + 1) - Len(q) = 1
    BY <1>4, <1>6
  <2>4. (q \o c)[Len(q) + 1] = c[(Len(q) + 1) - Len(q)]
    BY <2>2, <2>3
  <2> QED BY <1>4, <2>1, <2>2, <2>3, <2>4
<1>8. \A i \in DOMAIN todo' : todo'[i] \in EndStep
  BY <1>7
<1>9. Len(q) + 1 \in DOMAIN todo'
  BY <1>6, <1>7
<1> QED BY <1>4, <1>7, <1>8, <1>9 DEF EndStep

LEMMA FlushAheadNext ==
  ASSUME TypeOK, FlushAhead, [Next]_vars
  PROVE  FlushAhead'
<1> USE DEF connVars, gateVars, turnVars, linkVars, sendVars, vars
<1>1. CASE Input
  <2>1. ending' = FALSE \/ \E emitted \in BOOLEAN : SpeechEnd(emitted)
    BY <1>1 DEF Input, Reject, SessionStart, AudioData, FlushDeadline, UpstreamEvent, Leave, EndLoop
  <2>2. ASSUME NEW emitted \in BOOLEAN, SpeechEnd(emitted), Realtime
        PROVE  /\ \A i \in DOMAIN todo' : todo'[i].op \in {"send", "commit", "flush"}
               /\ \E i \in DOMAIN todo' : todo'[i].op = "flush"
    BY <2>2, SpeechEndProgram
  <2> QED BY <2>1, <2>2 DEF FlushAhead
<1>2. CASE Handler
  <2>1. /\ todo # <<>> /\ ending' = ending /\ todo \in Seq(Step)
        /\ Head(todo).op = "send" => held' = held /\ todo' = Tail(todo)
        /\ Head(todo).op = "commit" => held' = held /\ todo' = Tail(todo)
        /\ Head(todo).op = "flush" => held' = <<>> /\ todo' = Tail(todo)
    BY <1>2 DEF Handler, HandlerSend, Transcribe, GateTranscript, HandlerDispatch, HandlerFlush,
                ForwardAudio, CommitAudio, Handling, FlushHeld, TypeOK
  <2>2. /\ Head(todo) = todo[1] /\ 1 \in DOMAIN todo
        /\ \A i \in DOMAIN Tail(todo) : i + 1 \in DOMAIN todo /\ Tail(todo)[i] = todo[i + 1]
        /\ \A i \in DOMAIN todo : i = 1 \/ (i - 1 \in DOMAIN Tail(todo) /\ Tail(todo)[i - 1] = todo[i])
    BY <2>1
  <2>3. ASSUME Realtime, ending PROVE FlushAhead'
    <3>1. Head(todo).op \in {"send", "commit", "flush"}
      BY <2>2, <2>3 DEF FlushAhead
    <3>2. todo' = Tail(todo)
      BY <2>1, <3>1
    <3>3. \A i \in DOMAIN todo' : todo'[i].op \in {"send", "commit", "flush"}
      BY <2>2, <2>3, <3>2 DEF FlushAhead
    <3>4. CASE Head(todo).op = "flush"
      BY <2>1, <3>3, <3>4 DEF FlushAhead
    <3>5. CASE Head(todo).op # "flush"
      <4>1. held' = held
        BY <2>1, <3>1, <3>5
      <4>2. ASSUME held # <<>> PROVE \E i \in DOMAIN todo' : todo'[i].op = "flush"
        <5>1. PICK i \in DOMAIN todo : todo[i].op = "flush"
          BY <2>3, <4>2 DEF FlushAhead
        <5> QED BY <2>2, <3>2, <3>5, <5>1
      <4> QED BY <3>3, <4>1, <4>2 DEF FlushAhead
    <3> QED BY <3>4, <3>5
  <2> QED BY <2>1, <2>3 DEF FlushAhead
<1>3. CASE Turns \/ Writer \/ Closed \/ Upstream \/ Over \/ UNCHANGED vars
  <2>1. UNCHANGED <<held, todo, ending>>
    BY <1>3 DEF Turns, Turn, TurnLock, TurnSend, TurnStops, TurnStep, Writer, Write, WriteFails,
                WriterEnds, WriterStep, Closed, Over, Upstream, UpstreamSpeaks, PumpDies, PumpStep
  <2> QED BY <2>1 DEF FlushAhead
<1> QED BY <1>1, <1>2, <1>3 DEF Next

(* In realtime mode a speech.end leaves nothing held once its handler is    *)
(* done.  (In batch mode its own transcript may be held.)                   *)
THEOREM RealtimeEndFlushes ==
  ASSUME Realtime
  PROVE  Spec => []SpeechEndFlushes
<1>1. Init => FlushAhead
  BY DEF Init, FlushAhead
<1>2. FlushAhead => SpeechEndFlushes
  BY EmptySeq DEF FlushAhead, SpeechEndFlushes
<1> QED BY TypeCorrect, FlushAheadNext, <1>1, <1>2, PTL DEF Spec
=============================================================================
