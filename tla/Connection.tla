----------------------------- MODULE Connection -----------------------------
(***************************************************************************)
(* One WebSocket connection of crates/harness-server/src/ws.rs: the read   *)
(* loop with its ConnState, the turn tasks it spawns, the writer task that *)
(* owns the socket's send half and, in realtime mode, the pump task behind *)
(* the upstream speech-to-text link.                                       *)
(*                                                                         *)
(* The read loop handles one input at a time, and a handler suspends at    *)
(* every await.  A handler is therefore the action that takes the input,   *)
(* which does what precedes the first await, and the program todo it       *)
(* leaves behind: one step per await, in order, and no input before the    *)
(* last.  The other tasks run between any two steps.                       *)
(*                                                                         *)
(* A transcript is the number of the recognised text; a joined transcript  *)
(* is the sequence of the texts in it; an audio chunk is what it makes the *)
(* segmenter do; a message to the client is a slot of the write channel.   *)
(*                                                                         *)
(* Left out: the other holders of a session's lock (HTTP turns and other   *)
(* connections with the same device id); the end of the event channel,     *)
(* which the error every pump ends with precedes, and which that error     *)
(* makes unread; the command channel to the pump, which has room here;     *)
(* messages before session.start that change nothing.                      *)
(*                                                                         *)
(* Next to some definitions stand plausible slips of the same code, marked *)
(* (Slip).  No behaviour uses them; each shows what a property rules out.  *)
(***************************************************************************)
EXTENDS Integers, Sequences, SequencesExt

CONSTANTS
  Realtime,            \* is stt_realtime configured?  (SttMode)
  RequireSentenceEnd,  \* session.require_sentence_end
  DeviceIds,           \* does session.start carry a device_id?  (TRUE and/or FALSE)
  WriteBound,          \* WRITE_CHANNEL_BOUND
  EventBound,          \* LINK_CHANNEL_BOUND, of the upstream event channel
  MaxTexts,            \* bound: texts recognised in a behaviour
  MaxStarts,           \* bound: session.start messages in a behaviour
  MaxLinks,            \* bound: upstream links dialed in a behaviour
  MaxPerChunk          \* bound: utterances one audio chunk can end

ASSUME ConstantsAssumption ==
  /\ {Realtime, RequireSentenceEnd} \subseteq BOOLEAN
  /\ DeviceIds \subseteq BOOLEAN
  /\ {WriteBound, EventBound} \subseteq Nat \ {0}
  /\ {MaxTexts, MaxStarts, MaxLinks, MaxPerChunk} \subseteq Nat

VARIABLES
  (* the read loop and its ConnState *)
  loop,        \* "running", "closing" (after the loop) or "closed"
  todo,        \* what is left of the current handler
  vad,         \* assembler: "none", "idle" or "open" (an utterance is open)
  held,        \* held_transcript
  armed,       \* hold_deadline is Some
  sessionId,   \* session_id: 0 is the device's id, n > 0 a generated one
  turn,        \* the join handle: index of a task, 0 for None
  link,        \* SttMode::Realtime.link is Some
  partial,     \* upstream_partial: 0 when empty, else the link it is from
  (* the other tasks *)
  tasks,       \* every turn task spawned so far
  queued,      \* messages in the write channel
  writer,      \* "up", "gone" (the socket failed) or "done"
  pump,        \* the pump feeding `events`: "none" (events is None), "live", "dead"
  events,      \* the event channel
  (* history *)
  texts,       \* texts recognised so far
  starts,      \* sessions started so far
  links,       \* upstream links dialed so far
  floor,       \* value of texts when the current session started
  refused,     \* texts dropped because a turn was in flight
  discarded,   \* texts dropped with their session or their link
  ending,      \* was the latest input a speech.end?
  unheard      \* upstream has speech that no completed event covers yet

connVars == <<loop, vad, sessionId, starts, floor>>
gateVars == <<held, armed>>
turnVars == <<turn, tasks, refused>>
linkVars == <<link, partial, pump, events, links, unheard>>
sendVars == <<queued, writer>>
vars == <<connVars, gateVars, turnVars, linkVars, sendVars, todo, texts, discarded, ending>>

-----------------------------------------------------------------------------
Message == {"listening", "speech", "transcript", "error"}

(* A step of a handler: what to do, the message sent, the texts it carries  *)
(* (the gate is given one), and a flag (gate: is the text terminal?         *)
(* upstream: is there speech?).                                             *)
StepName == {"send", "transcribe", "gate", "dispatch", "flush", "upstream", "commit"}
Step ==
  {s \in [op : StepName, msg : Message \cup {"none"}, texts : Seq(Nat), flag : BOOLEAN] :
     s.op = "gate" => s.texts # <<>>}

Send(m)         == [op |-> "send", msg |-> m, texts |-> <<>>, flag |-> FALSE]
Do(name)        == [op |-> name, msg |-> "none", texts |-> <<>>, flag |-> FALSE]
Forward(spoken) == [op |-> "upstream", msg |-> "none", texts |-> <<>>, flag |-> spoken]
Gate(text, end) == [op |-> "gate", msg |-> "none", texts |-> <<text>>, flag |-> end]
Dispatch(all)   == [op |-> "dispatch", msg |-> "none", texts |-> all, flag |-> FALSE]

\* The rest of a turn task, from the step it will take next.
Phase == {"lock", "thinking", "pipeline", "final", "finished"}
Task == [pc : Phase, texts : Seq(Nat), session : Nat, aborted : BOOLEAN]

\* An upstream event: a completed one carries a text (0: an empty transcript).
Event == [kind : {"delta", "completed", "cleared", "err"}, text : Nat, end : BOOLEAN]

Repeat(n, x) == [i \in 1 .. n |-> x]
When(cond, steps) == IF cond THEN steps ELSE <<>>

TextsIn(steps) == UNION {ToSet(steps[i].texts) : i \in DOMAIN steps}
TextsOf(evs) == {evs[i].text : i \in DOMAIN evs} \ {0}

Init ==
  /\ loop = "running" /\ todo = <<>> /\ vad = "none"
  /\ held = <<>> /\ armed = FALSE
  /\ sessionId = 0
  /\ turn = 0 /\ tasks = <<>>
  /\ link = FALSE /\ partial = 0 /\ pump = "none" /\ events = <<>>
  /\ queued = 0 /\ writer = "up"
  /\ texts = 0 /\ starts = 0 /\ links = 0 /\ floor = 0
  /\ refused = {} /\ discarded = {}
  /\ ending = FALSE /\ unheard = FALSE

-----------------------------------------------------------------------------
\* (Slip: an unbounded channel.)
CanAlwaysSend == TRUE

(* Sending.  The write channel is bounded: a send waits for room, and does *)
(* nothing once the writer dropped the receiving half.                     *)
CanSend == writer = "up" => queued < WriteBound

Enqueue ==
  /\ CanSend
  /\ queued' = IF writer = "up" THEN queued + 1 ELSE queued
  /\ UNCHANGED writer

-----------------------------------------------------------------------------
(* Turns.                                                                  *)
TurnInFlight == turn # 0 /\ tasks[turn].pc # "finished"

\* (Slip: a dispatch during a turn is not dropped.)
DispatchAlways(all) ==
  /\ tasks' = Append(tasks, [pc |-> "lock", texts |-> all,
                             session |-> sessionId, aborted |-> FALSE])
  /\ turn' = Len(tasks) + 1
  /\ UNCHANGED refused

\* dispatch_turn: one turn at a time, a dispatch during a turn is dropped.
DispatchTurn(all) ==
  IF TurnInFlight
    THEN /\ refused' = refused \cup ToSet(all)
         /\ UNCHANGED <<turn, tasks>>
    ELSE /\ tasks' = Append(tasks, [pc |-> "lock", texts |-> all,
                                    session |-> sessionId, aborted |-> FALSE])
         /\ turn' = Len(tasks) + 1
         /\ UNCHANGED refused

\* abort_turn: the handle is dropped, the task is not awaited.
AbortTurn ==
  /\ turn' = 0
  /\ tasks' = IF TurnInFlight THEN [tasks EXCEPT ![turn].aborted = TRUE] ELSE tasks
  /\ UNCHANGED refused

\* (Slips: the held text is copied, not taken; a flush waits for the turn.)
FlushCopies ==
  /\ armed' = FALSE
  /\ UNCHANGED held
  /\ IF held = <<>> THEN UNCHANGED turnVars ELSE DispatchTurn(held)

FlushUnlessBusy ==
  IF TurnInFlight
    THEN UNCHANGED <<gateVars, turnVars>>
    ELSE /\ held' = <<>>
         /\ armed' = FALSE
         /\ IF held = <<>> THEN UNCHANGED turnVars ELSE DispatchTurn(held)

\* flush_held: dispatch the held transcript as it is.
FlushHeld ==
  /\ held' = <<>>
  /\ armed' = FALSE
  /\ IF held = <<>> THEN UNCHANGED turnVars ELSE DispatchTurn(held)

-----------------------------------------------------------------------------
(* The upstream link.                                                      *)

\* teardown_upstream: link, events and partial are dropped.
TeardownUpstream ==
  /\ link' = FALSE /\ partial' = 0 /\ pump' = "none" /\ events' = <<>>
  /\ unheard' = FALSE
  /\ discarded' = discarded \cup TextsOf(events)
  /\ UNCHANGED links

\* (Slip: a new session inherits the upstream link.)
DropKeepsLink ==
  /\ AbortTurn
  /\ held' = <<>> /\ armed' = FALSE
  /\ discarded' = discarded \cup ToSet(held)
  /\ UNCHANGED linkVars

\* What session.start and the end of the connection drop of the session
\* before: its turn, its held transcript and its upstream link.
DropSession ==
  /\ AbortTurn
  /\ held' = <<>> /\ armed' = FALSE
  /\ link' = FALSE /\ partial' = 0 /\ pump' = "none" /\ events' = <<>>
  /\ unheard' = FALSE
  /\ discarded' = discarded \cup ToSet(held) \cup TextsOf(events)
  /\ UNCHANGED links

-----------------------------------------------------------------------------
(* Inputs of the read loop.                                                *)
Idle == loop = "running" /\ todo = <<>>

\* A message that is not JSON, audio before session.start, or audio that is
\* not base64 PCM16: an error reply, nothing else.
Reject ==
  /\ Idle
  /\ todo' = <<Send("error")>>
  /\ ending' = FALSE
  /\ UNCHANGED <<connVars, gateVars, turnVars, linkVars, sendVars, texts, discarded>>

\* session.start, with the device's id or with none.
SessionStart(hasId) ==
  /\ Idle
  /\ starts < MaxStarts
  /\ starts' = starts + 1
  /\ DropSession
  /\ vad' = "idle"
  /\ sessionId' = IF hasId THEN 0 ELSE starts'
  /\ floor' = texts
  /\ todo' = <<Send("listening")>>
  /\ ending' = FALSE
  /\ UNCHANGED <<loop, sendVars, texts>>

\* audio.data: the chunk ends n utterances and leaves the segmenter at next.
\* feed_audio reports each end, and an opening if it started out idle.
AudioData(n, next) ==
  /\ Idle
  /\ vad # "none"
  /\ vad' = next
  /\ todo' = Repeat(n, Send("listening"))
             \o When(vad = "idle" /\ next = "open", <<Send("speech")>>)
             \o IF Realtime THEN <<Forward(n > 0 \/ "open" \in {vad, next})>>
                            ELSE Repeat(n, Do("transcribe"))
  /\ ending' = FALSE
  /\ UNCHANGED <<loop, sessionId, starts, floor, gateVars, turnVars, linkVars, sendVars,
                 texts, discarded>>

\* speech.end: an open utterance is ended, as an utterance or as a blip.
SpeechEnd(emitted) ==
  /\ Idle
  /\ vad # "none"
  /\ emitted => vad = "open"
  /\ vad' = "idle"
  /\ todo' = IF Realtime
               THEN When(link, <<Do("commit")>>)
                    \o When(emitted, <<Send("listening")>>)
                    \o <<Do("flush")>>
               ELSE IF emitted THEN <<Send("listening"), Do("transcribe")>>
                               ELSE <<Do("flush")>>
  /\ ending' = TRUE
  /\ UNCHANGED <<loop, sessionId, starts, floor, gateVars, turnVars, linkVars, sendVars,
                 texts, discarded>>

\* (Slip: the deadline runs only while an utterance is open.)
HoldInverted == armed /\ held # <<>> /\ vad = "open"

\* The flush deadline, which does not run while an utterance is open.
HoldDeadline == armed /\ held # <<>> /\ vad # "open"

FlushDeadline ==
  /\ Idle
  /\ HoldDeadline
  /\ FlushHeld
  /\ ending' = FALSE
  /\ UNCHANGED <<connVars, linkVars, sendVars, todo, texts, discarded>>

\* The loop ends: the turn is aborted and the connection state dropped.
EndLoop ==
  /\ loop' = "closing"
  /\ DropSession
  /\ vad' = "none"
  /\ ending' = FALSE
  /\ UNCHANGED <<sessionId, starts, floor, sendVars, todo, texts>>

\* session.stop, a close frame, a socket error or the idle timeout.
Leave == Idle /\ EndLoop

-----------------------------------------------------------------------------
(* Upstream events, taken from the channel by the read loop.               *)
UpstreamEvent ==
  /\ Idle
  /\ events # <<>>
  /\ LET ev == Head(events) IN
     \/ /\ ev.kind = "delta"
        /\ partial' = IF partial = 0 THEN links ELSE partial
        /\ todo' = <<Send("transcript")>>
        /\ events' = Tail(events)
        /\ UNCHANGED <<link, pump, links, unheard, discarded>>
     \/ /\ ev.kind = "completed"
        /\ partial' = 0
        /\ todo' = <<Send("transcript")>> \o When(ev.text # 0, <<Gate(ev.text, ev.end)>>)
        /\ events' = Tail(events)
        /\ UNCHANGED <<link, pump, links, unheard, discarded>>
     \/ /\ ev.kind = "cleared"
        /\ partial' = 0
        /\ events' = Tail(events)
        /\ UNCHANGED <<todo, link, pump, links, unheard, discarded>>
     \/ /\ ev.kind = "err"
        /\ TeardownUpstream
        /\ todo' = <<Send("error")>>
  /\ ending' = FALSE
  /\ UNCHANGED <<connVars, gateVars, turnVars, sendVars, texts>>

-----------------------------------------------------------------------------
(* Steps of a handler.                                                     *)
Handling(op) == loop = "running" /\ todo # <<>> /\ Head(todo).op = op

HandlerSend ==
  /\ Handling("send")
  /\ Enqueue
  /\ todo' = Tail(todo)
  /\ UNCHANGED <<connVars, gateVars, turnVars, linkVars, texts, discarded, ending>>

\* (Slip: a failed transcription is tried again without limit.)
TranscribeRetries ==
  /\ Handling("transcribe")
  /\ \/ /\ todo' = <<Send("error")>> \o todo
        /\ UNCHANGED texts
     \/ /\ texts < MaxTexts
        /\ texts' = texts + 1
        /\ \E end \in BOOLEAN :
             todo' = <<Send("transcript"), Gate(texts + 1, end)>> \o Tail(todo)
  /\ UNCHANGED <<connVars, gateVars, turnVars, linkVars, sendVars, discarded, ending>>

\* ingest_utterance: transcription fails, finds nothing, or yields a text.
Transcribe ==
  /\ Handling("transcribe")
  /\ \/ /\ \E answer \in {"error", "transcript"} : todo' = <<Send(answer)>> \o Tail(todo)
        /\ UNCHANGED texts
     \/ /\ texts < MaxTexts
        /\ texts' = texts + 1
        /\ \E end \in BOOLEAN :
             todo' = <<Send("transcript"), Gate(texts + 1, end)>> \o Tail(todo)
  /\ UNCHANGED <<connVars, gateVars, turnVars, linkVars, sendVars, discarded, ending>>

\* (Slips: a fragment replaces the held one; a terminal text goes alone.)
GateReplaces ==
  /\ Handling("gate")
  /\ LET all == held \o Head(todo).texts IN
     IF ~RequireSentenceEnd \/ Head(todo).flag
       THEN /\ held' = <<>>
            /\ armed' = (held' # <<>>)
            /\ todo' = <<Dispatch(all)>> \o Tail(todo)
       ELSE /\ held' = Head(todo).texts
            /\ armed' = TRUE
            /\ todo' = Tail(todo)
  /\ UNCHANGED <<connVars, turnVars, linkVars, sendVars, texts, discarded, ending>>

GateDispatchesAlone ==
  /\ Handling("gate")
  /\ LET all == held \o Head(todo).texts IN
     IF ~RequireSentenceEnd \/ Head(todo).flag
       THEN /\ held' = held
            /\ armed' = (held' # <<>>)
            /\ todo' = <<Dispatch(Head(todo).texts)>> \o Tail(todo)
       ELSE /\ held' = all
            /\ armed' = TRUE
            /\ todo' = Tail(todo)
  /\ UNCHANGED <<connVars, turnVars, linkVars, sendVars, texts, discarded, ending>>

\* gate_transcript: a terminal text goes to a turn with what was held before
\* it (which is shown first), any other is held and arms the deadline.  (The
\* code also shows a text again when joining trimmed its blanks.)
GateTranscript ==
  /\ Handling("gate")
  /\ LET all == held \o Head(todo).texts IN
     IF ~RequireSentenceEnd \/ Head(todo).flag
       THEN /\ held' = <<>>
            /\ armed' = FALSE
            /\ todo' = When(held # <<>>, <<Send("transcript")>>)
                       \o <<Dispatch(all)>> \o Tail(todo)
       ELSE /\ held' = all
            /\ armed' = TRUE
            /\ todo' = Tail(todo)
  /\ UNCHANGED <<connVars, turnVars, linkVars, sendVars, texts, discarded, ending>>

HandlerDispatch ==
  /\ Handling("dispatch")
  /\ DispatchTurn(Head(todo).texts)
  /\ todo' = Tail(todo)
  /\ UNCHANGED <<connVars, gateVars, linkVars, sendVars, texts, discarded, ending>>

HandlerFlush ==
  /\ Handling("flush")
  /\ FlushHeld
  /\ todo' = Tail(todo)
  /\ UNCHANGED <<connVars, linkVars, sendVars, texts, discarded, ending>>

\* The realtime half of audio.data: dial if there is no link, then send.  A
\* failed dial or a dead pump is an error reply; the latter drops the link.
ForwardAudio ==
  /\ Handling("upstream")
  /\ \/ /\ link /\ pump = "live"
        /\ unheard' = (unheard \/ Head(todo).flag)
        /\ todo' = Tail(todo)
        /\ UNCHANGED <<link, pump, events, links, discarded>>
     \/ /\ link /\ pump = "dead"
        /\ link' = FALSE
        /\ todo' = <<Send("error")>> \o Tail(todo)
        /\ UNCHANGED <<unheard, pump, events, links, discarded>>
     \/ /\ ~link
        /\ links < MaxLinks
        /\ links' = links + 1
        /\ link' = TRUE /\ pump' = "live" /\ events' = <<>>
        /\ discarded' = discarded \cup TextsOf(events)
        /\ unheard' = Head(todo).flag
        /\ todo' = Tail(todo)
     \/ /\ ~link
        /\ todo' = <<Send("error")>> \o Tail(todo)
        /\ UNCHANGED <<link, unheard, pump, events, links, discarded>>
  /\ UNCHANGED <<connVars, gateVars, turnVars, sendVars, partial, texts, ending>>

\* The commit of speech.end; a dead pump drops the link.
CommitAudio ==
  /\ Handling("commit")
  /\ link' = (pump = "live")
  /\ todo' = Tail(todo)
  /\ UNCHANGED <<connVars, gateVars, turnVars, sendVars, partial, pump, events, links,
                 unheard, texts, discarded, ending>>

Handler ==
  \/ HandlerSend \/ Transcribe \/ GateTranscript \/ HandlerDispatch \/ HandlerFlush
  \/ ForwardAudio \/ CommitAudio

-----------------------------------------------------------------------------
(* The turn task t.                                                        *)
Goto(t, phase) == tasks' = [tasks EXCEPT ![t].pc = phase]

\* (Slip: the guard of the session outlives its task.)
NeverUnlocks(t) == tasks[t].pc # "lock"

HoldsLock(t) == tasks[t].pc \notin {"lock", "finished"}

TurnStep(t) == UNCHANGED <<connVars, gateVars, turn, refused, linkVars, todo, texts,
                           discarded, ending>>

\* The session's write lock: one turn of a session at a time.
TurnLock(t) ==
  /\ tasks[t].pc = "lock"
  /\ \A u \in DOMAIN tasks : tasks[u].session = tasks[t].session => ~HoldsLock(u)
  /\ Goto(t, "thinking")
  /\ UNCHANGED sendVars
  /\ TurnStep(t)

\* The task's messages in order, each run of them standing as one: Thinking,
\* the pipeline's output and TurnCompleted (or Error), Speaking and Listening.
TurnSend(t) ==
  /\ \E move \in { <<"thinking", "pipeline">>, <<"pipeline", "final">>, <<"final", "finished">> } :
       tasks[t].pc = move[1] /\ Goto(t, move[2])
  /\ Enqueue
  /\ TurnStep(t)

\* An aborted task stops at an await; it may have taken steps since.
TurnStops(t) ==
  /\ tasks[t].aborted /\ tasks[t].pc # "finished"
  /\ Goto(t, "finished")
  /\ UNCHANGED sendVars
  /\ TurnStep(t)

Turn(t) == t \in DOMAIN tasks /\ (TurnLock(t) \/ TurnSend(t) \/ TurnStops(t))
Turns == \E t \in DOMAIN tasks : Turn(t)

-----------------------------------------------------------------------------
(* The writer task, and the end of the connection.                         *)
WriterStep == UNCHANGED <<connVars, gateVars, turnVars, linkVars, todo, texts, discarded,
                          ending>>

Write ==
  /\ writer = "up" /\ queued > 0
  /\ queued' = queued - 1
  /\ UNCHANGED writer
  /\ WriterStep

\* The socket fails under a message: the rest of the channel is dropped.
WriteFails ==
  /\ writer = "up" /\ queued > 0
  /\ queued' = 0
  /\ writer' = "gone"
  /\ WriterStep

\* (Slip: a turn's sender outlives its task.)
WriterEndsUnused ==
  /\ writer = "up" /\ queued = 0
  /\ loop = "closing"
  /\ tasks = <<>>
  /\ writer' = "done"
  /\ UNCHANGED queued
  /\ WriterStep

\* The channel is empty and every sender (read loop, turn tasks) dropped.
WriterEnds ==
  /\ writer = "up" /\ queued = 0
  /\ loop = "closing"
  /\ \A t \in DOMAIN tasks : tasks[t].pc = "finished"
  /\ writer' = "done"
  /\ UNCHANGED queued
  /\ WriterStep

\* handle_socket awaits the writer and returns.
Closed ==
  /\ loop = "closing" /\ writer # "up"
  /\ loop' = "closed"
  /\ UNCHANGED <<vad, sessionId, starts, floor, gateVars, turnVars, linkVars, sendVars,
                 todo, texts, discarded, ending>>

-----------------------------------------------------------------------------
(* The pump task and the server behind it: upstream transcribes the speech *)
(* it was sent, or fails, which is the pump's last event.                  *)
PumpStep == UNCHANGED <<connVars, gateVars, turnVars, sendVars, todo, discarded, ending,
                        link, partial, links>>

UpstreamSpeaks ==
  /\ pump = "live"
  /\ Len(events) < EventBound
  /\ \/ /\ unheard
        /\ events' = Append(events, [kind |-> "delta", text |-> 0, end |-> FALSE])
        /\ UNCHANGED <<unheard, texts>>
     \/ /\ unheard /\ texts < MaxTexts
        /\ texts' = texts + 1
        /\ \E end \in BOOLEAN :
             events' = Append(events, [kind |-> "completed", text |-> texts + 1, end |-> end])
        /\ unheard' = FALSE
     \/ /\ \E kind \in {"completed", "cleared"} :
             events' = Append(events, [kind |-> kind, text |-> 0, end |-> FALSE])
        /\ unheard' = FALSE
        /\ UNCHANGED texts
  /\ UNCHANGED pump
  /\ PumpStep

\* (Slip: the pump goes on after an error.)
PumpSurvives ==
  /\ pump = "live"
  /\ Len(events) < EventBound
  /\ events' = Append(events, [kind |-> "err", text |-> 0, end |-> FALSE])
  /\ unheard' = unheard
  /\ UNCHANGED <<texts, pump>>
  /\ PumpStep

PumpDies ==
  /\ pump = "live"
  /\ Len(events) < EventBound
  /\ events' = Append(events, [kind |-> "err", text |-> 0, end |-> FALSE])
  /\ pump' = "dead"
  /\ unheard' = FALSE
  /\ UNCHANGED texts
  /\ PumpStep

-----------------------------------------------------------------------------
Input ==
  \/ Reject
  \/ \E hasId \in DeviceIds : SessionStart(hasId)
  \/ \E n \in 0 .. MaxPerChunk, next \in {"idle", "open"} : AudioData(n, next)
  \/ \E emitted \in BOOLEAN : SpeechEnd(emitted)
  \/ FlushDeadline
  \/ UpstreamEvent
  \/ Leave

Writer == Write \/ WriteFails \/ WriterEnds
Upstream == UpstreamSpeaks \/ PumpDies

\* A connection that is over stays so.
Over == loop = "closed" /\ (\A t \in DOMAIN tasks : tasks[t].pc = "finished") /\ UNCHANGED vars

Next == Input \/ Handler \/ Turns \/ Writer \/ Closed \/ Upstream \/ Over

Spec == Init /\ [][Next]_vars

(* Scheduling.  Every runnable task is polled again; a lock or a channel   *)
(* slot goes to the tasks that wait for it in order, so none of them is    *)
(* overtaken for ever (SF); transcription ends, having a timeout; and a    *)
(* timer that is due is one of the branches the read loop's select picks   *)
(* from at random (SF).  Nothing is assumed of the client's input, of      *)
(* upstream, of the socket's end, or of a turn's pipeline, which nothing   *)
(* but an abort ends if the model never begins to answer.                  *)
(*                                                                         *)
(* Two things are assumptions, not facts of the code: that the client      *)
(* reads what it is sent, for no write to it is timed; and that an abort   *)
(* takes effect, which takes a turn that comes to its next await.  A turn  *)
(* in the loop of chunker.rs:140 (Answer!Spins) never does: no abort ends  *)
(* it, and a connection that waits for it does not end.                    *)
Waiting(t) == t \in DOMAIN tasks /\ tasks[t].pc = "pipeline"

Fairness ==
  /\ SF_vars(Handler)
  /\ \A t \in 1 .. MaxTexts :
       /\ SF_vars(~Waiting(t) /\ Turn(t))
       /\ SF_vars(t \in DOMAIN tasks /\ TurnStops(t))
  /\ WF_vars(Write \/ WriterEnds)
  /\ WF_vars(Closed)
  /\ SF_vars(FlushDeadline)

FairSpec == Spec /\ Fairness

-----------------------------------------------------------------------------
TypeOK ==
  /\ loop \in {"running", "closing", "closed"}
  /\ todo \in Seq(Step)
  /\ vad \in {"none", "idle", "open"}
  /\ held \in Seq(Nat) /\ armed \in BOOLEAN
  /\ sessionId \in Nat
  /\ tasks \in Seq(Task) /\ turn \in 0 .. Len(tasks)
  /\ link \in BOOLEAN /\ partial \in 0 .. links
  /\ pump \in {"none", "live", "dead"} /\ events \in Seq(Event)
  /\ queued \in 0 .. WriteBound /\ writer \in {"up", "gone", "done"}
  /\ texts \in Nat /\ starts \in Nat /\ links \in Nat /\ floor \in 0 .. texts
  /\ refused \subseteq Nat /\ discarded \subseteq Nat
  /\ ending \in BOOLEAN /\ unheard \in BOOLEAN

(* A held transcript always has a flush deadline, so that a command without *)
(* punctuation cannot hang, and a deadline is never left behind by a        *)
(* transcript that was dispatched or dropped.                               *)
HeldHasDeadline == armed <=> held # <<>>

(* The only turn that can be running is the one the join handle names: no   *)
(* dispatch overwrites the handle of a running turn, which then neither     *)
(* session.start nor session.stop nor the end of the loop could abort.      *)
OneTurn ==
  \A t \in DOMAIN tasks : tasks[t].pc # "finished" /\ ~tasks[t].aborted => t = turn

(* A recognised text is in exactly one place: on its way through the event  *)
(* channel or a handler, held, in the one turn it was dispatched to, or     *)
(* dropped for one of the two reasons the code has.  Joining, holding,      *)
(* flushing and dispatching neither lose nor repeat what the user said.     *)
InTurns == UNION {ToSet(tasks[t].texts) : t \in DOMAIN tasks}
EachTextOnce ==
  \A x \in 1 .. texts :
    LET places == << x \in TextsOf(events), x \in TextsIn(todo), x \in ToSet(held),
                     x \in InTurns, x \in refused, x \in discarded >>
    IN  \E i \in DOMAIN places : places[i] /\ \A j \in DOMAIN places : places[j] => j = i

(* Texts reach turns in the order they were spoken, within a turn and from  *)
(* turn to turn; what is held is later than anything dispatched.            *)
Increasing(s) == \A i, j \in DOMAIN s : i < j => s[i] < s[j]
InOrder ==
  /\ Increasing(held)
  /\ \A t \in DOMAIN tasks :
       /\ Increasing(tasks[t].texts)
       /\ \A x \in ToSet(tasks[t].texts) :
            /\ \A y \in ToSet(held) : x < y
            /\ \A u \in DOMAIN tasks : \A y \in ToSet(tasks[u].texts) : t < u => x < y

(* No text crosses a session.start: what is held, in a handler or in the    *)
(* event channel was recognised in the current session, and so was what the *)
(* running turn answers.                                                    *)
SessionIsolation ==
  /\ \A x \in ToSet(held) \cup TextsIn(todo) \cup TextsOf(events) : x > floor
  /\ \A t \in DOMAIN tasks :
       tasks[t].pc # "finished" /\ ~tasks[t].aborted =>
         /\ \A x \in ToSet(tasks[t].texts) : x > floor
         /\ tasks[t].session = sessionId

(* Within a session an upstream failure loses no transcript: its error is   *)
(* the last event of its pump, so that tearing the link down drops no text  *)
(* that was received before it.  Texts are discarded by session.start, by   *)
(* the end of the connection, and by the dial that replaces a dead link     *)
(* before its events were read.                                             *)
FailureLosesNoText ==
  [][ discarded' # discarded => starts' # starts \/ loop' # loop \/ links' # links ]_vars

(* A speech.end leaves nothing held: once its handler is done, and until    *)
(* the next input, what was recognised before it was dispatched or dropped  *)
(* ("an explicit speech.end flushes it immediately").  It is checked in     *)
(* realtime mode.  In batch mode it is false: a speech.end that closes an   *)
(* open utterance may hold its transcript again (ws.rs:427).                *)
SpeechEndFlushes == ending /\ todo = <<>> => held = <<>>

(* The flush deadline never cuts a sentence in two: when it fires there is  *)
(* no speech that is open, being transcribed or transcribed and unread      *)
(* ("it must not cut off the continuation of the very sentence it is        *)
(* holding").                                                               *)
DeadlineCutsNothing ==
  [][ FlushDeadline => vad # "open" /\ ~unheard /\ TextsOf(events) = {} ]_vars

(* A held transcript does not stay held while nobody speaks.                *)
HeldIsFlushed == held # <<>> ~> held = <<>> \/ vad = "open"

(* Every handler ends, backpressure of the write channel included.          *)
HandlersEnd == todo # <<>> ~> todo = <<>>

(* Every turn ends, waiting for its session's lock included, if every       *)
(* pipeline does.                                                           *)
TurnsEnd ==
  (\A t \in 1 .. MaxTexts : []<>~Waiting(t)) =>
    \A t \in 1 .. MaxTexts :
      t \in DOMAIN tasks ~> t \in DOMAIN tasks /\ tasks[t].pc = "finished"

(* Once the loop ended, handle_socket returns: the writer stops waiting for *)
(* messages when the aborted turn let go of its sender, whatever the turn   *)
(* waits for.  A turn that waits for nothing, looping at chunker.rs:140, is *)
(* assumed away (Fairness).                                                 *)
ConnectionEnds == loop = "closing" ~> loop = "closed"
=============================================================================
