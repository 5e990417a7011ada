---------------------------- MODULE AnswerProofs ----------------------------
(***************************************************************************)
(* For every model stream: a round uses the chunker as its specification   *)
(* says (ChunkerSpec), reports success only when everything upstream sent  *)
(* has been chunked and said (AnswerIsWhole), and has then handed over the *)
(* calls upstream named, in order and with all their pieces                *)
(* (CallsAssembled).                                                       *)
(***************************************************************************)
EXTENDS Answer, ChunkerProofs, Counting

-----------------------------------------------------------------------------
(* Sequences of events.                                                    *)

IsSeq(q) == \E S : q \in Seq(S)

\* A delta has text, and only the first event may be one.
Events(q) ==
  /\ IsSeq(q)
  /\ \A k \in DOMAIN q : q[k].kind = "delta" => k = 1 /\ q[k].text \in Deltas

\* The text that the queue holds.
Queued(q) == IF q # <<>> /\ Head(q).kind = "delta" THEN Head(q).text ELSE <<>>

NoDelta(q) == \A k \in DOMAIN q : q[k].kind # "delta"

LEMMA SeqLen == ASSUME NEW q, IsSeq(q) PROVE Len(q) \in Nat /\ DOMAIN q = 1..Len(q)
BY DEF IsSeq

LEMMA EmptyEvents == Events(<<>>) /\ NoDelta(<<>>) /\ Queued(<<>>) = <<>>
<1>1. <<>> \in Seq({})
  OBVIOUS
<1> QED BY <1>1 DEF Events, IsSeq, NoDelta, Queued

LEMMA TextBecomesEvents ==
  ASSUME NEW t \in Deltas \cup {<<>>}
  PROVE  Events(TextEvents(t)) /\ Queued(TextEvents(t)) = t
<1>1. CASE t = <<>>
  BY <1>1, EmptyEvents DEF TextEvents
<1>2. CASE t # <<>>
  <2> DEFINE q == <<Delta(t)>>
  <2>1. q \in Seq({Delta(t)}) /\ Len(q) = 1 /\ q[1] = Delta(t) /\ q # <<>> /\ Head(q) = Delta(t)
    OBVIOUS
  <2>2. Delta(t).kind = "delta" /\ Delta(t).text = t
    BY DEF Delta
  <2>3. t \in Deltas /\ TextEvents(t) = q
    BY <1>2 DEF TextEvents
  <2> HIDE DEF q
  <2>4. IsSeq(q) /\ DOMAIN q = 1..1
    BY <2>1 DEF IsSeq
  <2> QED BY <2>1, <2>2, <2>3, <2>4 DEF Events, Queued
<1> QED BY <1>1, <1>2

LEMMA DeltaIsText ==
  ASSUME NEW t \in Deltas \cup {<<>>}
  PROVE  t \in Seq(Chars)
<1>1. <<>> \in Seq(Chars) /\ Deltas \subseteq Seq(Chars)
  BY ChunkerAssumption
<1> QED BY <1>1

LEMMA EventsFollow ==
  ASSUME NEW p, NEW q, Events(p), IsSeq(q), NoDelta(q)
  PROVE  Events(p \o q) /\ Queued(p \o q) = Queued(p)
<1>1. PICK S : p \in Seq(S)
  BY DEF Events, IsSeq
<1>2. PICK T : q \in Seq(T)
  BY DEF IsSeq
<1>3. p \in Seq(S \cup T) /\ q \in Seq(S \cup T)
  BY <1>1, <1>2
<1>4. /\ p \o q \in Seq(S \cup T) /\ Len(p) \in Nat /\ Len(q) \in Nat
      /\ DOMAIN (p \o q) = 1..Len(p) + Len(q)
      /\ DOMAIN p = 1..Len(p) /\ DOMAIN q = 1..Len(q)
      /\ \A k \in 1..Len(p) : (p \o q)[k] = p[k]
      /\ \A k \in 1..Len(q) : (p \o q)[Len(p) + k] = q[k]
  BY <1>3
<1>5. \A k \in DOMAIN (p \o q) : k \in DOMAIN p \/ k - Len(p) \in DOMAIN q
  BY <1>4
<1>6. IsSeq(p \o q)
  BY <1>4 DEF IsSeq
<1>7. ASSUME NEW k \in DOMAIN (p \o q), (p \o q)[k].kind = "delta"
      PROVE  k = 1 /\ (p \o q)[k].text \in Deltas
  <2>1. CASE k \in DOMAIN p
    BY <1>4, <1>7, <2>1 DEF Events
  <2>2. CASE k - Len(p) \in DOMAIN q
    <3>1. (p \o q)[k] = q[k - Len(p)]
      BY <1>4, <2>2
    <3> QED BY <1>7, <2>2, <3>1 DEF NoDelta
  <2> QED BY <1>5, <2>1, <2>2
<1>8. Queued(p \o q) = Queued(p)
  <2>1. CASE p = <<>>
    <3>1. p \o q = q
      BY <1>3, <2>1
    <3>2. q # <<>> => Head(q).kind # "delta"
      BY <1>2 DEF NoDelta
    <3> QED BY <2>1, <3>1, <3>2 DEF Queued
  <2>2. CASE p # <<>>
    <3>1. p \o q # <<>> /\ Head(p \o q) = Head(p)
      BY <1>3, <2>2
    <3> QED BY <2>2, <3>1 DEF Queued
  <2> QED BY <2>1, <2>2
<1> QED BY <1>6, <1>7, <1>8 DEF Events

\* The calls of an answer and its end are no deltas.
LEMMA CallsFollow ==
  ASSUME NEW p, Events(p), NEW n \in Nat, NEW c, c = [i \in 1..n |-> c[i]],
         \A i \in 1..n : c[i].kind = "call"
  PROVE  /\ Events(p \o c \o <<Done>>) /\ Queued(p \o c \o <<Done>>) = Queued(p)
         /\ Events(c \o <<Done>>) /\ Queued(c \o <<Done>>) = <<>>
<1>1. c \in Seq({c[i] : i \in 1..n}) /\ DOMAIN c = 1..n
  OBVIOUS
<1>2. IsSeq(c) /\ NoDelta(c)
  BY <1>1 DEF IsSeq, NoDelta
<1>3. <<Done>> \in Seq({Done}) /\ DOMAIN <<Done>> = 1..1 /\ <<Done>>[1] = Done
  OBVIOUS
<1>4. IsSeq(<<Done>>) /\ NoDelta(<<Done>>)
  <2>1. \A k \in 1..1 : <<Done>>[k].kind # "delta"
    BY DEF Done
  <2> QED BY <1>3, <2>1 DEF IsSeq, NoDelta
<1>5. Events(p \o c) /\ Queued(p \o c) = Queued(p)
  BY <1>2, EventsFollow
<1>6. Events(c) /\ Queued(c) = <<>>
  <2>1. c # <<>> => Head(c).kind # "delta"
    BY <1>1, <1>2 DEF NoDelta
  <2> QED BY <1>2, <2>1 DEF Events, NoDelta, Queued
<1> QED BY <1>4, <1>5, <1>6, EventsFollow

LEMMA MapperFinishes ==
  ASSUME NEW slots, IsSeq(slots)
  PROVE  Events(MapperFinish(slots)) /\ Queued(MapperFinish(slots)) = <<>>
<1> DEFINE complete == {i \in DOMAIN slots : Named(slots[i])}
           At(k) == CHOOSE i \in complete : Cardinality({j \in complete : j <= i}) = k
           n == Cardinality(complete)
           c == [k \in 1..n |-> ToolCall(slots[At(k)])]
<1>1. IsFiniteSet(1..Len(slots)) /\ complete \subseteq 1..Len(slots)
  BY FS_Interval DEF IsSeq
<1>2. n \in Nat
  BY <1>1, FS_Subset, FS_CardinalityType
<1>3. MapperFinish(slots) = c \o <<Done>>
  BY DEF MapperFinish
<1>4. \A i \in 1..n : c[i].kind = "call"
  BY DEF ToolCall
<1>5. c = [i \in 1..n |-> c[i]]
  OBVIOUS
<1> HIDE DEF c, n
<1>6. Events(c \o <<Done>>) /\ Queued(c \o <<Done>>) = <<>>
  BY <1>2, <1>4, <1>5, EmptyEvents, CallsFollow
<1> QED BY <1>3, <1>6

\* The first event is taken.
LEMMA TailOfEvents ==
  ASSUME NEW q, Events(q), q # <<>>
  PROVE  Events(Tail(q)) /\ Queued(Tail(q)) = <<>>
<1>1. PICK S : q \in Seq(S)
  BY DEF Events, IsSeq
<1>2. /\ Tail(q) \in Seq(S) /\ Len(q) \in Nat /\ Len(q) > 0 /\ Len(Tail(q)) = Len(q) - 1
      /\ DOMAIN q = 1..Len(q) /\ DOMAIN Tail(q) = 1..Len(q) - 1
      /\ \A k \in 1..Len(q) - 1 : Tail(q)[k] = q[k + 1]
  BY <1>1
<1>3. IsSeq(Tail(q))
  BY <1>2 DEF IsSeq
<1>4. NoDelta(Tail(q))
  <2> SUFFICES ASSUME NEW k \in 1..Len(q) - 1 PROVE q[k + 1].kind # "delta"
    BY <1>2 DEF NoDelta
  <2>1. k + 1 \in DOMAIN q /\ k + 1 # 1
    BY <1>2
  <2> QED BY <2>1 DEF Events
<1>5. Tail(q) # <<>> => Head(Tail(q)).kind # "delta"
  BY <1>2, <1>4 DEF NoDelta
<1> QED BY <1>3, <1>4, <1>5 DEF Events, NoDelta, Queued

-----------------------------------------------------------------------------
(* The accumulator is a sequence.                                          *)

LEMMA AccumulatesSlots ==
  ASSUME NEW slots, IsSeq(slots), NEW frag \in Fragments, NEW n
  PROVE  IsSeq(Accumulate(slots, frag, n))
<1> DEFINE m == IF frag.index < Len(slots) THEN Len(slots) ELSE frag.index + 1
           grown == EnsureSlot(slots, frag.index)
           a == Accumulate(slots, frag, n)
<1>1. m \in Nat
  BY SeqLen, AnswerAssumption DEF Fragments
<1>2. a = [i \in 1..m |-> a[i]]
  BY DEF Accumulate, EnsureSlot
<1> HIDE DEF a, m
<1>3. a \in Seq({a[i] : i \in 1..m})
  BY <1>1, <1>2
<1> QED BY <1>3 DEF IsSeq, a

-----------------------------------------------------------------------------
(* The round's invariant.                                                  *)

Early == {"send", "peek", "body"}

\* What upstream sent is the text pushed to the chunker and the delta in the queue.
TextFlows ==
  /\ received \in Seq(Chars) /\ Len(received) <= MaxText
  /\ text \o Queued(queue) = received

\* A finished chunker has nothing to come, and nothing but blanks pending.
FinishedIsLast ==
  chunking = "finished" =>
    /\ queue = <<>> /\ pc \in {"say", "ended", "failed"}
    /\ \A i \in taken+1..Len(text) : Blank(i)

Round ==
  /\ Whole
  /\ pc \in Early \cup {"poll", "say", "ended", "failed"}
  /\ IsSeq(acc) /\ Events(queue)
  /\ TextFlows
  /\ pc \in Early => text = <<>> /\ queue = <<>>
  /\ FinishedIsLast
  /\ pc = "ended" => chunking = "finished" /\ said = Len(chunks)

LEMMA RoundInit == ASSUME Init PROVE Round
<1>1. Whole
  BY WholeInit DEF Init
<1>2. <<>> \in Seq({})
  OBVIOUS
<1>3. <<>> \in Seq(Chars) /\ Len(<<>>) = 0 /\ <<>> \o <<>> = <<>>
  OBVIOUS
<1> QED BY <1>1, <1>2, <1>3, EmptyEvents, ChunkerAssumption
     DEF Init, ChunkerInit, Round, TextFlows, FinishedIsLast, Early, IsSeq

\* finish leaves only blanks pending.
LEMMA FinishDrains ==
  ASSUME ChunkerTypeOK, Finish
  PROVE  \A i \in taken'+1..Len(text') : Blank(i)'
<1>1. PICK s \in taken..Len(text), t \in taken..Len(text) :
        /\ TrimEnd(Len(text), t)
        /\ IF s < t THEN TakeRange(s, t) ELSE taken' = Len(text) /\ UNCHANGED chunks
  BY DEF Finish
<1>2. UNCHANGED text /\ Len(text) \in Nat /\ taken \in Nat
  BY DEF Finish, ChunkerTypeOK
<1>3. CASE s < t
  <2>1. taken' = t
    BY <1>1, <1>3 DEF TakeRange
  <2> QED BY <1>1, <1>2, <2>1 DEF TrimEnd, Blank
<1>4. CASE ~(s < t)
  BY <1>1, <1>2, <1>4
<1> QED BY <1>3, <1>4

-----------------------------------------------------------------------------
(* The chunker's part of every step is a step of ChunkerNext.              *)

LEMMA DeltaIsPushed ==
  ASSUME Round, TakeDelta
  PROVE  /\ Pushes
         /\ Head(queue).text \in Deltas /\ Queued(queue) = Head(queue).text
<1>1. queue # <<>> /\ Head(queue).kind = "delta" /\ Push(Head(queue).text)
  BY DEF TakeDelta
<1>2. PICK S : queue \in Seq(S)
  BY DEF Round, Events, IsSeq
<1>3. 1 \in DOMAIN queue /\ Head(queue) = queue[1]
  BY <1>1, <1>2
<1>4. Head(queue).text \in Deltas
  BY <1>1, <1>3 DEF Round, Events
<1>5. Queued(queue) = Head(queue).text
  BY <1>1 DEF Queued
<1>6. text \in Seq(Chars) /\ Head(queue).text \in Seq(Chars)
  BY <1>4, ChunkerAssumption DEF Round, Whole, ChunkerTypeOK
<1>7. Len(text) + Len(Head(queue).text) = Len(received) /\ Len(received) <= MaxText
  BY <1>5, <1>6 DEF Round, TextFlows
<1>8. Len(text) + Len(Head(queue).text) <= MaxText
  BY <1>7
<1> QED BY <1>1, <1>4, <1>5, <1>8 DEF Pushes

LEMMA StepIsChunkerStep ==
  ASSUME Round, [Next]_vars
  PROVE  [ChunkerNext]_chunkVars
<1>1. CASE UNCHANGED chunkVars
  BY <1>1
<1>2. CASE TakeDelta
  BY <1>2, DeltaIsPushed DEF ChunkerNext
<1>3. CASE FlushRemainder
  BY <1>3 DEF FlushRemainder, ChunkerNext
<1>4. CASE Chunking
  BY <1>4 DEF Chunking, ChunkerNext
<1>5. UNCHANGED chunkVars \/ TakeDelta \/ FlushRemainder \/ Chunking
  BY DEF Next, Request, Read, Consume, Speak, Over, SendFails, Rejected, Accepted, Peek,
         ReadBody, ReadBodyNoChoice, ReadBodyFails, Payload, PayloadFails, StreamEnds,
         Stalls, TakeCall, Synthesize, SynthesisFails, AllSaid, vars
<1> QED BY <1>1, <1>2, <1>3, <1>4, <1>5

-----------------------------------------------------------------------------
(* The steps.                                                              *)

\* A step that leaves the text where it is need only keep the rules about pc.
LEMMA QuietKeeps ==
  ASSUME Round, Whole', UNCHANGED <<chunkVars, queue, received, acc>>,
         pc' \in Early \cup {"poll", "say", "ended", "failed"},
         pc' \in Early => pc \in Early,
         chunking = "finished" => pc' \in {"say", "ended", "failed"},
         pc' = "ended" => chunking = "finished" /\ said' = Len(chunks)
  PROVE  Round'
<1>1. UNCHANGED <<text, taken, chunks, chunking, queue, received, acc>>
  BY DEF chunkVars
<1>2. TextFlows'
  BY <1>1 DEF Round, TextFlows
<1>3. FinishedIsLast'
  BY <1>1 DEF Round, FinishedIsLast, Blank
<1> QED BY <1>1, <1>2, <1>3 DEF Round

LEMMA RequestKeeps ==
  ASSUME Round, Whole', Request
  PROVE  Round'
<1> USE DEF Early
<1>1. pc \in Early /\ text = <<>> /\ queue = <<>> /\ chunking # "finished"
  BY DEF Request, SendFails, Rejected, Accepted, Peek, ReadBody, ReadBodyNoChoice,
         ReadBodyFails, Round, FinishedIsLast
<1>2. CASE SendFails \/ ReadBodyNoChoice \/ ReadBodyFails
  BY <1>1, <1>2, QuietKeeps DEF SendFails, ReadBodyNoChoice, ReadBodyFails
<1>3. ASSUME NEW b \in BOOLEAN, Rejected(b) PROVE Round'
  BY <1>1, <1>3, QuietKeeps DEF Rejected
<1>4. ASSUME NEW c \in {"sse", "json", "other"}, Accepted(c) PROVE Round'
  BY <1>1, <1>4, QuietKeeps DEF Accepted
<1>5. ASSUME NEW b \in BOOLEAN, Peek(b) PROVE Round'
  BY <1>1, <1>5, QuietKeeps DEF Peek
<1>6. ASSUME NEW t \in Deltas \cup {<<>>}, NEW n \in 0..1, ReadBody(t, n) PROVE Round'
  <2> DEFINE c == [i \in 1..n |-> ToolCall([named |-> i, args |-> <<i>>])]
  <2>1. queue' = TextEvents(t) \o c \o <<Done>> /\ received' = t /\ pc' = "poll"
        /\ UNCHANGED <<chunkVars, acc>> /\ Len(t) <= MaxText
    BY <1>6 DEF ReadBody
  <2>2. c = [i \in 1..n |-> c[i]]
    OBVIOUS
  <2>3. \A i \in 1..n : c[i].kind = "call"
    BY DEF ToolCall
  <2> HIDE DEF c
  <2>4. Events(queue') /\ Queued(queue') = t
    <3>1. n \in Nat
      OBVIOUS
    <3>2. Events(TextEvents(t)) /\ Queued(TextEvents(t)) = t
      BY TextBecomesEvents
    <3> HIDE DEF TextEvents
    <3>3. /\ Events(TextEvents(t) \o c \o <<Done>>)
          /\ Queued(TextEvents(t) \o c \o <<Done>>) = Queued(TextEvents(t))
      BY <3>1, <3>2, <2>2, <2>3, CallsFollow
    <3> QED BY <2>1, <3>2, <3>3
  <2>5. t \in Seq(Chars) /\ <<>> \o t = t
    <3>1. t \in Seq(Chars)
      BY DeltaIsText
    <3> QED BY <3>1
  <2>6. UNCHANGED <<text, taken, chunking>>
    BY <2>1 DEF chunkVars
  <2>7. TextFlows'
    BY <1>1, <2>1, <2>4, <2>5, <2>6 DEF TextFlows
  <2>8. FinishedIsLast'
    BY <1>1, <2>6 DEF FinishedIsLast
  <2> QED BY <2>1, <2>4, <2>7, <2>8 DEF Round
<1> QED BY <1>2, <1>3, <1>4, <1>5, <1>6 DEF Request

LEMMA ReadKeeps ==
  ASSUME Round, Whole', Read
  PROVE  Round'
<1> USE DEF Early
<1>1. /\ pc = "poll" /\ queue = <<>> /\ chunking # "finished"
      /\ text = received /\ received \in Seq(Chars)
  <2>1. pc = "poll" /\ queue = <<>>
    BY DEF Read, Payload, PayloadFails, StreamEnds, Stalls, Reading
  <2>2. text \o <<>> = text
    BY DEF Round, Whole, ChunkerTypeOK
  <2> QED BY <2>1, <2>2, EmptyEvents DEF Round, TextFlows, FinishedIsLast
<1>2. CASE PayloadFails \/ Stalls
  BY <1>1, <1>2, QuietKeeps DEF PayloadFails, Stalls
<1>3. CASE StreamEnds
  <2>1. queue' = MapperFinish(acc)
        /\ UNCHANGED <<text, taken, chunking, pc, received, acc>>
    BY <1>3 DEF StreamEnds, chunkVars
  <2>2. Events(queue') /\ Queued(queue') = Queued(queue)
    BY <1>1, <2>1, MapperFinishes, EmptyEvents DEF Round
  <2>3. TextFlows'
    BY <2>1, <2>2 DEF Round, TextFlows
  <2>4. FinishedIsLast'
    BY <1>1, <2>1 DEF FinishedIsLast
  <2> QED BY <1>1, <2>1, <2>2, <2>3, <2>4 DEF Round
<1>4. ASSUME NEW t \in Deltas \cup {<<>>}, NEW fs \in {<<>>} \cup {<<f>> : f \in Fragments},
             Payload(t, fs)
      PROVE  Round'
  <2>1. /\ received' = received \o t /\ Len(received) + Len(t) <= MaxText
        /\ queue' = TextEvents(t)
        /\ acc' = IF fs = <<>> THEN acc ELSE Accumulate(acc, fs[1], Len(frags) + 1)
        /\ UNCHANGED <<text, taken, chunking, pc>>
    BY <1>4 DEF Payload, chunkVars
  <2>2. Events(queue') /\ Queued(queue') = t
    BY <2>1, TextBecomesEvents
  <2>3. t \in Seq(Chars)
    BY DeltaIsText
  <2>4. TextFlows'
    <3>1. received' \in Seq(Chars) /\ Len(received') = Len(received) + Len(t)
      BY <1>1, <2>1, <2>3
    <3> QED BY <1>1, <2>1, <2>2, <3>1 DEF TextFlows
  <2>5. IsSeq(acc')
    <3>1. fs # <<>> => fs[1] \in Fragments
      OBVIOUS
    <3> QED BY <2>1, <3>1, AccumulatesSlots DEF Round
  <2>6. FinishedIsLast'
    BY <1>1, <2>1 DEF FinishedIsLast
  <2> QED BY <1>1, <2>1, <2>2, <2>4, <2>5, <2>6 DEF Round
<1> QED BY <1>2, <1>3, <1>4 DEF Read

LEMMA ConsumeKeeps ==
  ASSUME Round, Whole', Consume
  PROVE  Round'
<1> USE DEF Early
<1>1. CASE TakeDelta
  <2>1. /\ text' = text \o Queued(queue) /\ queue' = Tail(queue) /\ queue # <<>>
        /\ pc' = "say" /\ chunking' = "emitting" /\ UNCHANGED <<acc, received>>
    BY <1>1, DeltaIsPushed DEF TakeDelta, Push
  <2>2. Events(queue') /\ Queued(queue') = <<>>
    BY <2>1, TailOfEvents DEF Round
  <2>3. text' = received /\ received \in Seq(Chars) /\ received \o <<>> = received
    BY <2>1 DEF Round, TextFlows
  <2>4. TextFlows'
    BY <2>1, <2>2, <2>3 DEF Round, TextFlows
  <2> QED BY <2>1, <2>2, <2>4 DEF Round, FinishedIsLast
<1>2. CASE TakeCall
  <2>1. /\ queue # <<>> /\ Head(queue).kind # "delta" /\ queue' = Tail(queue) /\ pc = "poll"
        /\ UNCHANGED <<text, taken, chunks, chunking, pc, acc, received>>
    BY <1>2 DEF TakeCall, chunkVars
  <2>2. Events(queue') /\ Queued(queue') = Queued(queue)
    BY <2>1, TailOfEvents DEF Round, Queued
  <2>3. TextFlows'
    BY <2>1, <2>2 DEF Round, TextFlows
  <2> QED BY <2>1, <2>2, <2>3 DEF Round, FinishedIsLast
<1>3. CASE FlushRemainder
  <2>1. Finish /\ queue = <<>> /\ pc' = "say" /\ UNCHANGED <<acc, queue, received>>
    BY <1>3 DEF FlushRemainder
  <2>2. UNCHANGED text /\ \A i \in taken'+1..Len(text') : Blank(i)'
    BY <2>1, FinishDrains DEF Finish, Round, Whole
  <2>3. TextFlows'
    BY <2>1, <2>2 DEF Round, TextFlows
  <2> QED BY <2>1, <2>2, <2>3 DEF Round, FinishedIsLast
<1>4. CASE AllSaid
  <2>1. /\ pc = "say" /\ said = Len(chunks)
        /\ pc' = IF chunking = "finished" THEN "ended" ELSE "poll"
        /\ UNCHANGED <<chunkVars, queue, received, acc, said>>
    BY <1>4 DEF AllSaid
  <2> QED BY <2>1, QuietKeeps
<1> QED BY <1>1, <1>2, <1>3, <1>4 DEF Consume

LEMMA RoundNext == ASSUME Round, [Next]_vars PROVE Round'
<1> USE DEF Early
<1>1. Whole'
  BY StepIsChunkerStep, WholeNext DEF Round
<1>2. CASE Speak
  <2>1. /\ pc = "say" /\ pc' \in {"say", "failed"}
        /\ UNCHANGED <<chunkVars, queue, received, acc>>
    BY <1>2 DEF Speak, Synthesize, SynthesisFails
  <2> QED BY <1>1, <2>1, QuietKeeps
<1>3. CASE Chunking
  <2>1. /\ Emit /\ UNCHANGED <<queue, received, acc, pc>> /\ UNCHANGED text
        /\ chunking = "emitting" /\ chunking' # "finished"
    BY <1>3 DEF Chunking, streamVars, Emit, EmitSentence, EmitFlush, EmitReturns
  <2>2. TextFlows'
    BY <2>1 DEF Round, TextFlows
  <2> QED BY <1>1, <2>1, <2>2 DEF Round, FinishedIsLast
<1>4. CASE Over \/ UNCHANGED vars
  <2>1. UNCHANGED <<chunkVars, pc, said, queue, received, acc>>
    BY <1>4 DEF Over, vars, streamVars
  <2> QED BY <1>1, <2>1, QuietKeeps DEF Round, FinishedIsLast
<1> QED BY <1>1, <1>2, <1>3, <1>4, RequestKeeps, ReadKeeps, ConsumeKeeps DEF Next

-----------------------------------------------------------------------------
\* A round uses the chunker as the chunker's specification says: text is pushed when
\* emit_ready has come back, nothing is pushed behind finish.
THEOREM RoundImplementsChunker == Spec => ChunkerSpec
<1>1. Init => ChunkerInit
  BY DEF Init
<1> QED BY <1>1, RoundInit, RoundNext, StepIsChunkerStep, PTL DEF Spec, ChunkerSpec

\* So nothing of a round's text is lost, and its chunks are bounded.
COROLLARY RoundSpeaksText == Spec => [](NothingLost /\ LongOnlyForSentence)
BY RoundImplementsChunker, NothingIsLost, ChunksAreBounded, PTL

\* A round that ends has pushed all of upstream's text, emitted all of it that is not
\* blank, and said every chunk.
THEOREM AnswersAreWhole == Spec => []AnswerIsWhole
<1>1. ASSUME Round PROVE AnswerIsWhole
  <2> SUFFICES ASSUME pc = "ended"
               PROVE  /\ text = received
                      /\ said = Len(chunks)
                      /\ \A i \in DOMAIN text :
                           Blank(i) \/ \E k \in DOMAIN chunks :
                                         chunks[k].from < i /\ i <= chunks[k].to
    BY DEF AnswerIsWhole
  <2>1. /\ chunking = "finished" /\ said = Len(chunks) /\ queue = <<>>
        /\ \A i \in taken+1..Len(text) : Blank(i)
    BY <1>1 DEF Round, FinishedIsLast
  <2>2. text \in Seq(Chars) /\ taken \in 0..Len(text) /\ text \o <<>> = text
    BY <1>1 DEF Round, Whole, ChunkerTypeOK
  <2>3. text = received
    BY <1>1, <2>1, <2>2, EmptyEvents DEF Round, TextFlows
  <2>4. \A i \in DOMAIN text : i \in 1..taken \/ i \in taken+1..Len(text)
    BY <2>2
  <2> QED BY <1>1, <2>1, <2>3, <2>4 DEF Round, Whole, NothingLost
<1> QED BY <1>1, RoundInit, RoundNext, PTL DEF Spec

-----------------------------------------------------------------------------
(* The calls of an answer.                                                 *)

\* The fragments of a call, by the number under which they arrived.
Pieces(i) == {n \in DOMAIN frags : frags[n].index = i}

\* A slot holds the fragments of index i in the order they came, and is named by one
\* of them unless none names it.
HoldsCall(slot, i) ==
  /\ slot.args \in Seq(Nat)
  /\ {slot.args[p] : p \in DOMAIN slot.args} = Pieces(i)
  /\ \A p, q \in DOMAIN slot.args : p < q => slot.args[p] < slot.args[q]
  /\ IF Named(slot) THEN slot.named \in Pieces(i) ELSE \A n \in Pieces(i) : ~frags[n].first

\* The accumulator has a slot for every index that came.
SlotsHold ==
  /\ frags \in Seq(Fragments)
  /\ \A i \in DOMAIN acc : HoldsCall(acc[i], i - 1)
  /\ \A n \in DOMAIN frags : frags[n].index < Len(acc)

IndexOf(slot) == frags[slot.named].index

\* cs are the calls of the whole answer, in order.
Assembled(cs) ==
  /\ \A k \in DOMAIN cs : Named(cs[k]) /\ HoldsCall(cs[k], IndexOf(cs[k]))
  /\ \A k, l \in DOMAIN cs : k < l => IndexOf(cs[k]) < IndexOf(cs[l])
  /\ \A n \in DOMAIN frags : frags[n].first => \E k \in DOMAIN cs : IndexOf(cs[k]) = frags[n].index

\* The queue ends with the calls of cs from the m-th on.
QueueHolds(q, cs, m) ==
  \E d \in 0..1 :
    /\ Len(q) = d + (Len(cs) - m) + 1
    /\ d = 1 => q[1].kind = "delta"
    /\ \A k \in 1..Len(cs) - m : q[d + k] = ToolCall(cs[m + k])
    /\ q[Len(q)] = Done

\* The calls of cs that are not handed over are in the queue.
HandsOver(cs) ==
  /\ IsSeq(cs) /\ IsSeq(calls) /\ Len(calls) <= Len(cs)
  /\ \A k \in DOMAIN calls : calls[k] = cs[k]
  /\ IF queue = <<>> THEN Len(calls) = Len(cs) ELSE QueueHolds(queue, cs, Len(calls))

\* While the stream is open the calls are in the accumulator; from its end on they are
\* handed over.
CallsInv ==
  /\ pc \in Early => ~open /\ frags = <<>> /\ acc = <<>> /\ calls = <<>>
  /\ open => /\ SlotsHold /\ calls = <<>>
             /\ queue # <<>> => Len(queue) = 1 /\ queue[1].kind = "delta"
  /\ ~open /\ pc \in {"poll", "say", "ended"} => \E cs : HandsOver(cs) /\ Assembled(cs)
  /\ chunking = "finished" => ~open

\* The empty slot is that of an index that has not come.
LEMMA NoPieces ==
  ASSUME NEW i, \A n \in DOMAIN frags : frags[n].index # i
  PROVE  HoldsCall(EmptySlot, i)
<1>1. Pieces(i) = {}
  BY DEF Pieces
<1>2. EmptySlot.args = <<>> /\ EmptySlot.named = 0
  BY DEF EmptySlot
<1>3. <<>> \in Seq(Nat) /\ DOMAIN <<>> = {}
  OBVIOUS
<1> QED BY <1>1, <1>2, <1>3 DEF HoldsCall, Named

\* Without fragments there are no calls.
LEMMA NoFragments ==
  ASSUME frags = <<>>
  PROVE  /\ frags \in Seq(Fragments) /\ DOMAIN frags = {}
         /\ Assembled(<<>>) /\ IsSeq(<<>>) /\ Len(<<>>) = 0
<1>1. <<>> \in Seq(Fragments) /\ DOMAIN <<>> = {} /\ <<>> \in Seq({}) /\ Len(<<>>) = 0
  OBVIOUS
<1> QED BY <1>1 DEF Assembled, IsSeq

\* Every index that came has its slot.
LEMMA IndicesAreBounded ==
  ASSUME SlotsHold, NEW n \in DOMAIN frags
  PROVE  frags[n].index \in Nat /\ frags[n].index < Len(acc)
<1>1. frags \in Seq(Fragments) /\ frags[n].index < Len(acc)
  BY DEF SlotsHold
<1>2. frags[n] \in Fragments
  BY <1>1
<1> QED BY <1>1, <1>2, AnswerAssumption DEF Fragments

\* Growing the accumulator keeps what its slots hold.
LEMMA EnsureKeeps ==
  ASSUME SlotsHold, IsSeq(acc), NEW i \in Nat
  PROVE  \E m \in Nat :
           /\ i < m /\ Len(acc) <= m
           /\ EnsureSlot(acc, i) = [k \in 1..m |-> EnsureSlot(acc, i)[k]]
           /\ \A k \in 1..m : HoldsCall(EnsureSlot(acc, i)[k], k - 1)
<1> DEFINE m == IF i < Len(acc) THEN Len(acc) ELSE i + 1
           grown == EnsureSlot(acc, i)
<1>1. DOMAIN acc = 1..Len(acc) /\ Len(acc) \in Nat
  BY SeqLen
<1>2. m \in Nat /\ i < m /\ Len(acc) <= m
  BY <1>1
<1>3. grown = [k \in 1..m |-> IF k <= Len(acc) THEN acc[k] ELSE EmptySlot]
  BY DEF EnsureSlot
<1> HIDE DEF m, grown
<1>4. ASSUME NEW k \in 1..m PROVE HoldsCall(grown[k], k - 1)
  <2>1. k \in Nat /\ 1 <= k
    BY <1>2
  <2>2. CASE k <= Len(acc)
    <3>1. k \in DOMAIN acc
      BY <1>1, <2>1, <2>2
    <3>2. grown[k] = acc[k]
      BY <1>3, <2>2
    <3> QED BY <3>1, <3>2 DEF SlotsHold
  <2>3. CASE ~(k <= Len(acc))
    <3>1. grown[k] = EmptySlot
      BY <1>3, <2>3
    <3>2. k - 1 \in Nat /\ Len(acc) <= k - 1
      BY <1>1, <2>1, <2>3
    <3>3. ASSUME NEW n \in DOMAIN frags PROVE frags[n].index # k - 1
      <4>1. frags[n].index \in Nat /\ frags[n].index < Len(acc)
        BY IndicesAreBounded
      <4> QED BY <1>1, <3>2, <4>1
    <3> QED BY <3>1, <3>3, NoPieces
  <2> QED BY <2>2, <2>3
<1>5. grown = [k \in 1..m |-> grown[k]]
  BY <1>3
<1> QED BY <1>2, <1>4, <1>5 DEF grown

\* One more fragment is a piece of its call.
LEMMA FragmentArrives ==
  ASSUME frags \in Seq(Fragments), NEW f \in Fragments, frags' = frags \o <<f>>
  PROVE  /\ frags' \in Seq(Fragments)
         /\ DOMAIN frags = 1..Len(frags) /\ Len(frags) \in Nat
         /\ DOMAIN frags' = DOMAIN frags \cup {Len(frags) + 1}
         /\ \A n \in DOMAIN frags : frags'[n] = frags[n]
         /\ frags'[Len(frags) + 1] = f
         /\ Len(frags) + 1 \notin DOMAIN frags
<1>1. frags' = Append(frags, f) /\ Len(frags) \in Nat /\ DOMAIN frags = 1..Len(frags)
  OBVIOUS
<1>2. frags' \in Seq(Fragments) /\ Len(frags') = Len(frags) + 1
  BY <1>1
<1>3. DOMAIN frags' = 1..Len(frags) + 1
  BY <1>2
<1>4. \A n \in DOMAIN frags : frags'[n] = frags[n]
  BY <1>1
<1>5. frags'[Len(frags) + 1] = f
  BY <1>1
<1>6. DOMAIN frags' = DOMAIN frags \cup {Len(frags) + 1} /\ Len(frags) + 1 \notin DOMAIN frags
  BY <1>1, <1>3
<1> QED BY <1>1, <1>2, <1>4, <1>5, <1>6

\* A fragment leaves the slots of the other calls as they are,
LEMMA OthersKeep ==
  ASSUME frags \in Seq(Fragments), NEW f \in Fragments, frags' = frags \o <<f>>,
         NEW i, i # f.index, NEW slot, HoldsCall(slot, i)
  PROVE  HoldsCall(slot, i)'
<1>1. Pieces(i)' = Pieces(i) /\ \A n \in Pieces(i) : frags'[n] = frags[n]
  BY FragmentArrives DEF Pieces
<1> QED BY <1>1 DEF HoldsCall, Named

\* and is the last piece of its own.
LEMMA SlotTakes ==
  ASSUME frags \in Seq(Fragments), NEW f \in Fragments, frags' = frags \o <<f>>,
         NEW slot, HoldsCall(slot, f.index), NEW s,
         s = [named |-> IF f.first THEN Len(frags) + 1 ELSE slot.named,
              args |-> Append(slot.args, Len(frags) + 1)]
  PROVE  HoldsCall(s, f.index)'
<1> DEFINE n == Len(frags) + 1
           P == Pieces(f.index)
<1>1. /\ Pieces(f.index)' = P \cup {n} /\ \A k \in P : frags'[k] = frags[k]
      /\ frags'[n] = f
  BY FragmentArrives DEF Pieces
<1>2. \A k \in P : k \in Nat /\ k < n
  BY DEF Pieces
<1>3. n \in Nat \ {0}
  BY FragmentArrives
<1>4. /\ slot.args \in Seq(Nat)
      /\ {slot.args[p] : p \in DOMAIN slot.args} = P
      /\ \A p, q \in DOMAIN slot.args : p < q => slot.args[p] < slot.args[q]
      /\ IF Named(slot) THEN slot.named \in P ELSE \A k \in P : ~frags[k].first
  BY DEF HoldsCall
<1>5. s.named = IF f.first THEN n ELSE slot.named
  OBVIOUS
<1>6. s.args = Append(slot.args, n)
  OBVIOUS
<1> HIDE DEF n, P
<1> DEFINE l == Len(slot.args)
<1>7. /\ l \in Nat /\ DOMAIN slot.args = 1..l
      /\ s.args \in Seq(Nat) /\ DOMAIN s.args = 1..l + 1 /\ s.args[l + 1] = n
      /\ \A p \in 1..l : s.args[p] = slot.args[p]
  BY <1>3, <1>4, <1>6
<1> HIDE DEF l
<1>8. {s.args[p] : p \in DOMAIN s.args} = P \cup {n}
  <2>1. 1..l + 1 = 1..l \cup {l + 1}
    BY <1>7
  <2> QED BY <1>4, <1>7, <2>1
<1>9. ASSUME NEW p \in DOMAIN s.args, NEW q \in DOMAIN s.args, p < q
      PROVE  s.args[p] < s.args[q]
  <2>1. p \in 1..l /\ (q \in 1..l \/ q = l + 1)
    BY <1>7, <1>9
  <2>2. s.args[p] = slot.args[p] /\ slot.args[p] \in P
    BY <1>4, <1>7, <2>1
  <2>3. CASE q \in 1..l
    BY <1>4, <1>7, <1>9, <2>1, <2>3
  <2>4. CASE q = l + 1
    BY <1>2, <1>7, <2>2, <2>4
  <2> QED BY <2>1, <2>3, <2>4
<1>10. IF Named(s) THEN s.named \in P \cup {n} ELSE \A k \in P \cup {n} : ~frags'[k].first
  <2>1. CASE f.first
    BY <1>3, <1>5, <2>1 DEF Named
  <2>2. CASE ~f.first
    <3>1. s.named = slot.named
      BY <1>5, <2>2
    <3> QED BY <1>1, <1>4, <2>2, <3>1 DEF Named
  <2> QED BY <2>1, <2>2
<1> QED BY <1>1, <1>7, <1>8, <1>9, <1>10 DEF HoldsCall, Named

\* Accumulate keeps the accumulator in step with the fragments.
LEMMA AccumulateHolds ==
  ASSUME SlotsHold, IsSeq(acc), NEW f \in Fragments, frags' = frags \o <<f>>,
         acc' = Accumulate(acc, f, Len(frags) + 1)
  PROVE  SlotsHold'
<1> DEFINE n == Len(frags) + 1
           j == f.index + 1
<1>1. f.index \in Nat /\ frags \in Seq(Fragments) /\ Len(acc) \in Nat
  <2>1. Len(acc) \in Nat
    BY SeqLen
  <2> QED BY <2>1, AnswerAssumption DEF Fragments, SlotsHold
<1>2. PICK grown : grown = EnsureSlot(acc, f.index)
  OBVIOUS
<1>3. PICK m \in Nat :
        /\ f.index < m /\ Len(acc) <= m /\ grown = [k \in 1..m |-> grown[k]]
        /\ \A k \in 1..m : HoldsCall(grown[k], k - 1)
  BY <1>1, <1>2, EnsureKeeps
<1>4. acc' = [grown EXCEPT ![j] = [named |-> IF f.first THEN n ELSE @.named,
                                   args |-> Append(@.args, n)]]
  BY <1>2 DEF Accumulate
<1> HIDE DEF n
<1>5. j \in 1..m
  BY <1>1, <1>3
<1> HIDE DEF j
<1>6. /\ acc' = [k \in 1..m |-> acc'[k]]
      /\ acc'[j] = [named |-> IF f.first THEN n ELSE grown[j].named,
                    args |-> Append(grown[j].args, n)]
      /\ \A k \in 1..m : k # j => acc'[k] = grown[k]
  BY <1>3, <1>4, <1>5
<1>7. IsSeq(acc)' /\ DOMAIN acc' = 1..m /\ Len(acc') = m
  <2>1. IsSeq(acc)'
    BY AccumulatesSlots
  <2>2. DOMAIN acc' = 1..m
    BY <1>6
  <2>3. DOMAIN acc' = 1..Len(acc') /\ Len(acc') \in Nat
    BY <2>1, SeqLen
  <2>4. Len(acc') = m
    BY <2>2, <2>3
  <2> QED BY <2>1, <2>2, <2>4
<1>8. ASSUME NEW i \in 1..m PROVE HoldsCall(acc[i], i - 1)'
  <2>1. CASE i = j
    <3>1. PICK slot : slot = grown[j]
      OBVIOUS
    <3>2. PICK s : s = [named |-> IF f.first THEN n ELSE slot.named, args |-> Append(slot.args, n)]
      OBVIOUS
    <3>3. acc'[i] = s
      BY <1>6, <2>1, <3>1, <3>2
    <3>4. i - 1 = f.index
      BY <1>1, <2>1 DEF j
    <3>5. HoldsCall(slot, f.index)
      BY <1>3, <1>5, <2>1, <3>1, <3>4
    <3>6. HoldsCall(s, f.index)'
      BY <1>1, <3>2, <3>5, SlotTakes DEF n
    <3> QED BY <3>3, <3>4, <3>6
  <2>2. CASE i # j
    <3>1. PICK slot : slot = grown[i]
      OBVIOUS
    <3>2. acc'[i] = slot
      BY <1>6, <2>2, <3>1
    <3>3. i - 1 # f.index
      BY <1>1, <1>3, <2>2 DEF j
    <3>4. HoldsCall(slot, i - 1)
      BY <1>3, <3>1
    <3>5. HoldsCall(slot, i - 1)'
      BY <1>1, <3>3, <3>4, OthersKeep
    <3> QED BY <3>2, <3>5
  <2> QED BY <2>1, <2>2
<1>9. ASSUME NEW k \in DOMAIN frags' PROVE frags'[k].index < m
  <2>1. CASE k \in DOMAIN frags
    <3>1. frags'[k] = frags[k]
      BY <1>1, <2>1, FragmentArrives
    <3>2. frags[k].index \in Nat /\ frags[k].index < Len(acc)
      BY <2>1, IndicesAreBounded
    <3> QED BY <1>1, <1>3, <3>1, <3>2
  <2>2. CASE k \notin DOMAIN frags
    <3>1. frags'[k] = f
      BY <1>1, <2>2, FragmentArrives
    <3> QED BY <1>3, <3>1
  <2> QED BY <2>1, <2>2
<1>10. frags' \in Seq(Fragments)
  BY <1>1, FragmentArrives
<1> QED BY <1>7, <1>8, <1>9, <1>10 DEF SlotsHold

\* A named slot's call is the one of its index.
LEMMA NamedSlot ==
  ASSUME SlotsHold, NEW i \in DOMAIN acc, Named(acc[i])
  PROVE  IndexOf(acc[i]) = i - 1 /\ HoldsCall(acc[i], i - 1)
<1>1. HoldsCall(acc[i], i - 1)
  BY DEF SlotsHold
<1>2. acc[i].named \in Pieces(i - 1)
  BY <1>1 DEF HoldsCall
<1> QED BY <1>1, <1>2 DEF Pieces, IndexOf

\* A fragment that names its call has named the slot of its index.
LEMMA FirstIsNamed ==
  ASSUME SlotsHold, IsSeq(acc), NEW n \in DOMAIN frags, frags[n].first
  PROVE  frags[n].index + 1 \in DOMAIN acc /\ Named(acc[frags[n].index + 1])
<1> DEFINE i == frags[n].index + 1
<1>1. frags[n].index \in Nat /\ frags[n].index < Len(acc)
  BY IndicesAreBounded
<1>2. i \in DOMAIN acc /\ i - 1 = frags[n].index
  BY <1>1, SeqLen
<1>3. HoldsCall(acc[i], i - 1)
  BY <1>2 DEF SlotsHold
<1>4. n \in Pieces(i - 1)
  BY <1>2 DEF Pieces
<1> HIDE DEF i
<1>5. Named(acc[i])
  BY <1>3, <1>4 DEF HoldsCall
<1> QED BY <1>2, <1>5 DEF i

\* A function on 1..n is a sequence of length n.
LEMMA FunctionIsSeq ==
  ASSUME NEW n \in Nat, NEW c
  PROVE  c = [k \in 1..n |-> c[k]] => IsSeq(c) /\ Len(c) = n /\ DOMAIN c = 1..n
<1>1. SUFFICES ASSUME c = [k \in 1..n |-> c[k]]
               PROVE  IsSeq(c) /\ Len(c) = n /\ DOMAIN c = 1..n
  OBVIOUS
<1>2. c \in Seq({c[k] : k \in 1..n})
  BY <1>1
<1>3. DOMAIN c = 1..n
  BY <1>1
<1>4. Len(c) = n
  BY <1>2, <1>3
<1> QED BY <1>2, <1>3, <1>4 DEF IsSeq

\* One event more behind a sequence of events.
LEMMA AppendDone ==
  ASSUME NEW c, IsSeq(c)
  PROVE  /\ Len(c \o <<Done>>) = Len(c) + 1 /\ c \o <<Done>> # <<>>
         /\ (c \o <<Done>>)[Len(c) + 1] = Done
         /\ \A k \in 1..Len(c) : (c \o <<Done>>)[k] = c[k]
<1>1. PICK S : c \in Seq(S)
  BY DEF IsSeq
<1> DEFINE E == S \cup {Done}
<1>2. c \in Seq(E) /\ <<Done>> \in Seq(E) /\ Len(<<Done>>) = 1 /\ <<Done>>[1] = Done
  BY <1>1
<1> QED BY <1>2

\* The calls of one answer, followed by its end.
LEMMA CallsQueued ==
  ASSUME NEW n \in Nat, NEW cs
  PROVE  LET q == [k \in 1..n |-> ToolCall(cs[k])] \o <<Done>> IN
         cs = [k \in 1..n |-> cs[k]] =>
           IsSeq(cs) /\ Len(cs) = n /\ DOMAIN cs = 1..n /\ QueueHolds(q, cs, 0) /\ q # <<>>
<1> DEFINE c == [k \in 1..n |-> ToolCall(cs[k])]
           q == c \o <<Done>>
<1>1. SUFFICES ASSUME cs = [k \in 1..n |-> cs[k]]
               PROVE  /\ IsSeq(cs) /\ Len(cs) = n /\ DOMAIN cs = 1..n
                      /\ QueueHolds(q, cs, 0) /\ q # <<>>
  OBVIOUS
<1>2. IsSeq(cs) /\ Len(cs) = n /\ DOMAIN cs = 1..n
  BY <1>1, FunctionIsSeq
<1>3. c = [k \in 1..n |-> c[k]] /\ \A k \in 1..n : c[k] = ToolCall(cs[k])
  OBVIOUS
<1> HIDE DEF c
<1>4. IsSeq(c) /\ Len(c) = n
  BY <1>3, FunctionIsSeq
<1>5. /\ Len(q) = n + 1 /\ q[n + 1] = Done /\ q # <<>>
      /\ \A k \in 1..n : q[k] = c[k]
  BY <1>4, AppendDone
<1> HIDE DEF q
<1>6. \A k \in 1..n : q[0 + k] = ToolCall(cs[0 + k])
  BY <1>3, <1>5
<1>7. QueueHolds(q, cs, 0)
  <2>1. n - 0 = n /\ Len(q) = 0 + n + 1 /\ q[Len(q)] = Done
    BY <1>5
  <2> QED BY <1>2, <1>6, <2>1 DEF QueueHolds
<1> QED BY <1>2, <1>5, <1>7 DEF q, c

\* MapperFinish queues every named slot once, by ascending index.
LEMMA FinishAssembles ==
  ASSUME SlotsHold, IsSeq(acc)
  PROVE  /\ MapperFinish(acc) # <<>>
         /\ \E cs : IsSeq(cs) /\ Assembled(cs) /\ QueueHolds(MapperFinish(acc), cs, 0)
<1> DEFINE complete == {i \in DOMAIN acc : Named(acc[i])}
           At(k) == CHOOSE i \in complete : Rank(i, complete) = k
           n == Cardinality(complete)
           cs == [k \in 1..n |-> acc[At(k)]]
<1>1. Len(acc) \in Nat /\ DOMAIN acc = 1..Len(acc) /\ complete \in SUBSET (1..Len(acc))
  BY SeqLen
<1>2. MapperFinish(acc) = [k \in 1..n |-> ToolCall(acc[At(k)])] \o <<Done>>
  BY DEF MapperFinish, Rank
<1>3. \A i \in complete : i \in DOMAIN acc /\ Named(acc[i]) /\ i \in Int
  BY <1>1
<1>4. \A i \in DOMAIN acc : Named(acc[i]) => i \in complete
  OBVIOUS
<1> HIDE DEF complete
<1>5. /\ \A k \in 1..n : At(k) \in complete
      /\ \A k, l \in 1..n : k < l => At(k) < At(l)
      /\ \A i \in complete : \E k \in 1..n : At(k) = i
  BY <1>1, RanksEnumerate
<1>6. n \in Nat
  BY <1>1, RankIsPosition
<1> HIDE DEF At, n
<1>7. \A k \in 1..n : cs[k] = acc[At(k)]
  OBVIOUS
<1>8. cs = [k \in 1..n |-> cs[k]]
  OBVIOUS
<1>9. [k \in 1..n |-> ToolCall(acc[At(k)])] = [k \in 1..n |-> ToolCall(cs[k])]
  BY <1>7
<1> HIDE DEF cs
<1>10. /\ IsSeq(cs) /\ DOMAIN cs = 1..n
       /\ QueueHolds(MapperFinish(acc), cs, 0) /\ MapperFinish(acc) # <<>>
  BY <1>2, <1>6, <1>8, <1>9, CallsQueued
<1>11. ASSUME NEW k \in 1..n
       PROVE  /\ At(k) \in complete /\ Named(cs[k])
              /\ IndexOf(cs[k]) = At(k) - 1 /\ HoldsCall(cs[k], IndexOf(cs[k]))
  <2>1. At(k) \in complete /\ cs[k] = acc[At(k)]
    BY <1>5, <1>7
  <2>2. At(k) \in DOMAIN acc /\ Named(acc[At(k)])
    BY <1>3, <2>1
  <2> QED BY <2>1, <2>2, NamedSlot
<1>12. ASSUME NEW k \in 1..n, NEW l \in 1..n, k < l PROVE IndexOf(cs[k]) < IndexOf(cs[l])
  <2>1. At(k) < At(l) /\ At(k) \in complete /\ At(l) \in complete
    BY <1>5, <1>12
  <2>2. At(k) \in Int /\ At(l) \in Int
    BY <1>3, <2>1
  <2>3. At(k) - 1 < At(l) - 1
    BY <2>1, <2>2
  <2> QED BY <1>11, <2>3
<1>13. ASSUME NEW m \in DOMAIN frags, frags[m].first
       PROVE  \E k \in 1..n : IndexOf(cs[k]) = frags[m].index
  <2>1. frags[m].index + 1 \in DOMAIN acc /\ Named(acc[frags[m].index + 1])
    BY <1>13, FirstIsNamed
  <2>2. frags[m].index + 1 \in complete
    BY <1>4, <2>1
  <2>3. PICK k \in 1..n : At(k) = frags[m].index + 1
    BY <1>5, <2>2
  <2>4. frags[m].index \in Nat
    BY IndicesAreBounded
  <2>5. At(k) - 1 = frags[m].index
    BY <2>3, <2>4
  <2> QED BY <1>11, <2>5
<1>14. Assembled(cs)
  BY <1>10, <1>11, <1>12, <1>13 DEF Assembled
<1> QED BY <1>10, <1>14

-----------------------------------------------------------------------------
(* The queue, from the end of the stream on.                               *)

\* The text of a whole answer in front of its calls.
LEMMA TextInFront ==
  ASSUME NEW t, NEW n \in Nat, NEW cs, NEW c,
         IsSeq(c), Len(c) = n, \A k \in 1..n : c[k] = ToolCall(cs[k]), Len(cs) = n
  PROVE  /\ QueueHolds(TextEvents(t) \o c \o <<Done>>, cs, 0)
         /\ TextEvents(t) \o c \o <<Done>> # <<>>
<1>1. n - 0 = n
  OBVIOUS
<1>2. PICK S : c \in Seq(S)
  BY DEF IsSeq
<1>3. CASE t = <<>>
  <2>1. TextEvents(t) \o c = c
    BY <1>2, <1>3 DEF TextEvents
  <2> DEFINE q == c \o <<Done>>
  <2>2. Len(q) = 0 + n + 1 /\ q[n + 1] = Done /\ q # <<>> /\ \A k \in 1..n : q[k] = c[k]
    BY AppendDone
  <2> HIDE DEF q
  <2>3. \A k \in 1..n : q[0 + k] = ToolCall(cs[0 + k])
    BY <2>2
  <2>4. QueueHolds(q, cs, 0)
    BY <1>1, <2>2, <2>3 DEF QueueHolds
  <2> QED BY <2>1, <2>2, <2>4 DEF q
<1>4. CASE t # <<>>
  <2> DEFINE p == <<Delta(t)>> \o c
             q == p \o <<Done>>
  <2>1. TextEvents(t) = <<Delta(t)>> /\ Delta(t).kind = "delta"
    BY <1>4 DEF TextEvents, Delta
  <2>2. /\ p \in Seq(S \cup {Delta(t)}) /\ Len(p) = n + 1 /\ p[1] = Delta(t)
        /\ \A k \in 1..n : p[1 + k] = c[k]
    BY <1>2
  <2>3. IsSeq(p)
    BY <2>2 DEF IsSeq
  <2> HIDE DEF p
  <2>4. /\ Len(q) = n + 1 + 1 /\ q[n + 1 + 1] = Done /\ q # <<>>
        /\ \A k \in 1..n + 1 : q[k] = p[k]
    BY <2>2, <2>3, AppendDone
  <2> HIDE DEF q
  <2>5. q[1].kind = "delta" /\ \A k \in 1..n : q[1 + k] = ToolCall(cs[0 + k])
    BY <2>1, <2>2, <2>4
  <2>6. Len(q) = 1 + (n - 0) + 1 /\ q[Len(q)] = Done
    BY <2>4
  <2>7. QueueHolds(q, cs, 0)
    BY <1>1, <2>5, <2>6 DEF QueueHolds
  <2> QED BY <2>1, <2>4, <2>7 DEF p, q
<1> QED BY <1>3, <1>4

\* What is left when the first event is taken.
LEMMA TailFacts ==
  ASSUME NEW q, IsSeq(q), q # <<>>
  PROVE  /\ Len(q) \in Nat /\ Len(q) > 0 /\ Head(q) = q[1]
         /\ Len(Tail(q)) = Len(q) - 1
         /\ \A k \in 1..Len(q) - 1 : Tail(q)[k] = q[k + 1]
         /\ Tail(q) = <<>> <=> Len(q) = 1
<1>1. PICK S : q \in Seq(S)
  BY DEF IsSeq
<1>2. Len(q) \in Nat /\ Len(q) > 0 /\ Head(q) = q[1]
  BY <1>1
<1>3. /\ Tail(q) \in Seq(S) /\ Len(Tail(q)) = Len(q) - 1
      /\ \A k \in 1..Len(q) - 1 : Tail(q)[k] = q[k + 1]
  BY <1>1, <1>2
<1>4. Tail(q) = <<>> <=> Len(Tail(q)) = 0
  BY <1>3
<1> QED BY <1>2, <1>3, <1>4

\* The delta in front is taken: the calls are still queued.
LEMMA DeltaTaken ==
  ASSUME Events(queue), queue # <<>>, Head(queue).kind = "delta",
         NEW cs, NEW m \in Nat, IsSeq(cs), m <= Len(cs), QueueHolds(queue, cs, m)
  PROVE  Tail(queue) # <<>> /\ QueueHolds(Tail(queue), cs, m)
<1>1. PICK S : queue \in Seq(S)
  BY DEF Events, IsSeq
<1>2. Len(cs) \in Nat
  BY SeqLen
<1>3. PICK d \in 0..1 :
        /\ Len(queue) = d + (Len(cs) - m) + 1
        /\ d = 1 => queue[1].kind = "delta"
        /\ \A k \in 1..Len(cs) - m : queue[d + k] = ToolCall(cs[m + k])
        /\ queue[Len(queue)] = Done
  BY DEF QueueHolds
<1> DEFINE r == Len(cs) - m
<1>4. r \in Nat /\ Head(queue) = queue[1]
  BY <1>1, <1>2
<1>5. d = 1
  <2> SUFFICES ASSUME d = 0 PROVE FALSE
    OBVIOUS
  <2>1. CASE r = 0
    <3>1. queue[1] = Done
      BY <1>3, <2>1
    <3> QED BY <1>4, <3>1 DEF Done
  <2>2. CASE r # 0
    <3>1. 1 \in 1..r
      BY <1>4, <2>2
    <3>2. queue[0 + 1] = ToolCall(cs[m + 1])
      BY <1>3, <3>1
    <3>3. queue[1].kind = "call"
      BY <3>2 DEF ToolCall
    <3> QED BY <1>4, <3>3
  <2> QED BY <2>1, <2>2
<1> HIDE DEF r
<1>6. Len(queue) = r + 2 /\ \A k \in 1..r : queue[1 + k] = ToolCall(cs[m + k])
  BY <1>3, <1>4, <1>5 DEF r
<1>7. /\ Len(Tail(queue)) = r + 1 /\ Tail(queue) # <<>>
      /\ \A k \in 1..r + 1 : Tail(queue)[k] = queue[k + 1]
  <2>1. IsSeq(queue)
    BY <1>1 DEF IsSeq
  <2>2. Len(queue) - 1 = r + 1 /\ Len(queue) # 1
    BY <1>4, <1>6
  <2> QED BY <2>1, <2>2, TailFacts
<1>8. \A k \in 1..r : Tail(queue)[0 + k] = ToolCall(cs[m + k])
  <2> TAKE k \in 1..r
  <2>1. k \in 1..r + 1 /\ k + 1 = 1 + k /\ 0 + k = k
    BY <1>4
  <2> QED BY <1>6, <1>7, <2>1
<1>9. Tail(queue)[r + 1] = Done
  BY <1>3, <1>4, <1>6, <1>7
<1>10. Len(Tail(queue)) = 0 + r + 1
  BY <1>4, <1>7
<1> QED BY <1>7, <1>8, <1>9, <1>10 DEF QueueHolds, r

\* The event in front is no delta: it is the next call, or the end.
LEMMA CallTaken ==
  ASSUME Events(queue), queue # <<>>, Head(queue).kind # "delta",
         NEW cs, NEW m \in Nat, IsSeq(cs), m <= Len(cs), QueueHolds(queue, cs, m)
  PROVE  \/ /\ Head(queue) = ToolCall(cs[m + 1]) /\ m + 1 <= Len(cs)
            /\ Tail(queue) # <<>> /\ QueueHolds(Tail(queue), cs, m + 1)
         \/ Head(queue) = Done /\ Tail(queue) = <<>> /\ m = Len(cs)
<1>1. PICK S : queue \in Seq(S)
  BY DEF Events, IsSeq
<1>2. Len(cs) \in Nat
  BY SeqLen
<1>3. PICK d \in 0..1 :
        /\ Len(queue) = d + (Len(cs) - m) + 1
        /\ d = 1 => queue[1].kind = "delta"
        /\ \A k \in 1..Len(cs) - m : queue[d + k] = ToolCall(cs[m + k])
        /\ queue[Len(queue)] = Done
  BY DEF QueueHolds
<1> DEFINE r == Len(cs) - m
<1>4. r \in Nat /\ Head(queue) = queue[1]
  BY <1>1, <1>2
<1>5. d = 0
  BY <1>3, <1>4
<1> HIDE DEF r
<1>6. Len(queue) = r + 1 /\ \A k \in 1..r : queue[k] = ToolCall(cs[m + k])
  <2>1. \A k \in 1..r : 0 + k = k
    BY <1>4
  <2>2. Len(queue) = r + 1
    BY <1>3, <1>4, <1>5 DEF r
  <2> QED BY <1>3, <1>5, <2>1, <2>2 DEF r
<1>7. /\ Len(Tail(queue)) = r /\ (Tail(queue) = <<>> <=> r = 0)
      /\ \A k \in 1..r : Tail(queue)[k] = queue[k + 1]
  <2>1. IsSeq(queue)
    BY <1>1 DEF IsSeq
  <2>2. Len(queue) - 1 = r /\ (Len(queue) = 1 <=> r = 0)
    BY <1>4, <1>6
  <2> QED BY <2>1, <2>2, TailFacts
<1>8. queue[r + 1] = Done
  BY <1>3, <1>6
<1>9. CASE r = 0
  <2>1. Head(queue) = Done
    BY <1>4, <1>8, <1>9
  <2>2. m = Len(cs)
    BY <1>2, <1>9 DEF r
  <2> QED BY <1>7, <1>9, <2>1, <2>2
<1>10. CASE r # 0
  <2>1. Head(queue) = ToolCall(cs[m + 1])
    BY <1>4, <1>6, <1>10
  <2>2. r - 1 \in Nat /\ m + 1 <= Len(cs) /\ Len(cs) - (m + 1) = r - 1
    BY <1>2, <1>4, <1>10 DEF r
  <2>3. \A k \in 1..r - 1 : Tail(queue)[0 + k] = ToolCall(cs[m + 1 + k])
    <3> TAKE k \in 1..r - 1
    <3>1. k \in 1..r /\ k + 1 \in 1..r /\ 0 + k = k /\ m + (k + 1) = m + 1 + k
      BY <2>2, <1>4
    <3> QED BY <1>6, <1>7, <3>1
  <2>4. Tail(queue)[r] = Done
    <3>1. r \in 1..r
      BY <1>4, <1>10
    <3> QED BY <1>7, <1>8, <3>1
  <2>5. Len(Tail(queue)) = 0 + (r - 1) + 1
    BY <1>4, <1>7
  <2>6. Tail(queue)[Len(Tail(queue))] = Done
    BY <1>7, <2>4
  <2>7. 0 \in 0..1 /\ 0 # 1
    OBVIOUS
  <2>8. QueueHolds(Tail(queue), cs, m + 1)
    BY <2>2, <2>3, <2>5, <2>6, <2>7 DEF QueueHolds
  <2> QED BY <1>7, <1>10, <2>1, <2>2, <2>8
<1> QED BY <1>9, <1>10

-----------------------------------------------------------------------------
(* The steps of CallsInv.                                                  *)

LEMMA CallsInit == ASSUME Init PROVE CallsInv
BY DEF Init, ChunkerInit, CallsInv, Early

\* The facts about the fragments stand as long as none comes.
LEMMA AssembledStays ==
  ASSUME NEW cs, Assembled(cs), UNCHANGED frags
  PROVE  Assembled(cs)'
BY DEF Assembled, HoldsCall, Pieces, IndexOf

LEMMA SlotsStay ==
  ASSUME SlotsHold, UNCHANGED <<frags, acc>>
  PROVE  SlotsHold'
BY DEF SlotsHold, HoldsCall, Pieces

\* A step that touches nothing of the calls.
LEMMA CallsUntouched ==
  ASSUME CallsInv, UNCHANGED <<frags, acc, queue, calls, open>>,
         pc' \in Early => pc \in Early,
         pc' \in {"poll", "say", "ended"} => pc \in {"poll", "say", "ended"},
         chunking' = "finished" => chunking = "finished" \/ ~open
  PROVE  CallsInv'
<1>1. pc' \in Early => (~open /\ frags = <<>> /\ acc = <<>> /\ calls = <<>>)'
  BY DEF CallsInv
<1>2. open' => /\ SlotsHold' /\ calls' = <<>>
               /\ queue' # <<>> => Len(queue') = 1 /\ queue'[1].kind = "delta"
  BY SlotsStay DEF CallsInv
<1>3. ASSUME ~open', pc' \in {"poll", "say", "ended"}
      PROVE  \E cs : HandsOver(cs)' /\ Assembled(cs)'
  <2>1. PICK cs : HandsOver(cs) /\ Assembled(cs)
    BY <1>3 DEF CallsInv
  <2>2. HandsOver(cs)'
    BY <2>1 DEF HandsOver
  <2> QED BY <2>1, <2>2, AssembledStays
<1>4. chunking' = "finished" => ~open'
  BY DEF CallsInv
<1> QED BY <1>1, <1>2, <1>3, <1>4 DEF CallsInv

\* A whole answer's calls are queued at once.
LEMMA BodyCalls ==
  ASSUME NEW t \in Deltas \cup {<<>>}, NEW n \in 0..1, ReadBody(t, n),
         calls = <<>>, ~open, chunking # "finished"
  PROVE  CallsInv'
<1> DEFINE cs == [i \in 1..n |-> [named |-> i, args |-> <<i>>]]
           c == [i \in 1..n |-> ToolCall([named |-> i, args |-> <<i>>])]
<1>1. /\ frags' = [i \in 1..n |-> [index |-> i - 1, first |-> TRUE]]
      /\ queue' = TextEvents(t) \o c \o <<Done>>
      /\ pc' = "poll" /\ UNCHANGED <<calls, open, chunking>>
  BY DEF ReadBody, chunkVars
<1>2. n \in Nat
  OBVIOUS
<1>3. cs = [i \in 1..n |-> cs[i]] /\ c = [i \in 1..n |-> c[i]]
  OBVIOUS
<1>4. /\ \A k \in 1..n : c[k] = ToolCall(cs[k])
      /\ \A k \in 1..n : cs[k].named = k /\ cs[k].args = <<k>>
  OBVIOUS
<1> HIDE DEF cs, c
<1>5. IsSeq(cs) /\ Len(cs) = n /\ DOMAIN cs = 1..n /\ IsSeq(c) /\ Len(c) = n
  BY <1>2, <1>3, FunctionIsSeq
<1>6. QueueHolds(queue', cs, 0) /\ queue' # <<>>
  BY <1>1, <1>2, <1>4, <1>5, TextInFront
<1>7. DOMAIN frags' = 1..n /\ \A k \in 1..n : frags'[k].index = k - 1
  BY <1>1
<1>8. \A k \in 1..n : Named(cs[k]) /\ IndexOf(cs[k])' = k - 1
  BY <1>4, <1>7 DEF Named, IndexOf
<1>9. ASSUME NEW k \in 1..n PROVE HoldsCall(cs[k], k - 1)'
  <2>1. Pieces(k - 1)' = {k}
    BY <1>7 DEF Pieces
  <2>2. cs[k].args \in Seq(Nat) /\ DOMAIN cs[k].args = {1} /\ cs[k].args[1] = k
    <3>1. k \in Nat /\ cs[k].args = <<k>>
      BY <1>4
    <3>2. <<k>> \in Seq(Nat) /\ Len(<<k>>) = 1 /\ <<k>>[1] = k
      BY <3>1
    <3>3. DOMAIN <<k>> = {1}
      BY <3>2
    <3> QED BY <3>1, <3>2, <3>3
  <2>3. {cs[k].args[p] : p \in DOMAIN cs[k].args} = {k}
    BY <2>2
  <2> QED BY <1>4, <1>8, <2>1, <2>2, <2>3 DEF HoldsCall
<1>10. Assembled(cs)'
  <2>1. \A k \in DOMAIN cs : Named(cs[k]) /\ HoldsCall(cs[k], IndexOf(cs[k]))'
    <3> TAKE k \in DOMAIN cs
    <3>1. k \in 1..n /\ Named(cs[k])
      BY <1>5, <1>8
    <3>2. HoldsCall(cs[k], k - 1)' /\ IndexOf(cs[k])' = k - 1
      BY <1>8, <1>9, <3>1
    <3> QED BY <3>1, <3>2 DEF HoldsCall, Pieces
  <2>2. \A k, l \in DOMAIN cs : k < l => IndexOf(cs[k])' < IndexOf(cs[l])'
    BY <1>5
  <2>3. \A k \in DOMAIN frags' : frags'[k].first =>
          \E l \in DOMAIN cs : IndexOf(cs[l])' = frags'[k].index
    BY <1>5, <1>7, <1>8
  <2> QED BY <2>1, <2>2, <2>3 DEF Assembled, Named
<1>11. HandsOver(cs)'
  <2>1. <<>> \in Seq({}) /\ Len(<<>>) = 0 /\ DOMAIN <<>> = {}
    OBVIOUS
  <2>2. IsSeq(calls') /\ Len(calls') = 0 /\ DOMAIN calls' = {}
    BY <1>1, <2>1 DEF IsSeq
  <2> QED BY <1>2, <1>5, <1>6, <2>2 DEF HandsOver
<1> QED BY <1>1, <1>10, <1>11 DEF CallsInv, Early

\* A request that is accepted finds nothing collected yet.
LEMMA RequestCalls ==
  ASSUME Round, CallsInv, Request
  PROVE  CallsInv'
<1>1. /\ pc \in Early /\ queue = <<>> /\ chunking # "finished"
      /\ ~open /\ frags = <<>> /\ acc = <<>> /\ calls = <<>>
  BY DEF Request, SendFails, Rejected, Accepted, Peek, ReadBody, ReadBodyNoChoice,
         ReadBodyFails, Round, FinishedIsLast, CallsInv, Early
<1>2. CASE SendFails \/ ReadBodyFails
  BY <1>1, <1>2, CallsUntouched DEF SendFails, ReadBodyFails, chunkVars, Early
<1>3. ASSUME NEW b \in BOOLEAN, Rejected(b) PROVE CallsInv'
  BY <1>1, <1>3, CallsUntouched DEF Rejected, chunkVars, Early
<1>4. SlotsHold
  <2>1. DOMAIN acc = {} /\ frags \in Seq(Fragments) /\ DOMAIN frags = {}
    BY <1>1, NoFragments
  <2> QED BY <2>1 DEF SlotsHold
<1>5. ASSUME pc' = "poll", open', UNCHANGED <<chunkVars, acc, queue, calls, frags>> PROVE CallsInv'
  <2>1. SlotsHold'
    BY <1>4, <1>5, SlotsStay
  <2> QED BY <1>1, <1>5, <2>1 DEF CallsInv, Early, chunkVars
<1>6. ASSUME NEW c \in {"sse", "json", "other"}, Accepted(c) PROVE CallsInv'
  <2>1. /\ UNCHANGED <<chunkVars, acc, queue, calls, frags>> /\ open' = (c = "sse")
        /\ pc' = CASE c = "sse" -> "poll" [] c = "json" -> "body" [] OTHER -> "peek"
    BY <1>6 DEF Accepted
  <2>2. CASE c = "sse"
    BY <1>5, <2>1, <2>2
  <2>3. CASE c # "sse"
    <3>1. pc' \in Early /\ ~open'
      BY <2>1, <2>3 DEF Early
    <3> QED BY <1>1, <2>1, <3>1 DEF CallsInv, Early, chunkVars
  <2> QED BY <2>2, <2>3
<1>7. ASSUME NEW b \in BOOLEAN, Peek(b) PROVE CallsInv'
  <2>1. /\ UNCHANGED <<chunkVars, acc, queue, calls, frags>> /\ open' = ~b
        /\ pc' = IF b THEN "body" ELSE "poll"
    BY <1>7 DEF Peek
  <2>2. CASE ~b
    BY <1>5, <2>1, <2>2
  <2>3. CASE b
    <3>1. pc' \in Early /\ ~open'
      BY <2>1, <2>3 DEF Early
    <3> QED BY <1>1, <2>1, <3>1 DEF CallsInv, Early, chunkVars
  <2> QED BY <2>2, <2>3
<1>8. ASSUME NEW t \in Deltas \cup {<<>>}, NEW n \in 0..1, ReadBody(t, n) PROVE CallsInv'
  BY <1>1, <1>8, BodyCalls
<1>9. CASE ReadBodyNoChoice
  <2>1. pc' = "poll" /\ UNCHANGED <<chunkVars, acc, queue, calls, frags, open>>
    BY <1>9 DEF ReadBodyNoChoice
  <2>2. Assembled(<<>>)' /\ HandsOver(<<>>)'
    <3>1. Assembled(<<>>) /\ HandsOver(<<>>)
      <4>1. Assembled(<<>>) /\ IsSeq(<<>>) /\ Len(<<>>) = 0 /\ DOMAIN <<>> = {}
        BY <1>1, NoFragments
      <4> QED BY <1>1, <4>1 DEF HandsOver
    <3> QED BY <2>1, <3>1, AssembledStays DEF HandsOver
  <2> QED BY <1>1, <2>1, <2>2 DEF CallsInv, Early, chunkVars
<1> QED BY <1>2, <1>3, <1>6, <1>7, <1>8, <1>9 DEF Request

\* A payload adds its fragment, and the end of the stream queues the calls.
LEMMA ReadCalls ==
  ASSUME Round, CallsInv, Read
  PROVE  CallsInv'
<1>1. pc = "poll" /\ queue = <<>> /\ open /\ SlotsHold /\ calls = <<>> /\ chunking # "finished"
  BY DEF Read, Payload, PayloadFails, StreamEnds, Stalls, Reading, CallsInv
<1>2. CASE PayloadFails \/ Stalls
  <2>1. /\ ~open' /\ pc' = "failed" /\ UNCHANGED chunking
    BY <1>2 DEF PayloadFails, Stalls, chunkVars
  <2> QED BY <1>1, <2>1 DEF CallsInv, Early
<1>3. CASE StreamEnds
  <2>1. /\ ~open' /\ queue' = MapperFinish(acc) /\ UNCHANGED <<chunking, pc, calls, frags>>
    BY <1>3 DEF StreamEnds, chunkVars
  <2>2. PICK cs : IsSeq(cs) /\ Assembled(cs) /\ QueueHolds(MapperFinish(acc), cs, 0)
    BY <1>1, FinishAssembles DEF Round
  <2>3. Assembled(cs)'
    BY <2>1, <2>2, AssembledStays
  <2>4. HandsOver(cs)'
    <3>1. <<>> \in Seq({}) /\ Len(<<>>) = 0 /\ DOMAIN <<>> = {}
      OBVIOUS
    <3>2. IsSeq(calls') /\ Len(calls') = 0 /\ DOMAIN calls' = {}
      BY <1>1, <2>1, <3>1 DEF IsSeq
    <3>3. Len(cs) \in Nat
      BY <2>2, SeqLen
    <3>4. queue' # <<>> /\ QueueHolds(queue', cs, Len(calls'))
      BY <1>1, <2>1, <2>2, <3>2, FinishAssembles DEF Round
    <3> QED BY <2>2, <3>2, <3>3, <3>4 DEF HandsOver
  <2> QED BY <1>1, <2>1, <2>3, <2>4 DEF CallsInv, Early
<1>4. ASSUME NEW t \in Deltas \cup {<<>>}, NEW fs \in {<<>>} \cup {<<f>> : f \in Fragments},
             Payload(t, fs)
      PROVE  CallsInv'
  <2>1. /\ queue' = TextEvents(t) /\ frags' = frags \o fs
        /\ acc' = IF fs = <<>> THEN acc ELSE Accumulate(acc, fs[1], Len(frags) + 1)
        /\ UNCHANGED <<chunking, pc, open, calls>>
    BY <1>4 DEF Payload, chunkVars
  <2>2. queue' # <<>> => Len(queue') = 1 /\ queue'[1].kind = "delta"
    <3>1. t # <<>> => queue' = <<Delta(t)>>
      BY <2>1 DEF TextEvents
    <3>2. t = <<>> => queue' = <<>>
      BY <2>1 DEF TextEvents
    <3> QED BY <3>1, <3>2 DEF Delta
  <2>3. SlotsHold'
    <3>1. CASE fs = <<>>
      <4>1. frags' = frags /\ acc' = acc
        BY <1>1, <2>1, <3>1 DEF SlotsHold
      <4> QED BY <1>1, <4>1, SlotsStay
    <3>2. CASE fs # <<>>
      <4>1. PICK f \in Fragments : fs = <<f>>
        BY <3>2
      <4>2. frags' = frags \o <<f>> /\ acc' = Accumulate(acc, f, Len(frags) + 1)
        BY <2>1, <3>2, <4>1
      <4> QED BY <1>1, <4>2, AccumulateHolds DEF Round
    <3> QED BY <3>1, <3>2
  <2> QED BY <1>1, <2>1, <2>2, <2>3 DEF CallsInv, Early
<1> QED BY <1>2, <1>3, <1>4 DEF Read

\* run_llm_round takes the queue event by event.
LEMMA ConsumeCalls ==
  ASSUME Round, CallsInv, Consume
  PROVE  CallsInv'
<1>1. CASE TakeDelta
  <2>1. /\ pc = "poll" /\ queue # <<>> /\ Head(queue).kind = "delta"
        /\ queue' = Tail(queue) /\ pc' = "say" /\ chunking' = "emitting"
        /\ UNCHANGED <<acc, open, calls, frags>>
    BY <1>1 DEF TakeDelta, Push
  <2>2. CASE open
    <3>1. Tail(queue) = <<>>
      BY <2>1, <2>2, TailFacts DEF CallsInv, Round, Events
    <3>2. SlotsHold'
      BY <2>1, <2>2, SlotsStay DEF CallsInv
    <3> QED BY <2>1, <2>2, <3>1, <3>2 DEF CallsInv, Early
  <2>3. CASE ~open
    <3>1. PICK cs : HandsOver(cs) /\ Assembled(cs)
      BY <2>1, <2>3 DEF CallsInv
    <3>2. Assembled(cs)'
      BY <2>1, <3>1, AssembledStays
    <3>3. IsSeq(cs) /\ Len(calls) \in Nat /\ Len(calls) <= Len(cs) /\ QueueHolds(queue, cs, Len(calls))
      BY <2>1, <3>1, SeqLen DEF HandsOver
    <3>4. Tail(queue) # <<>> /\ QueueHolds(Tail(queue), cs, Len(calls))
      BY <2>1, <3>3, DeltaTaken DEF Round
    <3>5. HandsOver(cs)'
      BY <2>1, <3>1, <3>4 DEF HandsOver
    <3> QED BY <2>1, <2>3, <3>2, <3>5 DEF CallsInv, Early
  <2> QED BY <2>2, <2>3
<1>2. CASE TakeCall
  <2>1. /\ pc = "poll" /\ queue # <<>> /\ Head(queue).kind # "delta"
        /\ calls' = IF Head(queue).kind = "call" THEN Append(calls, Head(queue).slot) ELSE calls
        /\ queue' = Tail(queue) /\ UNCHANGED <<acc, open, pc, frags, chunking>>
    BY <1>2 DEF TakeCall, chunkVars
  <2>2. ~open
    BY <2>1, TailFacts DEF CallsInv, Round, Events
  <2>3. PICK cs : HandsOver(cs) /\ Assembled(cs)
    BY <2>1, <2>2 DEF CallsInv
  <2>4. Assembled(cs)'
    BY <2>1, <2>3, AssembledStays
  <2> DEFINE m == Len(calls)
  <2>5. /\ IsSeq(cs) /\ m \in Nat /\ m <= Len(cs) /\ QueueHolds(queue, cs, m)
        /\ IsSeq(calls) /\ DOMAIN calls = 1..m /\ \A k \in DOMAIN calls : calls[k] = cs[k]
    BY <2>1, <2>3, SeqLen DEF HandsOver
  <2>6. \/ /\ Head(queue) = ToolCall(cs[m + 1]) /\ m + 1 <= Len(cs)
           /\ Tail(queue) # <<>> /\ QueueHolds(Tail(queue), cs, m + 1)
        \/ Head(queue) = Done /\ Tail(queue) = <<>> /\ m = Len(cs)
    BY <2>1, <2>5, CallTaken DEF Round
  <2> HIDE DEF m
  <2>7. CASE Head(queue) = Done /\ Tail(queue) = <<>> /\ m = Len(cs)
    <3>1. calls' = calls
      BY <2>1, <2>7 DEF Done
    <3>2. HandsOver(cs)'
      BY <2>1, <2>3, <2>7, <3>1 DEF HandsOver, m
    <3> QED BY <2>1, <2>2, <2>4, <3>2 DEF CallsInv, Early
  <2>8. CASE /\ Head(queue) = ToolCall(cs[m + 1]) /\ m + 1 <= Len(cs)
             /\ Tail(queue) # <<>> /\ QueueHolds(Tail(queue), cs, m + 1)
    <3>1. calls' = Append(calls, cs[m + 1])
      BY <2>1, <2>8 DEF ToolCall
    <3>2. PICK S : calls \in Seq(S)
      BY <2>5 DEF IsSeq
    <3> DEFINE E == S \cup {cs[m + 1]}
    <3>3. calls \in Seq(E) /\ cs[m + 1] \in E
      BY <3>2
    <3> HIDE DEF E
    <3>4. /\ calls' \in Seq(E) /\ Len(calls') = m + 1 /\ DOMAIN calls' = 1..m + 1
          /\ calls'[m + 1] = cs[m + 1] /\ \A k \in 1..m : calls'[k] = calls[k]
      BY <3>1, <3>3 DEF m
    <3>5. \A k \in DOMAIN calls' : calls'[k] = cs[k]
      <4>1. \A k \in 1..m + 1 : k \in 1..m \/ k = m + 1
        BY <2>5
      <4> QED BY <2>5, <3>4, <4>1
    <3>6. HandsOver(cs)'
      BY <2>1, <2>5, <2>8, <3>4, <3>5 DEF HandsOver, IsSeq
    <3> QED BY <2>1, <2>2, <2>4, <3>6 DEF CallsInv, Early
  <2> QED BY <2>6, <2>7, <2>8
<1>3. CASE FlushRemainder
  BY <1>3, CallsUntouched DEF FlushRemainder, Early
<1>4. CASE AllSaid
  BY <1>4, CallsUntouched DEF AllSaid, chunkVars, Early
<1> QED BY <1>1, <1>2, <1>3, <1>4 DEF Consume

LEMMA CallsNext ==
  ASSUME Round, CallsInv, [Next]_vars
  PROVE  CallsInv'
<1>1. CASE Speak
  BY <1>1, CallsUntouched DEF Speak, Synthesize, SynthesisFails, chunkVars, Early
<1>2. CASE Chunking
  <2>1. UNCHANGED <<pc, acc, queue, open, calls, frags>> /\ chunking' # "finished"
    BY <1>2 DEF Chunking, streamVars, Emit, EmitSentence, EmitFlush, EmitReturns
  <2> QED BY <2>1, CallsUntouched
<1>3. CASE Over \/ UNCHANGED vars
  BY <1>3, CallsUntouched DEF Over, vars, streamVars, chunkVars
<1> QED BY <1>1, <1>2, <1>3, RequestCalls, ReadCalls, ConsumeCalls DEF Next

\* The calls handed over when a round ends are those upstream named, by ascending index,
\* each with the pieces that came for it, in their order.
THEOREM CallsAreAssembled == Spec => []CallsAssembled
<1>1. ASSUME Round, CallsInv PROVE CallsAssembled
  <2> SUFFICES ASSUME pc = "ended" PROVE Assembled(calls)
    BY DEF CallsAssembled, Assembled, IndexOf, HoldsCall, Pieces
  <2>1. queue = <<>> /\ ~open
    BY <1>1 DEF Round, FinishedIsLast, CallsInv
  <2>2. PICK cs : HandsOver(cs) /\ Assembled(cs)
    BY <1>1, <2>1 DEF CallsInv
  <2>3. IsSeq(cs) /\ IsSeq(calls) /\ Len(calls) = Len(cs) /\ \A k \in DOMAIN calls : calls[k] = cs[k]
    BY <2>1, <2>2 DEF HandsOver
  <2>4. DOMAIN cs = DOMAIN calls
    BY <2>3, SeqLen
  <2>5. /\ \A k \in DOMAIN calls : Named(calls[k]) /\ HoldsCall(calls[k], IndexOf(calls[k]))
        /\ \A k, l \in DOMAIN calls : k < l => IndexOf(calls[k]) < IndexOf(calls[l])
        /\ \A n \in DOMAIN frags : frags[n].first =>
             \E k \in DOMAIN calls : IndexOf(calls[k]) = frags[n].index
    BY <2>2, <2>3, <2>4 DEF Assembled
  <2> QED BY <2>5 DEF Assembled
<1> QED BY <1>1, RoundInit, RoundNext, CallsInit, CallsNext, PTL DEF Spec
=============================================================================
