------------------------------- MODULE Answer -------------------------------
(***************************************************************************)
(* One round of a turn, from the chat request to the last audio chunk:     *)
(* OpenAiLlmClient (crates/harness-providers/src/llm.rs) and its consumer  *)
(* run_llm_round (crates/harness-server/src/orchestrator.rs), which feeds  *)
(* the chunker.                                                            *)
(*                                                                         *)
(* A fragment of a tool call is its index and whether it carries the id    *)
(* and the name, as the first fragment of a call does; its piece of the    *)
(* arguments is the number under which it arrived (`frags`).  A slot of    *)
(* the accumulator is the fragment that named it (0: none did) and the     *)
(* pieces it holds.  `received` and `frags` are history variables.         *)
(***************************************************************************)
EXTENDS Chunker

CONSTANTS MaxSlots,   \* MAX_TOOL_CALL_SLOTS
          MaxFrags,   \* bound: fragments of one answer
          MaxReads    \* bound: payloads of one answer

ASSUME AnswerAssumption == MaxSlots \in Nat /\ MaxFrags \in Nat /\ MaxReads \in Nat

VARIABLES requests,   \* the `stream` flag of every request sent
          pc,         \* the await at which the round is suspended
          peeked,     \* classify_body has taken a chunk from the body
          acc,        \* ChunkMapper.tool_acc
          queue,      \* events mapped and not yet polled
          open,       \* the unfold's `data` is Some
          calls,      \* run_llm_round's tool_calls
          said,       \* chunks synthesized
          received,   \* the text upstream has sent
          frags,      \* the fragments upstream has sent
          reads       \* payloads read

streamVars == <<requests, pc, peeked, acc, queue, open, calls, said, received, frags, reads>>
vars == <<chunkVars, streamVars>>

Slot == [named : Nat, args : Seq(Nat)]
EmptySlot == [named |-> 0, args |-> <<>>]

Delta(t) == [kind |-> "delta", text |-> t]
ToolCall(slot) == [kind |-> "call", slot |-> slot]
Done == [kind |-> "done"]

Fragments == [index : 0..MaxSlots, first : BOOLEAN]

Init ==
  /\ ChunkerInit
  /\ requests = <<TRUE>> /\ pc = "send" /\ peeked = FALSE
  /\ acc = <<>> /\ queue = <<>> /\ open = FALSE
  /\ calls = <<>> /\ said = 0
  /\ received = <<>> /\ frags = <<>> /\ reads = 0

-----------------------------------------------------------------------------
(* ChunkMapper.                                                            *)

EnsureSlot(slots, index) ==
  [i \in 1..(IF index < Len(slots) THEN Len(slots) ELSE index + 1) |->
     IF i <= Len(slots) THEN slots[i] ELSE EmptySlot]

\* (Slip) Fragments are added to the latest slot.
AccumulateLast(slots, frag, n) ==
  LET grown == EnsureSlot(slots, frag.index) IN
  [grown EXCEPT ![Len(grown)] =
     [named |-> IF frag.first THEN n ELSE @.named, args |-> Append(@.args, n)]]

\* One fragment, the n-th to arrive, is added to its slot.
Accumulate(slots, frag, n) ==
  LET grown == EnsureSlot(slots, frag.index) IN
  [grown EXCEPT ![frag.index + 1] =
     [named |-> IF frag.first THEN n ELSE @.named, args |-> Append(@.args, n)]]

Named(slot) == slot.named # 0

\* The named slots become calls by ascending index.
MapperFinish(slots) ==
  LET complete == {i \in DOMAIN slots : Named(slots[i])}
      At(k) == CHOOSE i \in complete : Cardinality({j \in complete : j <= i}) = k
  IN  [k \in 1..Cardinality(complete) |-> ToolCall(slots[At(k)])] \o <<Done>>

\* A delta without text maps to no event.
TextEvents(t) == IF t = <<>> THEN <<>> ELSE <<Delta(t)>>

-----------------------------------------------------------------------------
(* The request.                                                            *)

SendFails ==
  /\ pc = "send"
  /\ pc' = "failed"
  /\ UNCHANGED <<chunkVars, requests, peeked, acc, queue, open, calls, said, received, frags, reads>>

Rejected(mentionsStream) ==
  /\ pc = "send"
  /\ IF requests[Len(requests)] /\ mentionsStream
     THEN requests' = Append(requests, FALSE) /\ UNCHANGED pc
     ELSE pc' = "failed" /\ UNCHANGED requests
  /\ UNCHANGED <<chunkVars, peeked, acc, queue, open, calls, said, received, frags, reads>>

\* The content type tells the kind of the body, or a chunk of it must.
Accepted(contentType) ==
  /\ pc = "send"
  /\ pc' = CASE contentType = "sse" -> "poll" [] contentType = "json" -> "body" [] OTHER -> "peek"
  /\ open' = (contentType = "sse")
  /\ UNCHANGED <<chunkVars, requests, peeked, acc, queue, calls, said, received, frags, reads>>

\* An SSE chunk is put back in front of the body; a JSON one is not.
Peek(isJson) ==
  /\ pc = "peek"
  /\ pc' = IF isJson THEN "body" ELSE "poll"
  /\ open' = ~isJson
  /\ peeked' = isJson
  /\ UNCHANGED <<chunkVars, requests, acc, queue, calls, said, received, frags, reads>>

\* A whole answer in one document: its text and n calls, or no choice at all.
ReadBody(t, n) ==
  /\ pc = "body"
  /\ ~peeked
  /\ Len(t) <= MaxText
  /\ received' = t
  /\ frags' = [i \in 1..n |-> [index |-> i - 1, first |-> TRUE]]
  /\ queue' = TextEvents(t)
              \o [i \in 1..n |-> ToolCall([named |-> i, args |-> <<i>>])] \o <<Done>>
  /\ pc' = "poll"
  /\ UNCHANGED <<chunkVars, requests, peeked, acc, open, calls, said, reads>>

ReadBodyNoChoice ==
  /\ pc = "body"
  /\ ~peeked
  /\ pc' = "poll"
  /\ UNCHANGED <<chunkVars, requests, peeked, acc, queue, open, calls, said, received, frags, reads>>

\* What is left of a document whose first chunk was taken does not parse.
ReadBodyFails ==
  /\ pc = "body"
  /\ pc' = "failed"
  /\ UNCHANGED <<chunkVars, requests, peeked, acc, queue, open, calls, said, received, frags, reads>>

-----------------------------------------------------------------------------
(* The stream: what its next read brings when nothing is queued.           *)

Reading == pc = "poll" /\ queue = <<>> /\ open

Payload(t, fs) ==
  /\ Reading
  /\ reads < MaxReads /\ reads' = reads + 1
  /\ Len(received) + Len(t) <= MaxText
  /\ Len(frags) + Len(fs) <= MaxFrags
  /\ \A f \in DOMAIN fs : fs[f].index < MaxSlots
  /\ received' = received \o t
  /\ frags' = frags \o fs
  /\ queue' = TextEvents(t)
  /\ acc' = IF fs = <<>> THEN acc ELSE Accumulate(acc, fs[1], Len(frags) + 1)
  /\ UNCHANGED <<chunkVars, requests, pc, peeked, open, calls, said>>

\* A payload that does not parse, an index out of range, or a broken body.
PayloadFails ==
  /\ Reading
  /\ open' = FALSE
  /\ pc' = "failed"
  /\ UNCHANGED <<chunkVars, requests, peeked, acc, queue, calls, said, received, frags, reads>>

\* The body ends, with or without [DONE].
StreamEnds ==
  /\ Reading
  /\ open' = FALSE
  /\ queue' = MapperFinish(acc)
  /\ UNCHANGED <<chunkVars, requests, pc, peeked, acc, calls, said, received, frags, reads>>

\* (Slip) A read that timed out is read again.
StallsReadAgain == Reading /\ UNCHANGED vars

Stalls ==
  /\ Reading
  /\ open' = FALSE
  /\ pc' = "failed"
  /\ UNCHANGED <<chunkVars, requests, peeked, acc, queue, calls, said, received, frags, reads>>

-----------------------------------------------------------------------------
(* run_llm_round.                                                          *)

\* (Slip) The text is appended and not chunked until the end.
TakeDeltaUnchunked ==
  /\ pc = "poll"
  /\ queue # <<>> /\ Head(queue).kind = "delta"
  /\ text' = text \o Head(queue).text
  /\ queue' = Tail(queue)
  /\ UNCHANGED <<taken, chunks, chunking, requests, pc, peeked, acc, open, calls, said, received,
                 frags, reads>>

TakeDelta ==
  /\ pc = "poll"
  /\ queue # <<>> /\ Head(queue).kind = "delta"
  /\ Push(Head(queue).text)
  /\ queue' = Tail(queue)
  /\ pc' = "say"
  /\ UNCHANGED <<requests, peeked, acc, open, calls, said, received, frags, reads>>

TakeCall ==
  /\ pc = "poll"
  /\ queue # <<>> /\ Head(queue).kind # "delta"
  /\ calls' = IF Head(queue).kind = "call" THEN Append(calls, Head(queue).slot) ELSE calls
  /\ queue' = Tail(queue)
  /\ UNCHANGED <<chunkVars, requests, pc, peeked, acc, open, said, received, frags, reads>>

\* The stream has no more events: flush the remainder.
FlushRemainder ==
  /\ pc = "poll"
  /\ queue = <<>> /\ ~open
  /\ Finish
  /\ pc' = "say"
  /\ UNCHANGED <<requests, peeked, acc, queue, open, calls, said, received, frags, reads>>

Chunking == Emit /\ UNCHANGED streamVars

\* One chunk is synthesized; chunks emitted by one push are said before the next read.
Synthesize ==
  /\ pc = "say"
  /\ chunking # "emitting"
  /\ said < Len(chunks)
  /\ said' = said + 1
  /\ UNCHANGED <<chunkVars, requests, pc, peeked, acc, queue, open, calls, received, frags, reads>>

SynthesisFails ==
  /\ pc = "say"
  /\ chunking # "emitting"
  /\ said < Len(chunks)
  /\ pc' = "failed"
  /\ UNCHANGED <<chunkVars, requests, peeked, acc, queue, open, calls, said, received, frags, reads>>

AllSaid ==
  /\ pc = "say"
  /\ chunking # "emitting"
  /\ said = Len(chunks)
  /\ pc' = IF chunking = "finished" THEN "ended" ELSE "poll"
  /\ UNCHANGED <<chunkVars, requests, peeked, acc, queue, open, calls, said, received, frags, reads>>

-----------------------------------------------------------------------------
Over == pc \in {"ended", "failed"} /\ UNCHANGED vars

Request ==
  \/ SendFails
  \/ \E b \in BOOLEAN : Rejected(b)
  \/ \E c \in {"sse", "json", "other"} : Accepted(c)
  \/ \E b \in BOOLEAN : Peek(b)
  \/ \E t \in Deltas \cup {<<>>}, n \in 0..1 : ReadBody(t, n)
  \/ ReadBodyNoChoice
  \/ ReadBodyFails

Read ==
  \/ \E t \in Deltas \cup {<<>>}, fs \in {<<>>} \cup {<<f>> : f \in Fragments} : Payload(t, fs)
  \/ PayloadFails
  \/ StreamEnds
  \/ Stalls

Consume == TakeDelta \/ TakeCall \/ FlushRemainder \/ AllSaid

Speak == Synthesize \/ SynthesisFails

Next == Request \/ Read \/ Consume \/ Speak \/ Chunking \/ Over

Spec == Init /\ [][Next]_vars

\* Every read of the stream is timed (llm.rs:511-515), a synthesis has a timeout, and
\* the rest runs by itself.  Nothing is assumed of the request and of upstream.
FairSpec ==
  /\ Spec
  /\ WF_vars(Stalls)
  /\ WF_vars(Consume)
  /\ WF_vars(Speak)
  /\ WF_vars(Chunking)

-----------------------------------------------------------------------------
\* Every call upstream named is handed over once, by ascending index, with the pieces
\* of its arguments in the order of arrival, however calls are interleaved and wherever
\* their fragments begin (llm.rs:154-203).
CallsAssembled ==
  pc = "ended" =>
    LET IndexOf(k) == frags[calls[k].named].index
        Pieces(i) == {n \in DOMAIN frags : frags[n].index = i}
    IN  /\ \A k, l \in DOMAIN calls : k < l => IndexOf(k) < IndexOf(l)
        /\ \A n \in DOMAIN frags : frags[n].first =>
             \E k \in DOMAIN calls : IndexOf(k) = frags[n].index
        /\ \A k \in DOMAIN calls :
             /\ {calls[k].args[p] : p \in DOMAIN calls[k].args} = Pieces(IndexOf(k))
             /\ \A p, q \in DOMAIN calls[k].args : p < q => calls[k].args[p] < calls[k].args[q]

\* A round that reports success has put everything upstream sent through the chunker
\* and said every chunk of it (orchestrator.rs:141-166): a stream that fails in the
\* middle, or ends without its flush, is never taken for a whole answer.
AnswerIsWhole ==
  pc = "ended" =>
    /\ text = received
    /\ said = Len(chunks)
    /\ \A i \in DOMAIN text :
         Blank(i) \/ \E k \in DOMAIN chunks : chunks[k].from < i /\ i <= chunks[k].to

\* emit_ready at a blank in front of a word longer than MaxChars: the cut found is the
\* blank, which is trimmed away, and the loop has nothing to take.
Spins ==
  /\ chunking = "emitting" /\ ~HasSentence /\ TooLong
  /\ \E s, f, t \in taken..Len(text) :
       TrimStart(s) /\ FlushCut(f) /\ TrimEnd(f, t) /\ t <= s

\* Once upstream has begun to answer, the round ends although upstream may stall at any
\* read (llm.rs:93-100, 535-545), unless the chunker spins.
StreamingEnds == pc \in {"poll", "say"} ~> (pc \in {"ended", "failed"} \/ Spins)

=============================================================================
