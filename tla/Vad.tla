-------------------------------- MODULE Vad --------------------------------
(***************************************************************************)
(* UtteranceAssembler of crates/harness-core/src/vad.rs: it segments a     *)
(* stream of PCM frames, each classified by the detector, into utterances. *)
(* A frame is its number in the stream, its length in milliseconds and the *)
(* detector's verdict; a buffer of samples is the sequence of the frames   *)
(* it was filled from.                                                     *)
(*                                                                         *)
(* buf_ms is left out (it is written and never read); last and closed are  *)
(* history variables: the latest frame pushed, and how the latest          *)
(* utterance ended.  Definitions marked (Slip) are plausible mistakes in   *)
(* the code next to them; no behaviour uses them, each shows what a        *)
(* property rules out.                                                     *)
(***************************************************************************)
EXTENDS Integers, Sequences, SequencesExt

CONSTANTS
  SilenceMs,       \* policy.silence_ms
  MinUtteranceMs,  \* policy.min_utterance_ms
  MaxUtteranceMs,  \* policy.max_utterance_ms
  PreSpeechMs,     \* policy.pre_speech_ms
  FrameMs,         \* the frame lengths a caller may push
  MaxFrames        \* bound: frames pushed in a behaviour

ASSUME PolicyAssumption ==
  /\ {SilenceMs, MinUtteranceMs, MaxUtteranceMs, PreSpeechMs, MaxFrames} \subseteq Nat
  /\ FrameMs \subseteq Nat

VARIABLES
  state,                \* "Listening" or "Speech"
  pre_speech,           \* ring of frames heard while Listening
  pre_speech_total_ms,
  buf,                  \* the open utterance
  speech_ms,
  silence_ms,
  active,
  last,                 \* history: the latest frame pushed
  closed                \* history: the last utterance that ended

vars == <<state, pre_speech, pre_speech_total_ms, buf, speech_ms, silence_ms,
          active, last, closed>>

Frame == [n : Nat, ms : FrameMs, speech : BOOLEAN]

Sum(numbers) ==
  LET upTo[i \in 0 .. Len(numbers)] == IF i = 0 THEN 0 ELSE upTo[i - 1] + numbers[i]
  IN  upTo[Len(numbers)]

\* Total length of a sequence of frames.
TotalMs(frames) == Sum([i \in 1 .. Len(frames) |-> frames[i].ms])

Init ==
  /\ state = "Listening"
  /\ pre_speech = <<>>
  /\ pre_speech_total_ms = 0
  /\ buf = <<>>
  /\ speech_ms = 0
  /\ silence_ms = 0
  /\ active = FALSE
  /\ last = [n |-> 0, ms |-> 0, speech |-> FALSE]
  /\ closed = [emitted |-> FALSE, pcm |-> <<>>]

-----------------------------------------------------------------------------
\* (Slips: the flag survives the utterance; the whole buffer is measured.)
FinalizeKeepsActive(pcm, speech) ==
  /\ state' = "Listening"
  /\ UNCHANGED active
  /\ silence_ms' = 0
  /\ buf' = <<>>
  /\ speech_ms' = 0
  /\ closed' = [emitted |-> speech >= MinUtteranceMs, pcm |-> pcm]

FinalizeMeasuresAll(pcm, speech) ==
  /\ state' = "Listening"
  /\ active' = FALSE
  /\ silence_ms' = 0
  /\ buf' = <<>>
  /\ speech_ms' = 0
  /\ closed' = [emitted |-> TotalMs(pcm) >= MinUtteranceMs, pcm |-> pcm]

(* finalize: the utterance pcm, with speech ms of speech, ends.  It is     *)
(* returned to the caller when long enough and dropped as a blip when not. *)
Finalize(pcm, speech) ==
  /\ state' = "Listening"
  /\ active' = FALSE
  /\ silence_ms' = 0
  /\ buf' = <<>>
  /\ speech_ms' = 0
  /\ closed' = [emitted |-> speech >= MinUtteranceMs, pcm |-> pcm]

\* maybe_cap: the utterance goes on, unless its speech reached the cap.
MaybeCap(pcm, speech, silence) ==
  IF speech >= MaxUtteranceMs
    THEN Finalize(pcm, speech)
    ELSE /\ state' = "Speech"
         /\ active' = TRUE
         /\ silence_ms' = silence
         /\ buf' = pcm
         /\ speech_ms' = speech
         /\ UNCHANGED closed

\* (Slip: at most one frame is popped.)
TrimmedOnce(ring, total) ==
  IF total > PreSpeechMs /\ ring # <<>>
    THEN [ring |-> Tail(ring), total |-> total - Head(ring).ms]
    ELSE [ring |-> ring, total |-> total]

\* The trimming loop: frames popped from the front until the total fits.
Trimmed(ring, total) ==
  LET Left(k) == total - TotalMs(SubSeq(ring, 1, k))
      pops == CHOOSE k \in 0 .. Len(ring) :
                /\ k = Len(ring) \/ Left(k) <= PreSpeechMs
                /\ \A j \in 0 .. k - 1 : Left(j) > PreSpeechMs
  IN  [ring |-> SubSeq(ring, pops + 1, Len(ring)), total |-> Left(pops)]

\* (Slip: the ring is read, not drained.)
PushOpenKeepsRing(f) ==
  /\ state = "Listening" /\ f.speech
  /\ MaybeCap(Append(pre_speech, f), f.ms, 0)
  /\ UNCHANGED <<pre_speech, pre_speech_total_ms>>

\* push, Listening: a speech frame opens an utterance behind the lead-in.
PushOpen(f) ==
  /\ state = "Listening" /\ f.speech
  /\ pre_speech' = <<>>
  /\ MaybeCap(Append(pre_speech, f), f.ms, 0)
  /\ UNCHANGED pre_speech_total_ms

\* push, Listening: any other frame goes through the lead-in ring.
PushIdle(f) ==
  /\ state = "Listening" /\ ~f.speech
  /\ LET t == Trimmed(Append(pre_speech, f), pre_speech_total_ms + f.ms)
     IN  /\ pre_speech' = t.ring
         /\ pre_speech_total_ms' = t.total
  /\ UNCHANGED <<state, buf, speech_ms, silence_ms, active, closed>>

\* (Slip: the pause counter survives a speech frame.)
PushSpeechKeepsSilence(f) ==
  /\ state = "Speech" /\ f.speech
  /\ MaybeCap(Append(buf, f), speech_ms + f.ms, silence_ms)
  /\ UNCHANGED <<pre_speech, pre_speech_total_ms>>

\* push, Speech: a speech frame extends the utterance.
PushSpeech(f) ==
  /\ state = "Speech" /\ f.speech
  /\ MaybeCap(Append(buf, f), speech_ms + f.ms, 0)
  /\ UNCHANGED <<pre_speech, pre_speech_total_ms>>

\* (Slip: the endpoint is one frame late.)
PushSilenceLate(f) ==
  /\ state = "Speech" /\ ~f.speech
  /\ IF silence_ms + f.ms > SilenceMs
       THEN Finalize(Append(buf, f), speech_ms)
       ELSE MaybeCap(Append(buf, f), speech_ms, silence_ms + f.ms)
  /\ UNCHANGED <<pre_speech, pre_speech_total_ms>>

\* push, Speech: enough trailing silence is the endpoint.
PushSilence(f) ==
  /\ state = "Speech" /\ ~f.speech
  /\ IF silence_ms + f.ms >= SilenceMs
       THEN Finalize(Append(buf, f), speech_ms)
       ELSE MaybeCap(Append(buf, f), speech_ms, silence_ms + f.ms)
  /\ UNCHANGED <<pre_speech, pre_speech_total_ms>>

Push ==
  /\ last.n < MaxFrames
  /\ \E ms \in FrameMs, speech \in BOOLEAN :
       /\ last' = [n |-> last.n + 1, ms |-> ms, speech |-> speech]
       /\ PushOpen(last') \/ PushIdle(last') \/ PushSpeech(last') \/ PushSilence(last')

\* force_end: the client's speech.end closes the open utterance.
ForceEnd ==
  /\ active
  /\ Finalize(buf, speech_ms)
  /\ UNCHANGED <<pre_speech, pre_speech_total_ms, last>>

Next == Push \/ ForceEnd

Spec == Init /\ [][Next]_vars

-----------------------------------------------------------------------------
TypeOK ==
  /\ state \in {"Listening", "Speech"}
  /\ pre_speech \in Seq(Frame)
  /\ pre_speech_total_ms \in Nat
  /\ buf \in Seq(Frame)
  /\ speech_ms \in Nat
  /\ silence_ms \in Nat
  /\ active = (state = "Speech")
  /\ last \in [n : Nat, ms : Nat, speech : BOOLEAN]
  /\ closed \in [emitted : BOOLEAN, pcm : Seq(Frame)]

\* Length of the speech in a sequence of frames.
SpeechMs(frames) ==
  Sum([i \in 1 .. Len(frames) |-> IF frames[i].speech THEN frames[i].ms ELSE 0])

\* Length of the silence a sequence of frames ends with.
TrailingMs(frames) ==
  LET Trailing(i) == \A j \in i .. Len(frames) : ~frames[j].speech
  IN  Sum([i \in 1 .. Len(frames) |-> IF Trailing(i) THEN frames[i].ms ELSE 0])

(* An utterance is never left open past its endpoint or its cap: after any *)
(* push or speech.end the flag that the connection reads tells the state,  *)
(* and an open utterance is short of both limits.                          *)
OpenWithinLimits ==
  /\ active <=> state = "Speech"
  /\ active => /\ speech_ms < MaxUtteranceMs
               /\ silence_ms = 0 \/ silence_ms < SilenceMs

(* While an utterance is open the counters that decide when it ends measure *)
(* what buf holds: the speech without the lead-in and the pauses, and the   *)
(* silence since the last speech frame.                                     *)
CountersMeasureBuffer ==
  /\ active <=> buf # <<>>
  /\ active => speech_ms = SpeechMs(buf) /\ silence_ms = TrailingMs(buf)

(* An utterance is delivered exactly when it holds min_utterance_ms of      *)
(* speech (lead-in and silence do not count), and it is cut with the frame  *)
(* that takes it to max_utterance_ms, its first frame of speech at the      *)
(* earliest.                                                                *)
DeliveredIsLongEnough ==
  closed.pcm # <<>> =>
    /\ closed.emitted <=> SpeechMs(closed.pcm) >= MinUtteranceMs
    /\ LET before == SpeechMs(Front(closed.pcm))
       IN  before = 0 \/ before < MaxUtteranceMs

(* The lead-in ring holds at most pre_speech_ms of audio, all of it silence.*)
LeadInBounded ==
  /\ TotalMs(pre_speech) <= pre_speech_total_ms
  /\ pre_speech_total_ms <= PreSpeechMs
  /\ SpeechMs(pre_speech) = 0

(* Utterances are disjoint runs of consecutive frames in stream order, none *)
(* of them ended twice: the assembler implements Segments, its buffer being *)
(* the open segment.                                                        *)
Numbers(frames) == [i \in 1 .. Len(frames) |-> frames[i].n]

Segmenter == INSTANCE Segments WITH
  cursor <- last.n,
  segment <- Numbers(buf),
  ended <- [frames |-> Numbers(closed.pcm), delivered |-> closed.emitted]

ImplementsSegments == Segmenter!Spec
=============================================================================
