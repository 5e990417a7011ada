------------------------------ MODULE Chunker ------------------------------
(***************************************************************************)
(* TextChunker (crates/harness-core/src/chunker.rs): the answer's text     *)
(* arrives in deltas and leaves in chunks for speech synthesis, each       *)
(* stripped of markup on its own (strip_for_speech).                       *)
(*                                                                         *)
(* A position in the text is the number of characters before it.  The      *)
(* pending string is the text behind position `taken`; a chunk is the pair *)
(* of positions it was cut at.  A character is its class; "mark" stands    *)
(* for ! and ?, "close" for closing quotes and brackets, "fence" for the   *)
(* three backquotes of a code fence.  The loop of emit_ready is one step   *)
(* per iteration.                                                          *)
(***************************************************************************)
EXTENDS Integers, Sequences, FiniteSets

CONSTANTS MinChunk,  \* MIN_CHUNK_CHARS
          MaxChars,  \* session.chunk_max_chars
          Deltas,    \* the deltas a model may send
          MaxText    \* bound: length of an answer

Chars == {"letter", "digit", "dot", "mark", "newline", "space", "close", "fence"}

ASSUME ChunkerAssumption ==
  /\ MinChunk \in Nat \ {0}
  /\ MaxChars \in Nat
  /\ Deltas \subseteq Seq(Chars)
  /\ MaxText \in Nat

VARIABLES text,      \* everything pushed so far
          taken,     \* how much of it has left `pending`
          chunks,    \* the chunks emitted, in order
          chunking   \* emit_ready is running, or "finished" was called

chunkVars == <<text, taken, chunks, chunking>>

Phases == {"idle", "emitting", "finished"}

Blank(i) == text[i] \in {"space", "newline"}

ChunkerInit ==
  /\ text = <<>>
  /\ taken = 0
  /\ chunks = <<>>
  /\ chunking = "idle"

-----------------------------------------------------------------------------
(* Where a chunk may begin and end.  Each of these holds of one position.  *)

\* The pending text without its leading blanks begins at s.
TrimStart(s) ==
  /\ s \in taken..Len(text)
  /\ \A i \in taken+1..s : Blank(i)
  /\ s < Len(text) => ~Blank(s + 1)

\* The pending text up to e without its trailing blanks ends at t.
TrimEnd(e, t) ==
  /\ t \in taken..e
  /\ \A i \in t+1..e : Blank(i)
  /\ taken < t => ~Blank(t)

\* A dot behind a digit is a decimal point, if the digit is still pending.
IsBoundary(i) ==
  /\ text[i] \in {"dot", "mark", "newline"}
  /\ ~(text[i] = "dot" /\ i > taken + 1 /\ text[i - 1] = "digit")

BoundaryEnd(i, e) ==
  /\ e \in i..Len(text)
  /\ \A j \in i+1..e : text[j] = "close"
  /\ e < Len(text) => text[e + 1] # "close"

\* The boundary at i ends a chunk at t that is long enough.
Qualifies(i, t) ==
  /\ IsBoundary(i)
  /\ \E e \in i..Len(text) : BoundaryEnd(i, e) /\ TrimEnd(e, t)
  /\ t - taken >= MinChunk

QualifyingBoundary(t) ==
  \E i \in taken+1..Len(text) :
    /\ Qualifies(i, t)
    /\ \A j \in taken+1..i-1 : \A u \in taken+1..Len(text) : ~Qualifies(j, u)

HasSentence == \E i \in taken+1..Len(text), t \in taken+1..Len(text) : Qualifies(i, t)

\* The last blank among the first MaxChars pending characters, if any.
LastBreak(c) ==
  /\ c \in taken..taken+MaxChars
  /\ taken < c => Blank(c)
  /\ \A i \in c+1..taken+MaxChars : ~Blank(i)

TooLong == Len(text) - taken > MaxChars

FlushCut(f) ==
  \E c \in taken..taken+MaxChars :
    /\ LastBreak(c)
    /\ IF c = taken
       THEN f = taken + MaxChars
       ELSE /\ f \in c..Len(text)
            /\ \A i \in c+1..f : Blank(i)
            /\ f < Len(text) => ~Blank(f + 1)

\* (Slip) The chunk is cut at its trimmed end, the pending text at the cut + 1.
TakeRangeOver(from, to) ==
  IF from < to
  THEN /\ chunks' = Append(chunks, [from |-> from, to |-> to])
       /\ taken' = IF to < Len(text) THEN to + 1 ELSE to
  ELSE UNCHANGED <<chunks, taken>>

TakeRange(from, to) ==
  IF from < to
  THEN /\ chunks' = Append(chunks, [from |-> from, to |-> to])
       /\ taken' = to
  ELSE UNCHANGED <<chunks, taken>>

-----------------------------------------------------------------------------
Push(delta) ==
  /\ chunking = "idle"
  /\ text' = text \o delta
  /\ chunking' = "emitting"
  /\ UNCHANGED <<taken, chunks>>

EmitSentence ==
  /\ chunking = "emitting"
  /\ \E s, t \in taken..Len(text) :
       TrimStart(s) /\ QualifyingBoundary(t) /\ TakeRange(s, t)
  /\ UNCHANGED <<text, chunking>>

EmitFlush ==
  /\ chunking = "emitting"
  /\ ~HasSentence
  /\ TooLong
  /\ \E s, f, t \in taken..Len(text) :
       TrimStart(s) /\ FlushCut(f) /\ TrimEnd(f, t) /\ TakeRange(s, t)
  /\ UNCHANGED <<text, chunking>>

\* (Slip) The loop is left after the first chunk.
EmitReturnsEarly ==
  /\ chunking = "emitting"
  /\ chunking' = "idle"
  /\ UNCHANGED <<text, taken, chunks>>

EmitReturns ==
  /\ chunking = "emitting"
  /\ ~HasSentence
  /\ ~TooLong
  /\ chunking' = "idle"
  /\ UNCHANGED <<text, taken, chunks>>

\* (Slip) finish drops a remainder that is too short for a chunk.
FinishIfLong ==
  /\ chunking = "idle"
  /\ \E s, t \in taken..Len(text) :
       /\ TrimStart(s)
       /\ TrimEnd(Len(text), t)
       /\ IF t - s >= MinChunk
          THEN TakeRange(s, t)
          ELSE taken' = Len(text) /\ UNCHANGED chunks
  /\ chunking' = "finished"
  /\ UNCHANGED text

Finish ==
  /\ chunking = "idle"
  /\ \E s, t \in taken..Len(text) :
       /\ TrimStart(s)
       /\ TrimEnd(Len(text), t)
       /\ IF s < t
          THEN TakeRange(s, t)
          ELSE taken' = Len(text) /\ UNCHANGED chunks
  /\ chunking' = "finished"
  /\ UNCHANGED text

Emit == EmitSentence \/ EmitFlush \/ EmitReturns

Pushes == \E d \in Deltas : Len(text) + Len(d) <= MaxText /\ Push(d)

ChunkerNext == Pushes \/ Emit \/ Finish

ChunkerSpec == ChunkerInit /\ [][ChunkerNext]_chunkVars

\* emit_ready is a loop: it goes on by itself.
ChunkerFairSpec == ChunkerSpec /\ WF_chunkVars(Emit)

-----------------------------------------------------------------------------
(* strip_for_speech, as far as code fences go.                             *)

\* A fence is one if only blanks precede it on its line of the chunk.
FenceAt(from, j) ==
  /\ text[j] = "fence"
  /\ \E p \in from..j-1 :
       /\ from < p => text[p] = "newline"
       /\ \A i \in p+1..j-1 : text[i] = "space"

OnFenceLine(from, i) ==
  \E j \in from+1..i : FenceAt(from, j) /\ \A q \in j..i : text[q] # "newline"

\* An odd number of fences of [from, to) precede i.
InFence(from, i) == Cardinality({j \in from+1..i-1 : FenceAt(from, j)}) % 2 = 1

Spoken(c) ==
  {i \in c.from+1..c.to : ~Blank(i) /\ ~OnFenceLine(c.from, i) /\ ~InFence(c.from, i)}

-----------------------------------------------------------------------------
ChunkerTypeOK ==
  /\ text \in Seq(Chars)
  /\ taken \in 0..Len(text)
  /\ chunks \in Seq([from : Nat, to : Nat])
  /\ chunking \in Phases

\* Whatever the deltas and the cuts (chunker.rs:91-98, 135-159), a character that
\* is not blank and has left the pending text is in a chunk, and chunks follow
\* each other without overlap, so that nothing is said twice or out of order.
NothingLost ==
  /\ \A i \in 1..taken :
       Blank(i) \/ \E k \in DOMAIN chunks : chunks[k].from < i /\ i <= chunks[k].to
  /\ \A k \in DOMAIN chunks :
       /\ chunks[k].from < chunks[k].to /\ chunks[k].to <= taken
       /\ \A l \in DOMAIN chunks : k < l => chunks[k].to <= chunks[l].from

\* Speech is synthesised in pieces of at most MaxChars, except for a sentence or a line
\* that came whole (chunker.rs:5-7): a longer chunk ends one, stands right before the
\* newline that does, or is nothing but the closing quotes and brackets behind it.
LongOnlyForSentence ==
  \A k \in DOMAIN chunks :
    chunks[k].to - chunks[k].from > MaxChars =>
      \E i \in 1..Len(text) :
        /\ text[i] \in {"dot", "mark", "newline"}
        /\ \A j \in i+1..chunks[k].to : text[j] = "close"
        /\ \A j \in chunks[k].to+1..i : Blank(j)

\* "a run without punctuation longer than max_chars is force-split ... so chunks
\* stay bounded" (chunker.rs:6-7): emit_ready comes to an end.
EmitEnds == chunking = "emitting" ~> chunking # "emitting"

\* "fenced code blocks (content suppressed entirely)" (chunker.rs:10-11): nothing
\* that is code in the answer is spoken in any of its chunks.
CodeIsNotSpoken ==
  \A k \in DOMAIN chunks : \A i \in Spoken(chunks[k]) : ~InFence(0, i)

=============================================================================
