--------------------------- MODULE ChunkerProofs ---------------------------
(***************************************************************************)
(* For every answer, chunk length and way of sending it, no character is   *)
(* lost or said twice (NothingLost), and only a sentence or a line makes a *)
(* chunk longer than the maximum (LongOnlyForSentence).                    *)
(***************************************************************************)
EXTENDS Chunker, TLAPS

USE DEF Phases

LEMMA ChunkNumbers ==
  ASSUME ChunkerTypeOK, NEW k \in DOMAIN chunks
  PROVE  chunks[k].from \in Nat /\ chunks[k].to \in Nat
<1> DEFINE Cut == [from : Nat, to : Nat]
<1>0. chunks \in Seq(Cut) /\ k \in 1..Len(chunks)
  BY DEF ChunkerTypeOK
<1> HIDE DEF Cut
<1>1. chunks[k] \in Cut
  BY <1>0
<1> USE DEF Cut
<1> QED BY <1>1

\* What a cut does: blanks in front of it go, and what is cut becomes a chunk.
LEMMA CutKeeps ==
  ASSUME ChunkerTypeOK, NothingLost, UNCHANGED text,
         NEW s \in taken..Len(text), NEW t \in taken..Len(text),
         TrimStart(s), TakeRange(s, t)
  PROVE  text' \in Seq(Chars) /\ taken' \in 0..Len(text') /\ chunks' \in Seq([from : Nat, to : Nat])
         /\ NothingLost'
<1> DEFINE c == [from |-> s, to |-> t]
<1>1. CASE ~(s < t)
  <2>1. UNCHANGED <<chunks, taken>>
    BY <1>1 DEF TakeRange
  <2> QED BY <2>1 DEF ChunkerTypeOK, NothingLost, Blank
<1>2. CASE s < t
  <2>1. chunks' = Append(chunks, c) /\ taken' = t
    BY <1>2 DEF TakeRange
  <2>2. s \in Nat /\ t \in Nat /\ t <= Len(text) /\ taken <= s /\ Len(text) \in Nat /\ taken \in Nat
    BY DEF ChunkerTypeOK
  <2>3. c \in [from : Nat, to : Nat] /\ c.from = s /\ c.to = t
    BY <2>2
  <2>4. /\ chunks' \in Seq([from : Nat, to : Nat])
        /\ Len(chunks') = Len(chunks) + 1 /\ Len(chunks) \in Nat
        /\ \A k \in 1..Len(chunks) : chunks'[k] = chunks[k]
        /\ chunks'[Len(chunks) + 1] = c
    BY <2>1, <2>3 DEF ChunkerTypeOK
  <2>5. DOMAIN chunks' = 1..Len(chunks) + 1 /\ DOMAIN chunks = 1..Len(chunks)
    BY <2>4 DEF ChunkerTypeOK
  <2>6. \A k \in DOMAIN chunks : chunks[k].from \in Nat /\ chunks[k].to \in Nat
    BY ChunkNumbers
  <2>7. \A i \in 1..t : Blank(i)' \/ \E k \in DOMAIN chunks' : chunks'[k].from < i /\ i <= chunks'[k].to
    <3>1. SUFFICES ASSUME NEW i \in 1..t, ~Blank(i)
                   PROVE  \E k \in DOMAIN chunks' : chunks'[k].from < i /\ i <= chunks'[k].to
      BY DEF Blank
    <3>2. CASE i <= taken
      <4>1. PICK k \in DOMAIN chunks : chunks[k].from < i /\ i <= chunks[k].to
        BY <2>2, <3>1, <3>2 DEF NothingLost
      <4> QED BY <4>1, <2>4, <2>5, SMTT(40)
    <3>3. CASE taken < i /\ i <= s
      BY <2>2, <3>1, <3>3 DEF TrimStart
    <3>4. CASE s < i
      <4>1. Len(chunks) + 1 \in DOMAIN chunks' /\ chunks'[Len(chunks) + 1].from < i
            /\ i <= chunks'[Len(chunks) + 1].to
        BY <2>2, <2>3, <2>4, <2>5, <3>4
      <4> QED BY <4>1
    <3> QED BY <2>2, <3>2, <3>3, <3>4
  <2>8. ASSUME NEW k \in DOMAIN chunks'
        PROVE  /\ chunks'[k].from < chunks'[k].to /\ chunks'[k].to <= t
               /\ \A l \in DOMAIN chunks' : k < l => chunks'[k].to <= chunks'[l].from
    <3>1. CASE k = Len(chunks) + 1
      BY <1>2, <2>2, <2>3, <2>4, <2>5, <3>1
    <3>2. CASE k \in DOMAIN chunks
      <4>1. chunks[k].from < chunks[k].to /\ chunks[k].to <= taken
        BY <3>2 DEF NothingLost
      <4>2. ASSUME NEW l \in DOMAIN chunks', k < l PROVE chunks'[k].to <= chunks'[l].from
        <5>1. CASE l = Len(chunks) + 1
          BY <5>1, <4>1, <2>2, <2>3, <2>4, <2>5, <2>6, <3>2, SMTT(40)
        <5>2. CASE l \in DOMAIN chunks
          BY <5>2, <4>2, <3>2, <2>4, <2>5 DEF NothingLost
        <5> QED BY <5>1, <5>2, <2>4, <2>5
      <4> QED BY <4>1, <4>2, <2>2, <2>4, <2>5, <2>6, <3>2, SMTT(40)
    <3> QED BY <3>1, <3>2, <2>4, <2>5
  <2>9. text' \in Seq(Chars) /\ taken' \in 0..Len(text')
    BY <2>1, <2>2 DEF ChunkerTypeOK
  <2>10. NothingLost'
    BY <2>1, <2>7, <2>8 DEF NothingLost
  <2> QED BY <2>4, <2>9, <2>10
<1> QED BY <1>1, <1>2

LEMMA FinishKeeps ==
  ASSUME ChunkerTypeOK, NothingLost, Finish
  PROVE  ChunkerTypeOK' /\ NothingLost'
<1>1. PICK s \in taken..Len(text), t \in taken..Len(text) :
        /\ TrimStart(s)
        /\ TrimEnd(Len(text), t)
        /\ IF s < t
           THEN TakeRange(s, t)
           ELSE taken' = Len(text) /\ UNCHANGED chunks
  BY DEF Finish
<1>2. UNCHANGED text /\ chunking' = "finished"
  BY DEF Finish
<1>3. CASE s < t
  BY <1>1, <1>2, <1>3, CutKeeps DEF ChunkerTypeOK
<1>4. CASE ~(s < t)
  <2>1. taken' = Len(text) /\ UNCHANGED chunks
    BY <1>1, <1>4
  <2>2. \A i \in taken+1..Len(text) : Blank(i)
    BY <1>1, <1>4 DEF TrimStart, TrimEnd, ChunkerTypeOK
  <2>3. Len(text) \in Nat /\ taken \in Nat /\ taken <= Len(text)
    BY DEF ChunkerTypeOK
  <2>4. \A k \in DOMAIN chunks : chunks[k].to \in Nat
    BY ChunkNumbers
  <2>5. \A i \in 1..Len(text) :
          Blank(i) \/ \E k \in DOMAIN chunks : chunks[k].from < i /\ i <= chunks[k].to
    BY <2>2, <2>3 DEF NothingLost
  <2> QED BY <1>2, <2>1, <2>3, <2>4, <2>5 DEF ChunkerTypeOK, NothingLost, Blank
<1> QED BY <1>3, <1>4

LEMMA PushKeeps ==
  ASSUME ChunkerTypeOK, NothingLost, NEW d \in Seq(Chars), Push(d)
  PROVE  ChunkerTypeOK' /\ NothingLost'
<1>1. text' = text \o d /\ chunking' = "emitting" /\ UNCHANGED <<taken, chunks>>
  BY DEF Push
<1>2. /\ text \in Seq(Chars) /\ Len(text) \in Nat /\ Len(d) \in Nat
      /\ taken \in Nat /\ taken <= Len(text)
  BY DEF ChunkerTypeOK
<1>3. text' \in Seq(Chars) /\ Len(text') = Len(text) + Len(d) /\ \A i \in 1..Len(text) : text'[i] = text[i]
  BY <1>1, <1>2
<1>4. \A i \in 1..taken : text'[i] = text[i]
  BY <1>2, <1>3
<1>5. ChunkerTypeOK'
  BY <1>1, <1>2, <1>3 DEF ChunkerTypeOK
<1> QED BY <1>1, <1>4, <1>5 DEF NothingLost, Blank

Whole == ChunkerTypeOK /\ NothingLost

LEMMA WholeInit == ASSUME ChunkerInit PROVE Whole
BY DEF ChunkerInit, ChunkerTypeOK, NothingLost, Whole

LEMMA WholeNext ==
  ASSUME Whole, [ChunkerNext]_chunkVars PROVE Whole'
<1>1. ChunkerTypeOK /\ NothingLost /\ [ChunkerNext]_chunkVars
  BY DEF Whole
<1> SUFFICES ChunkerTypeOK' /\ NothingLost'
  BY DEF Whole
<1>2. CASE Pushes
  BY <1>1, <1>2, PushKeeps, ChunkerAssumption DEF Pushes
<1>3. CASE EmitSentence
  <2>1. PICK s \in taken..Len(text), t \in taken..Len(text) :
          TrimStart(s) /\ TakeRange(s, t)
    BY <1>3 DEF EmitSentence
  <2> QED BY <1>1, <1>3, <2>1, CutKeeps DEF EmitSentence, ChunkerTypeOK
<1>4. CASE EmitFlush
  <2>1. PICK s \in taken..Len(text), t \in taken..Len(text) :
          TrimStart(s) /\ TakeRange(s, t)
    BY <1>4 DEF EmitFlush
  <2> QED BY <1>1, <1>4, <2>1, CutKeeps DEF EmitFlush, ChunkerTypeOK
<1>5. CASE EmitReturns
  BY <1>1, <1>5 DEF EmitReturns, ChunkerTypeOK, NothingLost, Blank
<1>6. CASE Finish
  BY <1>1, <1>6, FinishKeeps
<1>7. CASE UNCHANGED chunkVars
  BY <1>1, <1>7 DEF chunkVars, ChunkerTypeOK, NothingLost, Blank
<1> QED BY <1>1, <1>2, <1>3, <1>4, <1>5, <1>6, <1>7 DEF ChunkerNext, Emit

\* What the answer holds in words is what is spoken: every non-blank character that
\* left the pending text is in exactly one chunk, in order.
THEOREM NothingIsLost == ChunkerSpec => []NothingLost
<1>1. Whole => NothingLost
  BY DEF Whole
<1> QED BY <1>1, WholeInit, WholeNext, PTL DEF ChunkerSpec

-----------------------------------------------------------------------------
(* The length of chunks.                                                   *)

\* A chunk of [from, to) is short, or ends a sentence or a line.
Fits(from, to) ==
  to - from > MaxChars =>
    \E i \in 1..Len(text) :
      /\ text[i] \in {"dot", "mark", "newline"}
      /\ \A j \in i+1..to : text[j] = "close"
      /\ \A j \in to+1..i : Blank(j)

\* emit_ready leaves nothing behind that is too long.
Bounded == LongOnlyForSentence /\ (chunking = "idle" => ~TooLong)

\* A cut that fits leaves chunks that fit.
LEMMA CutFits ==
  ASSUME ChunkerTypeOK, LongOnlyForSentence, UNCHANGED text,
         NEW s \in taken..Len(text), NEW t \in taken..Len(text),
         s < t => Fits(s, t), TakeRange(s, t)
  PROVE  LongOnlyForSentence'
<1> DEFINE c == [from |-> s, to |-> t]
           Cut == [from : Nat, to : Nat]
<1>1. CASE ~(s < t)
  BY <1>1 DEF TakeRange, LongOnlyForSentence, Blank
<1>2. CASE s < t
  <2>1. chunks' = Append(chunks, c)
    BY <1>2 DEF TakeRange
  <2>2. s \in Nat /\ t \in Nat /\ chunks \in Seq(Cut)
    BY DEF ChunkerTypeOK
  <2>3. c \in Cut /\ c.from = s /\ c.to = t
    BY <2>2
  <2> HIDE DEF Cut, c
  <2>4. /\ DOMAIN chunks' = 1..Len(chunks) + 1 /\ DOMAIN chunks = 1..Len(chunks)
        /\ Len(chunks) \in Nat
        /\ \A k \in 1..Len(chunks) : chunks'[k] = chunks[k]
        /\ chunks'[Len(chunks) + 1] = c
    BY <2>1, <2>2, <2>3
  <2>5. \A k \in DOMAIN chunks' : Fits(chunks'[k].from, chunks'[k].to)
    <3> TAKE k \in DOMAIN chunks'
    <3>1. CASE k = Len(chunks) + 1
      BY <1>2, <2>3, <2>4, <3>1
    <3>2. CASE k \in DOMAIN chunks
      <4>1. Fits(chunks[k].from, chunks[k].to)
        BY <3>2 DEF LongOnlyForSentence, Fits
      <4> QED BY <2>4, <3>2, <4>1
    <3> QED BY <2>4, <3>1, <3>2
  <2> QED BY <2>5 DEF LongOnlyForSentence, Fits, Blank
<1> QED BY <1>1, <1>2

\* A sentence is cut behind a boundary, or in front of the blanks that it is part of.
LEMMA SentenceFits ==
  ASSUME ChunkerTypeOK, NEW s \in taken..Len(text), NEW t \in taken..Len(text),
         TrimStart(s), QualifyingBoundary(t), s < t
  PROVE  Fits(s, t)
<1>1. PICK i \in taken+1..Len(text) : Qualifies(i, t)
  BY DEF QualifyingBoundary
<1>2. PICK e \in i..Len(text) : BoundaryEnd(i, e) /\ TrimEnd(e, t)
  BY <1>1 DEF Qualifies
<1>3. /\ Len(text) \in Nat /\ taken \in Nat
      /\ text[i] \in {"dot", "mark", "newline"} /\ t <= e
  BY <1>1, <1>2 DEF ChunkerTypeOK, Qualifies, IsBoundary, TrimEnd
<1>4. \A j \in i+1..t : text[j] = "close"
  BY <1>2, <1>3 DEF BoundaryEnd
<1>5. \A j \in t+1..i : Blank(j)
  BY <1>2, <1>3 DEF TrimEnd
<1> QED BY <1>3, <1>4, <1>5 DEF Fits

\* A forced cut is at most MaxChars behind the start of the pending text, but for
\* blanks, which are trimmed.
LEMMA FlushFits ==
  ASSUME ChunkerTypeOK, NEW s \in taken..Len(text), NEW t \in taken..Len(text),
         NEW f \in taken..Len(text), FlushCut(f), TrimEnd(f, t)
  PROVE  Fits(s, t)
<1>1. PICK c \in taken..taken+MaxChars :
        IF c = taken
        THEN f = taken + MaxChars
        ELSE f \in c..Len(text) /\ \A i \in c+1..f : Blank(i)
  BY DEF FlushCut
<1>2. /\ Len(text) \in Nat /\ taken \in Nat /\ MaxChars \in Nat
      /\ t \in taken..f /\ (taken < t => ~Blank(t))
  BY ChunkerAssumption DEF ChunkerTypeOK, TrimEnd
<1>3. t <= taken + MaxChars
  BY <1>1, <1>2
<1>4. t - s <= MaxChars
  BY <1>2, <1>3
<1> QED BY <1>2, <1>4 DEF Fits

\* The rest that finish emits is no longer than emit_ready leaves it.
LEMMA FinishFits ==
  ASSUME ChunkerTypeOK, Bounded, Finish
  PROVE  Bounded'
<1>1. PICK s \in taken..Len(text), t \in taken..Len(text) :
        IF s < t
        THEN TakeRange(s, t)
        ELSE taken' = Len(text) /\ UNCHANGED chunks
  BY DEF Finish
<1>2. UNCHANGED text /\ chunking' = "finished" /\ chunking = "idle"
  BY DEF Finish
<1>3. /\ Len(text) \in Nat /\ taken \in Nat /\ MaxChars \in Nat /\ Len(text) - taken <= MaxChars
  BY <1>2, ChunkerAssumption DEF ChunkerTypeOK, Bounded, TooLong
<1>4. t - s <= MaxChars
  BY <1>3
<1>5. Fits(s, t)
  BY <1>3, <1>4 DEF Fits
<1>6. CASE s < t
  BY <1>1, <1>2, <1>5, <1>6, CutFits DEF Bounded
<1>7. CASE ~(s < t)
  <2>1. UNCHANGED <<chunks, text>>
    BY <1>1, <1>2, <1>7
  <2> QED BY <1>2, <2>1 DEF Bounded, LongOnlyForSentence, Blank
<1> QED BY <1>6, <1>7

LEMMA PushFits ==
  ASSUME Whole, Bounded, NEW d \in Seq(Chars), Push(d)
  PROVE  Bounded'
<1>1. text' = text \o d /\ chunking' = "emitting" /\ UNCHANGED chunks
  BY DEF Push
<1>2. text \in Seq(Chars) /\ Len(text) \in Nat /\ Len(d) \in Nat /\ taken \in Nat /\ taken <= Len(text)
  BY DEF Whole, ChunkerTypeOK
<1>3. Len(text') = Len(text) + Len(d) /\ \A i \in 1..Len(text) : text'[i] = text[i]
  BY <1>1, <1>2
<1>4. ASSUME NEW k \in DOMAIN chunks, chunks[k].to - chunks[k].from > MaxChars
      PROVE  \E i \in 1..Len(text') :
               /\ text'[i] \in {"dot", "mark", "newline"}
               /\ \A j \in i+1..chunks[k].to : text'[j] = "close"
               /\ \A j \in chunks[k].to+1..i : Blank(j)'
  <2>1. chunks[k].to \in Nat /\ chunks[k].to <= taken
    BY ChunkNumbers DEF Whole, NothingLost
  <2>2. PICK i \in 1..Len(text) :
          /\ text[i] \in {"dot", "mark", "newline"}
          /\ \A j \in i+1..chunks[k].to : text[j] = "close"
          /\ \A j \in chunks[k].to+1..i : Blank(j)
    BY <1>4 DEF Bounded, LongOnlyForSentence
  <2>3. i \in 1..Len(text')
    BY <1>2, <1>3
  <2>4. text'[i] \in {"dot", "mark", "newline"}
    BY <1>3, <2>2
  <2>5. ASSUME NEW j \in i+1..chunks[k].to PROVE text'[j] = "close"
    <3>1. i \in Nat /\ j \in 1..Len(text)
      BY <1>2, <2>1, <2>2
    <3>2. text[j] = "close"
      BY <2>2
    <3> QED BY <1>3, <3>1, <3>2
  <2>6. ASSUME NEW j \in chunks[k].to+1..i PROVE Blank(j)'
    <3>1. j \in 1..Len(text) /\ Blank(j)
      BY <1>2, <2>1, <2>2
    <3> QED BY <1>3, <3>1 DEF Blank
  <2> QED BY <2>3, <2>4, <2>5, <2>6
<1> QED BY <1>1, <1>4 DEF Bounded, LongOnlyForSentence

LEMMA BoundedNext ==
  ASSUME Whole, Bounded, [ChunkerNext]_chunkVars PROVE Bounded'
<1>1. ChunkerTypeOK /\ LongOnlyForSentence /\ [ChunkerNext]_chunkVars
  BY DEF Whole, Bounded
<1>2. CASE Pushes
  BY <1>2, PushFits, ChunkerAssumption DEF Pushes
<1>3. CASE EmitSentence
  <2>1. PICK s \in taken..Len(text), t \in taken..Len(text) :
          TrimStart(s) /\ QualifyingBoundary(t) /\ TakeRange(s, t)
    BY <1>3 DEF EmitSentence
  <2>2. UNCHANGED text /\ chunking' = "emitting"
    BY <1>3 DEF EmitSentence
  <2>3. s < t => Fits(s, t)
    BY <1>1, <2>1, SentenceFits
  <2>4. LongOnlyForSentence'
    BY <1>1, <2>1, <2>2, <2>3, CutFits
  <2> QED BY <2>2, <2>4 DEF Bounded
<1>4. CASE EmitFlush
  <2>1. PICK s \in taken..Len(text), f \in taken..Len(text), t \in taken..Len(text) :
          FlushCut(f) /\ TrimEnd(f, t) /\ TakeRange(s, t)
    BY <1>4 DEF EmitFlush
  <2>2. UNCHANGED text /\ chunking' = "emitting"
    BY <1>4 DEF EmitFlush
  <2>3. Fits(s, t)
    BY <1>1, <2>1, FlushFits
  <2>4. LongOnlyForSentence'
    BY <1>1, <2>1, <2>2, <2>3, CutFits
  <2> QED BY <2>2, <2>4 DEF Bounded
<1>5. CASE EmitReturns
  BY <1>1, <1>5 DEF EmitReturns, Bounded, LongOnlyForSentence, TooLong, Blank
<1>6. CASE Finish
  BY <1>1, <1>6, FinishFits
<1>7. CASE UNCHANGED chunkVars
  BY <1>1, <1>7 DEF chunkVars, Bounded, LongOnlyForSentence, TooLong, Blank
<1> QED BY <1>1, <1>2, <1>3, <1>4, <1>5, <1>6, <1>7 DEF ChunkerNext, Emit

\* A chunk is at most MaxChars long unless the sentence or the line it ends is longer.
THEOREM ChunksAreBounded == ChunkerSpec => []LongOnlyForSentence
<1>1. ASSUME ChunkerInit PROVE Whole /\ Bounded
  BY <1>1, WholeInit, ChunkerAssumption
     DEF ChunkerInit, Bounded, LongOnlyForSentence, TooLong
<1>2. ASSUME Whole, Bounded, [ChunkerNext]_chunkVars PROVE Whole' /\ Bounded'
  BY <1>2, WholeNext, BoundedNext
<1>3. Bounded => LongOnlyForSentence
  BY DEF Bounded
<1> QED BY <1>1, <1>2, <1>3, PTL DEF ChunkerSpec
=============================================================================
