------------------------------ MODULE VadProofs ------------------------------
(***************************************************************************)
(* What holds of Vad for every policy, all frame lengths and streams of    *)
(* any length: the counters measure the buffer, an utterance is measured   *)
(* on what it holds, the lead-in is silence within its window, and the     *)
(* assembler implements Segments.                                          *)
(*                                                                         *)
(* Sums are defined by recursion over a buffer; what they yield for every  *)
(* buffer rests on the induction over sets of numbers of Counting.         *)
(***************************************************************************)
EXTENDS Vad, Counting, SequenceTheorems

-----------------------------------------------------------------------------
(* Sums of sequences of numbers.                                           *)

(* s holds the sums of the beginnings of w, of which Sum(w) is the last.    *)
PartialSums(w, s) ==
  /\ s \in [0 .. Len(w) -> Nat]
  /\ s[0] = 0
  /\ \A i \in 1 .. Len(w) : s[i] = s[i - 1] + w[i]

(* The recursive function in Sum exists: it is built one element further at *)
(* a time, by induction over the length of a beginning of w.                *)
LEMMA PartialSumsExist ==
  ASSUME NEW w \in Seq(Nat)
  PROVE  \E s : PartialSums(w, s)
<1> DEFINE Upto(n, s) == /\ s \in [0 .. n -> Nat]
                         /\ s[0] = 0
                         /\ \A i \in 1 .. n : s[i] = s[i - 1] + w[i]
           P == {n \in Nat : n <= Len(w) => \E s : Upto(n, s)}
<1>1. Len(w) \in Nat /\ \A i \in 1 .. Len(w) : w[i] \in Nat
  BY LenProperties
<1>2. 0 \in P
  <2>1. Upto(0, [i \in 0 .. 0 |-> 0])
    OBVIOUS
  <2> HIDE DEF Upto
  <2> QED
    BY <2>1
<1>3. ASSUME NEW n \in P PROVE n + 1 \in P
  <2>1. SUFFICES ASSUME n + 1 <= Len(w) PROVE \E s : Upto(n + 1, s)
    <3> HIDE DEF Upto
    <3> QED
      OBVIOUS
  <2>2. n \in Nat /\ n <= Len(w) /\ \E s : Upto(n, s)
    <3> HIDE DEF Upto
    <3> QED
      BY <2>1, <1>1
  <2>3. PICK s : Upto(n, s)
    BY <2>2
  <2> DEFINE t == [i \in 0 .. n + 1 |-> IF i = n + 1 THEN s[n] + w[n + 1] ELSE s[i]]
  <2>4. s[n] \in Nat /\ w[n + 1] \in Nat
    BY <2>1, <2>2, <2>3, <1>1
  <2>5. t \in [0 .. n + 1 -> Nat] /\ t[0] = 0
    BY <2>2, <2>3, <2>4
  <2>6. ASSUME NEW i \in 1 .. n + 1 PROVE t[i] = t[i - 1] + w[i]
    <3>1. CASE i = n + 1
      <4>1. t[i] = s[n] + w[n + 1] /\ t[i - 1] = s[n]
        BY <2>2, <3>1
      <4> QED
        BY <3>1, <4>1
    <3>2. CASE i # n + 1
      <4>1. i \in 1 .. n /\ i - 1 \in 0 .. n + 1 /\ i - 1 # n + 1 /\ i \in 0 .. n + 1
        BY <2>2, <3>2
      <4>2. t[i] = s[i] /\ t[i - 1] = s[i - 1]
        BY <3>2, <4>1
      <4> QED
        BY <2>3, <4>1, <4>2
    <3> QED
      BY <3>1, <3>2
  <2>7. Upto(n + 1, t)
    <3> HIDE DEF t
    <3> QED
      BY <2>5, <2>6
  <2> HIDE DEF Upto
  <2> QED
    BY <2>7
<1>4. P = Nat
  <2>1. P \in SUBSET Nat
    OBVIOUS
  <2> HIDE DEF P
  <2> QED
    BY <1>2, <1>3, <2>1, NatSetInduction
<1>5. \E s : Upto(Len(w), s)
  <2>1. Len(w) \in P
    BY <1>1, <1>4
  <2> HIDE DEF Upto
  <2> QED
    BY <1>1, <2>1
<1> QED
  BY <1>5 DEF PartialSums

(* Sequences that begin alike have the same sums as far as they do.         *)
LEMMA PartialSumsAgree ==
  ASSUME NEW v \in Seq(Nat), NEW s, PartialSums(v, s),
         NEW w \in Seq(Nat), NEW t, PartialSums(w, t),
         Len(v) <= Len(w), \A i \in 1 .. Len(v) : v[i] = w[i]
  PROVE  s[Len(v)] = t[Len(v)]
<1> DEFINE m == Len(v)
           P == {n \in Nat : n <= m => s[n] = t[n]}
<1> m \in Nat /\ Len(w) \in Nat
  BY LenProperties
<1>1. 0 \in P
  BY DEF PartialSums
<1>2. ASSUME NEW n \in P PROVE n + 1 \in P
  <2>1. SUFFICES ASSUME n + 1 <= m PROVE s[n + 1] = t[n + 1]
    OBVIOUS
  <2>2. n \in Nat /\ s[n] = t[n]
    BY <2>1
  <2>3. n + 1 \in 1 .. m /\ n + 1 \in 1 .. Len(v) /\ n + 1 \in 1 .. Len(w) /\ n + 1 - 1 = n
    BY <2>1, <2>2
  <2>4. s[n + 1] = s[n] + v[n + 1] /\ t[n + 1] = t[n] + w[n + 1]
    BY <2>3 DEF PartialSums
  <2> QED
    BY <2>2, <2>3, <2>4
<1>3. P = Nat
  <2>1. P \in SUBSET Nat
    OBVIOUS
  <2> HIDE DEF P
  <2> QED
    BY <1>1, <1>2, <2>1, NatSetInduction
<1> QED
  BY <1>3

(* Sum is the last of the partial sums.                                    *)
LEMMA SumIsPartialSum ==
  ASSUME NEW w \in Seq(Nat), NEW s, PartialSums(w, s)
  PROVE  Sum(w) = s[Len(w)]
<1> DEFINE Eqn(f) == f = [i \in 0 .. Len(w) |-> IF i = 0 THEN 0 ELSE f[i - 1] + w[i]]
           c == CHOOSE f : Eqn(f)
<1>1. Len(w) \in Nat
  BY LenProperties
<1>2. Eqn(s)
  <2> DEFINE r == [i \in 0 .. Len(w) |-> IF i = 0 THEN 0 ELSE s[i - 1] + w[i]]
  <2>1. \A i \in 0 .. Len(w) : r[i] = s[i]
    <3>1. ASSUME NEW i \in 0 .. Len(w) PROVE r[i] = s[i]
      <4>1. CASE i = 0
        BY <4>1 DEF PartialSums
      <4>2. CASE i # 0
        <5>1. i \in 1 .. Len(w)
          BY <1>1, <4>2
        <5> QED
          BY <4>2, <5>1 DEF PartialSums
      <4> QED
        BY <4>1, <4>2
    <3> QED
      BY <3>1
  <2>2. r = s
    BY <2>1 DEF PartialSums
  <2> QED
    BY <2>2
<1>3. Eqn(c)
  <2> HIDE DEF Eqn
  <2> QED
    BY <1>2
<1>4. Sum(w) = c[Len(w)]
  BY DEF Sum
<1>5. c[0] = 0 /\ \A i \in 1 .. Len(w) : c[i] = c[i - 1] + w[i]
  <2> HIDE DEF c
  <2> QED
    BY <1>1, <1>3
<1>6. \A i \in 0 .. Len(w) : c[i] = s[i]
  <2> HIDE DEF c
  <2> DEFINE P == {n \in Nat : n <= Len(w) => c[n] = s[n]}
  <2>1. 0 \in P
    BY <1>5 DEF PartialSums
  <2>2. ASSUME NEW n \in P PROVE n + 1 \in P
    <3>1. SUFFICES ASSUME n + 1 <= Len(w) PROVE c[n + 1] = s[n + 1]
      OBVIOUS
    <3>2. n \in Nat /\ c[n] = s[n]
      BY <1>1, <3>1
    <3>3. n + 1 \in 1 .. Len(w) /\ n + 1 - 1 = n
      BY <3>1, <3>2, <1>1
    <3>4. s[n + 1] = s[n] + w[n + 1] /\ c[n + 1] = c[n] + w[n + 1]
      BY <3>3, <1>5 DEF PartialSums
    <3> QED
      BY <3>2, <3>4
  <2>3. P = Nat
    <3>1. P \in SUBSET Nat
      OBVIOUS
    <3> HIDE DEF P
    <3> QED
      BY <2>1, <2>2, <3>1, NatSetInduction
  <2> QED
    BY <2>3
<1>7. c[Len(w)] = s[Len(w)]
  <2> HIDE DEF c
  <2> QED
    BY <1>1, <1>6
<1> QED
  BY <1>4, <1>7

(* What Sum is used for: the sum of a sequence is a number, that of the     *)
(* empty one and of one with zeros only is 0, and an element adds itself.   *)
LEMMA SumIsNat ==
  ASSUME NEW w \in Seq(Nat)
  PROVE  Sum(w) \in Nat
<1>1. PICK s : PartialSums(w, s)
  BY PartialSumsExist
<1>2. Sum(w) = s[Len(w)] /\ Len(w) \in Nat
  BY <1>1, SumIsPartialSum, LenProperties
<1> QED
  BY <1>1, <1>2 DEF PartialSums

(* Numbers that are all 0 sum to 0.                                        *)
LEMMA SumOfZeros ==
  ASSUME NEW w \in Seq(Nat), \A i \in 1 .. Len(w) : w[i] = 0
  PROVE  Sum(w) = 0
<1> DEFINE s == [i \in 0 .. Len(w) |-> 0]
<1>1. Len(w) \in Nat
  BY LenProperties
<1>2. PartialSums(w, s)
  BY <1>1 DEF PartialSums
<1>3. Sum(w) = s[Len(w)]
  <2> HIDE DEF s
  <2> QED
    BY <1>2, SumIsPartialSum
<1> QED
  BY <1>1, <1>3

(* One number more adds to the sum.                                        *)
LEMMA SumOfAppend ==
  ASSUME NEW w \in Seq(Nat), NEW x \in Nat
  PROVE  Sum(Append(w, x)) = Sum(w) + x
<1> DEFINE v == Append(w, x)
<1>1. v \in Seq(Nat) /\ Len(w) \in Nat /\ Len(v) = Len(w) + 1
      /\ v[Len(w) + 1] = x /\ \A i \in 1 .. Len(w) : w[i] = v[i]
  BY AppendProperties, LenProperties
<1> HIDE DEF v
<1>2. PICK s : PartialSums(w, s)
  BY PartialSumsExist
<1>3. PICK t : PartialSums(v, t)
  BY <1>1, PartialSumsExist
<1>4. s[Len(w)] = t[Len(w)]
  <2>1. Len(w) <= Len(v)
    BY <1>1
  <2> QED
    BY <1>1, <1>2, <1>3, <2>1, PartialSumsAgree
<1>5. t[Len(w) + 1] = t[Len(w)] + x
  <2>1. Len(w) + 1 \in 1 .. Len(v) /\ Len(w) + 1 - 1 = Len(w)
    BY <1>1
  <2>2. t[Len(w) + 1] = t[Len(w) + 1 - 1] + v[Len(w) + 1]
    BY <1>3, <2>1 DEF PartialSums
  <2> QED
    BY <1>1, <2>1, <2>2
<1>6. Sum(w) = s[Len(w)] /\ Sum(v) = t[Len(v)]
  BY <1>1, <1>2, <1>3, SumIsPartialSum
<1> QED
  BY <1>1, <1>4, <1>5, <1>6 DEF v

(* The sum of two sequences one after the other.                            *)
LEMMA SumOfConcat ==
  ASSUME NEW u \in Seq(Nat), NEW v \in Seq(Nat)
  PROVE  Sum(u \o v) = Sum(u) + Sum(v)
<1> DEFINE w == u \o v
           k == Len(u)
           l == Len(v)
<1>1. /\ w \in Seq(Nat) /\ k \in Nat /\ l \in Nat /\ Len(w) = k + l
      /\ \A i \in 1 .. k : u[i] = w[i]
  BY ConcatProperties, LenProperties
<1>2. \A i \in 1 .. l : w[k + i] = v[i] /\ v[i] \in Nat
  <2> TAKE i \in 1 .. l
  <2>1. k + i \in 1 .. k + l /\ ~(k + i <= k) /\ k + i - k = i
    BY <1>1
  <2> QED
    BY <2>1, ConcatProperties, ElementOfSeq
<1> HIDE DEF w
<1>3. PICK s : PartialSums(w, s)
  BY <1>1, PartialSumsExist
<1>4. PICK t : PartialSums(u, t)
  BY PartialSumsExist
<1>5. PICK r : PartialSums(v, r)
  BY PartialSumsExist
<1>6. t[k] = s[k]
  <2>1. w \in Seq(Nat) /\ Len(u) <= Len(w)
    BY <1>1
  <2>2. \A i \in 1 .. Len(u) : u[i] = w[i]
    BY <1>1
  <2>3. t[Len(u)] = s[Len(u)]
    BY <1>3, <1>4, <2>1, <2>2, PartialSumsAgree
  <2> QED
    BY <1>1, <2>3
<1>7. /\ s \in [0 .. k + l -> Nat] /\ r \in [0 .. l -> Nat] /\ r[0] = 0
      /\ \A i \in 1 .. k + l : s[i] = s[i - 1] + w[i]
      /\ \A i \in 1 .. l : r[i] = r[i - 1] + v[i]
  BY <1>1, <1>3, <1>5 DEF PartialSums
<1> HIDE DEF k, l
<1> DEFINE P == {n \in Nat : n <= l => s[k + n] = s[k] + r[n]}
<1>8. 0 \in P
  <2>1. k + 0 = k /\ s[k] \in Nat
    BY <1>1, <1>7
  <2> QED
    BY <1>7, <2>1
<1>9. ASSUME NEW n \in P PROVE n + 1 \in P
  <2>1. SUFFICES ASSUME n + 1 <= l PROVE s[k + (n + 1)] = s[k] + r[n + 1]
    OBVIOUS
  <2>2. n \in Nat /\ s[k + n] = s[k] + r[n]
    BY <1>1, <2>1
  <2>3. /\ n + 1 \in 1 .. l /\ n + 1 - 1 = n /\ n \in 0 .. l /\ k \in 0 .. k + l
        /\ k + (n + 1) \in 1 .. k + l /\ k + (n + 1) - 1 = k + n
    BY <1>1, <2>1, <2>2
  <2>4. s[k + (n + 1)] = s[k + n] + v[n + 1]
    <3>1. s[k + (n + 1)] = s[k + (n + 1) - 1] + w[k + (n + 1)]
      BY <1>7, <2>3
    <3>2. w[k + (n + 1)] = v[n + 1]
      BY <1>2, <2>3
    <3> QED
      BY <2>3, <3>1, <3>2
  <2>6. r[n + 1] = r[n] + v[n + 1]
    BY <1>7, <2>3
  <2>5. r[n] \in Nat /\ s[k] \in Nat /\ v[n + 1] \in Nat
    BY <1>2, <1>7, <2>3
  <2> QED
    BY <2>2, <2>4, <2>5, <2>6
<1>10. P = Nat
  <2>1. P \in SUBSET Nat
    OBVIOUS
  <2> HIDE DEF P
  <2> QED
    BY <1>8, <1>9, <2>1, NatSetInduction
<1>11. s[k + l] = s[k] + r[l]
  <2>1. l \in P
    BY <1>1, <1>10
  <2> QED
    BY <1>1, <2>1
<1>12. Sum(w) = s[Len(w)] /\ Sum(u) = t[k] /\ Sum(v) = r[l]
  BY <1>1, <1>3, <1>4, <1>5, SumIsPartialSum DEF k, l
<1> QED
  BY <1>1, <1>6, <1>11, <1>12 DEF w

-----------------------------------------------------------------------------
(* What a buffer measures.                                                 *)

FrameFacts == \A f \in Frame : f.ms \in Nat /\ f.n \in Nat /\ f.speech \in BOOLEAN

(* The duration of a frame is a number.                                    *)
LEMMA FrameMsIsNat == FrameFacts
BY PolicyAssumption DEF FrameFacts, Frame

(* A function from 1 .. n to numbers is a sequence of n numbers; another    *)
(* number at the end makes it the function on 1 .. n + 1.                   *)
LEMMA FunctionIsSeq ==
  ASSUME NEW n \in Nat, NEW w \in [1 .. n -> Nat]
  PROVE  w \in Seq(Nat) /\ Len(w) = n
OBVIOUS

(* The sum over a sequence that is longer by one number.                   *)
LEMMA SumOfLonger ==
  ASSUME NEW n \in Nat, NEW w \in [1 .. n -> Nat], NEW v \in [1 .. n + 1 -> Nat],
         \A i \in 1 .. n : v[i] = w[i]
  PROVE  Sum(v) = Sum(w) + v[n + 1]
<1>1. w \in Seq(Nat) /\ v \in Seq(Nat) /\ Len(w) = n /\ Len(v) = n + 1
  BY FunctionIsSeq
<1>2. v[n + 1] \in Nat
  OBVIOUS
<1> DEFINE a == Append(w, v[n + 1])
<1>3. a \in Seq(Nat) /\ Len(a) = n + 1 /\ a[n + 1] = v[n + 1]
      /\ \A i \in 1 .. n : a[i] = w[i]
  BY <1>1, <1>2, AppendProperties
<1>4. \A i \in 1 .. n + 1 : a[i] = v[i]
  <2> TAKE i \in 1 .. n + 1
  <2>1. i = n + 1 \/ i \in 1 .. n
    OBVIOUS
  <2> HIDE DEF a
  <2> QED
    BY <2>1, <1>3
<1>5. a = v
  <2> HIDE DEF a
  <2> QED
    BY <1>1, <1>3, <1>4, SeqEqual
<1>6. Sum(a) = Sum(w) + v[n + 1]
  BY <1>1, <1>2, SumOfAppend
<1> QED
  BY <1>5, <1>6

(* One frame more behind a sequence of frames.                             *)
LEMMA FramesAppend ==
  ASSUME NEW fs \in Seq(Frame), NEW f \in Frame
  PROVE  /\ Append(fs, f) \in Seq(Frame) /\ Len(Append(fs, f)) = Len(fs) + 1
         /\ Len(fs) \in Nat /\ Append(fs, f)[Len(fs) + 1] = f
         /\ \A i \in 1 .. Len(fs) : fs[i] \in Frame /\ Append(fs, f)[i] = fs[i]
BY AppendProperties, LenProperties, ElementOfSeq

(* Every measure of a buffer is a sum over its frames: a number, 0 when the *)
(* buffer is empty.                                                         *)
LEMMA MeasuresAreNat ==
  ASSUME NEW fs \in Seq(Frame)
  PROVE  /\ TotalMs(fs) \in Nat /\ SpeechMs(fs) \in Nat
         /\ [i \in 1 .. Len(fs) |-> fs[i].ms] \in [1 .. Len(fs) -> Nat]
         /\ [i \in 1 .. Len(fs) |-> IF fs[i].speech THEN fs[i].ms ELSE 0] \in [1 .. Len(fs) -> Nat]
<1>1. Len(fs) \in Nat /\ \A i \in 1 .. Len(fs) : fs[i].ms \in Nat
  BY LenProperties, ElementOfSeq, FrameMsIsNat DEF FrameFacts
<1> DEFINE t == [i \in 1 .. Len(fs) |-> fs[i].ms]
           s == [i \in 1 .. Len(fs) |-> IF fs[i].speech THEN fs[i].ms ELSE 0]
<1>2. t \in [1 .. Len(fs) -> Nat] /\ s \in [1 .. Len(fs) -> Nat]
  BY <1>1
<1>3. Sum(t) \in Nat /\ Sum(s) \in Nat
  <2> HIDE DEF t, s
  <2> QED
    BY <1>1, <1>2, FunctionIsSeq, SumIsNat
<1> QED
  BY <1>2, <1>3 DEF TotalMs, SpeechMs

(* A frame adds its length to a buffer, and to its speech if it is speech.  *)
LEMMA MeasuresOfAppend ==
  ASSUME NEW fs \in Seq(Frame), NEW f \in Frame
  PROVE  /\ TotalMs(Append(fs, f)) = TotalMs(fs) + f.ms
         /\ SpeechMs(Append(fs, f)) = SpeechMs(fs) + (IF f.speech THEN f.ms ELSE 0)
<1> DEFINE n == Len(fs)
           gs == Append(fs, f)
<1>1. gs \in Seq(Frame) /\ Len(gs) = n + 1 /\ n \in Nat /\ gs[n + 1] = f
      /\ \A i \in 1 .. n : gs[i] = fs[i]
  BY FramesAppend
<1> HIDE DEF gs
<1>2. TotalMs(gs) = TotalMs(fs) + f.ms
  <2> DEFINE w == [i \in 1 .. Len(fs) |-> fs[i].ms]
             v == [i \in 1 .. Len(gs) |-> gs[i].ms]
  <2>1. w \in [1 .. n -> Nat] /\ v \in [1 .. n + 1 -> Nat]
    BY <1>1, MeasuresAreNat
  <2>2. (\A i \in 1 .. n : v[i] = w[i]) /\ v[n + 1] = f.ms
    BY <1>1
  <2>3. Sum(v) = Sum(w) + v[n + 1]
    <3> HIDE DEF w, v, n
    <3> QED
      BY <1>1, <2>1, <2>2, SumOfLonger
  <2> QED
    BY <2>2, <2>3 DEF TotalMs
<1>3. SpeechMs(gs) = SpeechMs(fs) + (IF f.speech THEN f.ms ELSE 0)
  <2> DEFINE w == [i \in 1 .. Len(fs) |-> IF fs[i].speech THEN fs[i].ms ELSE 0]
             v == [i \in 1 .. Len(gs) |-> IF gs[i].speech THEN gs[i].ms ELSE 0]
  <2>1. w \in [1 .. n -> Nat] /\ v \in [1 .. n + 1 -> Nat]
    BY <1>1, MeasuresAreNat
  <2>2. (\A i \in 1 .. n : v[i] = w[i]) /\ v[n + 1] = IF f.speech THEN f.ms ELSE 0
    BY <1>1
  <2>3. Sum(v) = Sum(w) + v[n + 1]
    <3> HIDE DEF w, v, n
    <3> QED
      BY <1>1, <2>1, <2>2, SumOfLonger
  <2> QED
    BY <2>2, <2>3 DEF SpeechMs
<1> QED
  BY <1>2, <1>3 DEF gs

(* The silence at the end of a buffer ends with a frame of speech and grows *)
(* by any other frame.                                                      *)
LEMMA TrailingOfAppend ==
  ASSUME NEW fs \in Seq(Frame), NEW f \in Frame
  PROVE  TrailingMs(Append(fs, f)) = IF f.speech THEN 0 ELSE TrailingMs(fs) + f.ms
<1> DEFINE n == Len(fs)
           gs == Append(fs, f)
           T(h, i) == \A j \in i .. Len(h) : ~h[j].speech
           w == [i \in 1 .. Len(fs) |-> IF T(fs, i) THEN fs[i].ms ELSE 0]
           v == [i \in 1 .. Len(gs) |-> IF T(gs, i) THEN gs[i].ms ELSE 0]
<1>1. gs \in Seq(Frame) /\ Len(gs) = n + 1 /\ n \in Nat /\ gs[n + 1] = f
      /\ \A i \in 1 .. n : gs[i] = fs[i]
  BY FramesAppend
<1>2. (\A i \in 1 .. n : fs[i].ms \in Nat) /\ \A i \in 1 .. n + 1 : gs[i].ms \in Nat
  <2> HIDE DEF gs
  <2> QED
    BY <1>1, ElementOfSeq, FrameMsIsNat DEF FrameFacts
<1> HIDE DEF gs
<1>3. w \in [1 .. n -> Nat] /\ v \in [1 .. n + 1 -> Nat]
  <2> HIDE DEF T
  <2> QED
    BY <1>1, <1>2
<1>4. CASE f.speech
  <2>1. \A i \in 1 .. n + 1 : ~T(gs, i)
    BY <1>1, <1>4
  <2>2. \A i \in 1 .. n + 1 : v[i] = 0
    <3> HIDE DEF T
    <3> QED
      BY <1>1, <2>1
  <2>3. Sum(v) = 0
    <3> HIDE DEF v
    <3>1. n + 1 \in Nat
      BY <1>1
    <3>2. v \in Seq(Nat) /\ Len(v) = n + 1
      BY <1>3, <3>1, FunctionIsSeq
    <3> QED
      BY <2>2, <3>2, SumOfZeros
  <2> QED
    BY <1>4, <2>3 DEF TrailingMs, gs
<1>5. CASE ~f.speech
  <2>1. \A i \in 1 .. n : T(gs, i) <=> T(fs, i)
    <3> TAKE i \in 1 .. n
    <3>1. \A j \in Int : j \in i .. n + 1 <=> j \in i .. n \/ j = n + 1
      BY <1>1
    <3>2. \A j \in i .. n : j \in 1 .. n /\ j \in Int
      BY <1>1
    <3> QED
      BY <1>1, <1>5, <3>1, <3>2
  <2>2. T(gs, n + 1)
    BY <1>1, <1>5
  <2>3. (\A i \in 1 .. n : v[i] = w[i]) /\ v[n + 1] = f.ms
    <3> HIDE DEF T
    <3> QED
      BY <1>1, <2>1, <2>2
  <2>4. Sum(v) = Sum(w) + v[n + 1]
    <3> HIDE DEF w, v, n
    <3> QED
      BY <1>1, <1>3, <2>3, SumOfLonger
  <2>5. Sum(v) = Sum(w) + f.ms
    <3> HIDE DEF w, v
    <3> QED
      BY <2>3, <2>4
  <2>6. TrailingMs(gs) = Sum(v) /\ TrailingMs(fs) = Sum(w)
    BY DEF TrailingMs
  <2> HIDE DEF w, v
  <2> QED
    BY <1>5, <2>5, <2>6 DEF gs
<1> QED
  BY <1>4, <1>5 DEF gs

(* The frames up to the n-th are the first ones.                           *)
LEMMA BeginningOf ==
  ASSUME NEW fs \in Seq(Frame), NEW k \in 0 .. Len(fs)
  PROVE  /\ SubSeq(fs, 1, k) \in Seq(Frame) /\ Len(SubSeq(fs, 1, k)) = k
         /\ \A i \in 1 .. k : SubSeq(fs, 1, k)[i] = fs[i]
<1> DEFINE a == SubSeq(fs, 1, k)
<1>1. k \in Nat /\ \A i \in 1 .. k : fs[i] \in Frame
  BY LenProperties, ElementOfSeq
<1>2. /\ a \in Seq(Frame) /\ Len(a) = (IF 1 <= k THEN k - 1 + 1 ELSE 0)
      /\ \A i \in 1 .. k - 1 + 1 : a[i] = fs[1 + i - 1]
  BY <1>1, SubSeqProperties
<1>3. k - 1 + 1 = k /\ (IF 1 <= k THEN k - 1 + 1 ELSE 0) = k /\ \A i \in 1 .. k : 1 + i - 1 = i
  BY <1>1
<1> HIDE DEF a
<1>4. Len(a) = k /\ \A i \in 1 .. k : a[i] = fs[i]
  BY <1>2, <1>3
<1> QED
  BY <1>2, <1>4 DEF a

(* The parts of a buffer that is cut anywhere add up to it.                 *)
LEMMA TotalOfParts ==
  ASSUME NEW fs \in Seq(Frame), NEW k \in 0 .. Len(fs)
  PROVE  /\ SubSeq(fs, 1, k) \in Seq(Frame) /\ SubSeq(fs, k + 1, Len(fs)) \in Seq(Frame)
         /\ Len(SubSeq(fs, k + 1, Len(fs))) = Len(fs) - k
         /\ \A i \in 1 .. Len(fs) - k : SubSeq(fs, k + 1, Len(fs))[i] = fs[k + i]
         /\ TotalMs(fs) = TotalMs(SubSeq(fs, 1, k)) + TotalMs(SubSeq(fs, k + 1, Len(fs)))
<1> DEFINE n == Len(fs)
           a == SubSeq(fs, 1, k)
           b == SubSeq(fs, k + 1, n)
<1>1. n \in Nat /\ k \in Nat /\ k <= n
  BY LenProperties
<1>2. a \in Seq(Frame) /\ Len(a) = k /\ \A i \in 1 .. k : a[i] = fs[i]
  BY BeginningOf
<1>3. b \in Seq(Frame) /\ Len(b) = n - k /\ \A i \in 1 .. n - k : b[i] = fs[k + i]
  <2>1. \A i \in k + 1 .. n : fs[i] \in Frame
    BY <1>1, ElementOfSeq
  <2>2. /\ b \in Seq(Frame) /\ Len(b) = (IF k + 1 <= n THEN n - (k + 1) + 1 ELSE 0)
        /\ \A i \in 1 .. n - (k + 1) + 1 : b[i] = fs[k + 1 + i - 1]
    BY <1>1, <2>1, SubSeqProperties
  <2>3. /\ n - (k + 1) + 1 = n - k /\ (IF k + 1 <= n THEN n - (k + 1) + 1 ELSE 0) = n - k
        /\ \A i \in 1 .. n - k : k + 1 + i - 1 = k + i
    BY <1>1
  <2> HIDE DEF b
  <2> QED
    BY <2>2, <2>3
<1> HIDE DEF a, b
<1> DEFINE w == [i \in 1 .. Len(fs) |-> fs[i].ms]
           u == [i \in 1 .. Len(a) |-> a[i].ms]
           v == [i \in 1 .. Len(b) |-> b[i].ms]
<1>4. /\ w \in [1 .. n -> Nat] /\ u \in [1 .. k -> Nat] /\ v \in [1 .. n - k -> Nat]
      /\ \A i \in 1 .. k : u[i] = w[i]
      /\ \A i \in 1 .. n - k : v[i] = w[k + i]
  <2>1. w \in [1 .. n -> Nat] /\ u \in [1 .. k -> Nat] /\ v \in [1 .. n - k -> Nat]
    BY <1>2, <1>3, MeasuresAreNat
  <2>2. \A i \in 1 .. k : u[i] = w[i]
    BY <1>1, <1>2
  <2>3. \A i \in 1 .. n - k : v[i] = w[k + i]
    BY <1>1, <1>3
  <2> QED
    BY <2>1, <2>2, <2>3
<1>5. Sum(w) = Sum(u) + Sum(v)
  <2> HIDE DEF w, u, v, n
  <2>1. n - k \in Nat
    BY <1>1
  <2>2. /\ w \in Seq(Nat) /\ u \in Seq(Nat) /\ v \in Seq(Nat)
        /\ Len(w) = n /\ Len(u) = k /\ Len(v) = n - k
    BY <1>1, <1>4, <2>1, FunctionIsSeq
  <2> DEFINE c == u \o v
  <2>3. c \in Seq(Nat) /\ Len(c) = k + (n - k)
        /\ \A i \in 1 .. k + (n - k) : c[i] = IF i <= k THEN u[i] ELSE v[i - k]
    <3>1. c \in Seq(Nat) /\ Len(c) = Len(u) + Len(v)
          /\ \A i \in 1 .. Len(u) + Len(v) : c[i] = IF i <= Len(u) THEN u[i] ELSE v[i - Len(u)]
      BY <2>2, ConcatProperties
    <3> HIDE DEF c
    <3> QED
      BY <2>2, <3>1
  <2>4. k + (n - k) = n
    BY <1>1
  <2>5. ASSUME NEW i \in 1 .. n PROVE c[i] = w[i]
    <3> HIDE DEF c
    <3>1. CASE i <= k
      <4>1. i \in 1 .. k
        BY <1>1, <3>1
      <4> QED
        BY <1>4, <2>3, <2>4, <3>1, <4>1
    <3>2. CASE ~(i <= k)
      <4>1. i - k \in 1 .. n - k /\ k + (i - k) = i
        BY <1>1, <3>2
      <4>2. v[i - k] = w[k + (i - k)]
        BY <1>4, <4>1
      <4> QED
        BY <2>3, <2>4, <3>2, <4>1, <4>2
    <3> QED
      BY <3>1, <3>2
  <2>6. c = w
    <3> HIDE DEF c
    <3> QED
      BY <2>2, <2>3, <2>4, <2>5, SeqEqual
  <2> QED
    BY <2>2, <2>6, SumOfConcat
<1> QED
  BY <1>2, <1>3, <1>5 DEF TotalMs, a, b

-----------------------------------------------------------------------------
(* The trimming loop.                                                      *)

Quiet(frames) == \A i \in 1 .. Len(frames) : ~frames[i].speech

\* u is what is left of w once frames are popped from its front.
Suffix(u, w) ==
  \E k \in 0 .. Len(w) :
    Len(u) = Len(w) - k /\ \A i \in 1 .. Len(w) - k : u[i] = w[k + i]

(* If the counter covers the ring, and exceeds it by no more than the       *)
(* window, the loop ends with a ring that fits: it pops the fewest frames   *)
(* that leave the counter within the window, all of them at worst.          *)
LEMMA TrimmedFits ==
  ASSUME NEW ring \in Seq(Frame), NEW total \in Nat,
         TotalMs(ring) <= total, total - TotalMs(ring) <= PreSpeechMs
  PROVE  /\ Trimmed(ring, total).ring \in Seq(Frame) /\ Trimmed(ring, total).total \in Nat
         /\ TotalMs(Trimmed(ring, total).ring) <= Trimmed(ring, total).total
         /\ Trimmed(ring, total).total <= PreSpeechMs
         /\ Suffix(Trimmed(ring, total).ring, ring)
<1> DEFINE n == Len(ring)
           left(k) == total - TotalMs(SubSeq(ring, 1, k))
           Enough == {k \in 0 .. n : k = n \/ left(k) <= PreSpeechMs}
           Pops(k) == /\ k = n \/ left(k) <= PreSpeechMs
                      /\ \A j \in 0 .. k - 1 : left(j) > PreSpeechMs
           p == CHOOSE k \in 0 .. n : Pops(k)
<1>1. n \in Nat /\ PreSpeechMs \in Nat /\ TotalMs(ring) \in Nat
  BY LenProperties, PolicyAssumption, MeasuresAreNat
<1>2. ASSUME NEW k \in 0 .. n
      PROVE  /\ left(k) \in Nat
             /\ TotalMs(SubSeq(ring, k + 1, n)) <= left(k)
             /\ SubSeq(ring, k + 1, n) \in Seq(Frame)
             /\ Suffix(SubSeq(ring, k + 1, n), ring)
             /\ k = n => left(k) <= PreSpeechMs
  <2> DEFINE a == SubSeq(ring, 1, k)
             b == SubSeq(ring, k + 1, n)
  <2>1. /\ a \in Seq(Frame) /\ b \in Seq(Frame)
        /\ Len(b) = n - k /\ \A i \in 1 .. n - k : b[i] = ring[k + i]
        /\ TotalMs(ring) = TotalMs(a) + TotalMs(b)
    BY TotalOfParts
  <2> HIDE DEF b
  <2>2. TotalMs(a) \in Nat /\ TotalMs(b) \in Nat
    <3> HIDE DEF a
    <3> QED
      BY <2>1, MeasuresAreNat
  <2>3. Suffix(b, ring)
    BY <2>1 DEF Suffix
  <2>4. ASSUME k = n PROVE TotalMs(b) = 0
    <3>1. Len(b) = 0
      BY <1>1, <2>1, <2>4
    <3> DEFINE w == [i \in 1 .. Len(b) |-> b[i].ms]
    <3>2. w \in Seq(Nat) /\ Len(w) = 0
      BY <2>1, <3>1, MeasuresAreNat, FunctionIsSeq
    <3>3. Sum(w) = 0
      <4> HIDE DEF w
      <4>1. \A i \in 1 .. Len(w) : w[i] = 0
        BY <3>2
      <4> QED
        BY <3>2, <4>1, SumOfZeros
    <3> QED
      BY <3>3 DEF TotalMs
  <2> HIDE DEF a
  <2>5. left(k) = total - TotalMs(a)
    BY DEF a
  <2>6. left(k) \in Nat /\ TotalMs(b) <= left(k) /\ (k = n => left(k) <= PreSpeechMs)
    BY <1>1, <2>1, <2>2, <2>4, <2>5
  <2> HIDE DEF left
  <2> QED
    BY <2>1, <2>3, <2>6 DEF b
<1>3. \E k \in 0 .. n : Pops(k)
  <2>1. n \in Enough /\ Enough \in SUBSET Nat
    BY <1>1
  <2>2. PICK k \in Enough : \A j \in Enough : k <= j
    <3> HIDE DEF Enough
    <3> QED
      BY <2>1, LeastExists
  <2>3. ASSUME NEW j \in 0 .. k - 1 PROVE left(j) > PreSpeechMs
    <3>1. j \in 0 .. n /\ j < k /\ j # n /\ j \notin Enough
      BY <1>1, <2>2
    <3>2. left(j) \in Nat
      BY <1>2, <3>1
    <3>3. ~(left(j) <= PreSpeechMs)
      BY <3>1
    <3> HIDE DEF left
    <3> QED
      BY <1>1, <3>2, <3>3
  <2>4. k \in 0 .. n /\ Pops(k)
    BY <2>2, <2>3
  <2> HIDE DEF Pops
  <2> QED
    BY <2>4
<1>4. p \in 0 .. n /\ Pops(p)
  <2> HIDE DEF Pops
  <2> QED
    BY <1>3
<1>5. Trimmed(ring, total) = [ring |-> SubSeq(ring, p + 1, n), total |-> left(p)]
  BY DEF Trimmed
<1> HIDE DEF p
<1>6. left(p) <= PreSpeechMs
  BY <1>2, <1>4
<1>7. /\ left(p) \in Nat /\ SubSeq(ring, p + 1, n) \in Seq(Frame)
      /\ TotalMs(SubSeq(ring, p + 1, n)) <= left(p)
      /\ Suffix(SubSeq(ring, p + 1, n), ring)
  BY <1>2, <1>4
<1> HIDE DEF left, n
<1> QED
  BY <1>5, <1>6, <1>7

-----------------------------------------------------------------------------
(* The invariant.                                                          *)

(* The part of the state that decides when an utterance ends. *)
Counters ==
  /\ state \in {"Listening", "Speech"}
  /\ active = (state = "Speech")
  /\ speech_ms \in Nat
  /\ silence_ms \in Nat

(* OpenWithinLimits is inductive once the counters are numbers.  *)
LimitsInv == Counters /\ OpenWithinLimits

\* The frame that a sequence of frames ends with, 0 when it has none.
LastOf(frames) == IF frames = <<>> THEN 0 ELSE frames[Len(frames)].n

\* Consecutive frames, the last of them number e.
RunTo(frames, e) == \A i \in 1 .. Len(frames) : frames[i].n = e - Len(frames) + i

(* The lead-in ring is empty while an utterance is open; it holds frames of *)
(* silence, the latest ones, and its counter never measures too little.     *)
Lead ==
  /\ pre_speech \in Seq(Frame)
  /\ pre_speech_total_ms \in Nat
  /\ TotalMs(pre_speech) <= pre_speech_total_ms
  /\ pre_speech_total_ms <= PreSpeechMs
  /\ Quiet(pre_speech)
  /\ active => pre_speech = <<>>
  /\ RunTo(pre_speech, last.n)

(* The buffer is empty unless an utterance is open; it ends with the latest *)
(* frame and the counters measure it.                                       *)
Open ==
  /\ buf \in Seq(Frame)
  /\ active => buf # <<>>
  /\ ~active => buf = <<>>
  /\ active => /\ speech_ms = SpeechMs(buf)
               /\ silence_ms = TrailingMs(buf)
               /\ LastOf(buf) = last.n

(* The latest utterance that ended was measured on what it held, and ended  *)
(* before the first frame in the ring.                                      *)
Shut ==
  /\ closed \in [emitted : BOOLEAN, pcm : Seq(Frame)]
  /\ DeliveredIsLongEnough
  /\ ~active => LastOf(closed.pcm) + Len(pre_speech) <= last.n

BufferInv ==
  /\ last \in [n : Nat, ms : Nat, speech : BOOLEAN]
  /\ Lead
  /\ Open
  /\ Shut

(* An empty buffer measures nothing and ends no run.                        *)
LEMMA EmptyBuffers ==
  /\ <<>> \in Seq(Frame) /\ Len(<<>>) = 0
  /\ TotalMs(<<>>) = 0 /\ SpeechMs(<<>>) = 0
  /\ Quiet(<<>>) /\ \A e \in Nat : RunTo(<<>>, e)
  /\ LastOf(<<>>) = 0
<1> DEFINE nil == <<>>
           t == [i \in 1 .. Len(nil) |-> nil[i].ms]
           s == [i \in 1 .. Len(nil) |-> IF nil[i].speech THEN nil[i].ms ELSE 0]
<1>1. nil \in Seq(Frame) /\ Len(nil) = 0
  OBVIOUS
<1>2. Quiet(nil) /\ (\A e \in Nat : RunTo(nil, e)) /\ LastOf(nil) = 0
  BY <1>1 DEF Quiet, RunTo, LastOf
<1> HIDE DEF nil
<1>3. t \in Seq(Nat) /\ s \in Seq(Nat) /\ Len(t) = 0 /\ Len(s) = 0
  BY <1>1, MeasuresAreNat, FunctionIsSeq
<1>4. Sum(t) = 0 /\ Sum(s) = 0
  <2> HIDE DEF t, s
  <2>1. (\A i \in 1 .. Len(t) : t[i] = 0) /\ \A i \in 1 .. Len(s) : s[i] = 0
    BY <1>3
  <2> QED
    BY <1>3, <2>1, SumOfZeros
<1>5. TotalMs(nil) = 0 /\ SpeechMs(nil) = 0
  BY <1>4 DEF TotalMs, SpeechMs
<1> QED
  BY <1>1, <1>2, <1>5 DEF nil

(* Frames of silence hold no speech.                                        *)
LEMMA QuietHasNoSpeech ==
  ASSUME NEW fs \in Seq(Frame), Quiet(fs)
  PROVE  SpeechMs(fs) = 0
<1> DEFINE s == [i \in 1 .. Len(fs) |-> IF fs[i].speech THEN fs[i].ms ELSE 0]
<1>1. Len(fs) \in Nat
  BY LenProperties
<1>2. s \in Seq(Nat) /\ Len(s) = Len(fs)
  BY <1>1, MeasuresAreNat, FunctionIsSeq
<1>3. \A i \in 1 .. Len(fs) : s[i] = 0
  BY DEF Quiet
<1>4. Sum(s) = 0
  <2> HIDE DEF s
  <2> QED
    BY <1>2, <1>3, SumOfZeros
<1> QED
  BY <1>4 DEF SpeechMs

(* The buffer without its latest frame is the buffer before it.            *)
LEMMA LastOfAppend ==
  ASSUME NEW fs \in Seq(Frame), NEW f \in Frame
  PROVE  /\ Append(fs, f) # <<>> /\ LastOf(Append(fs, f)) = f.n
         /\ Front(Append(fs, f)) = fs
<1>1. /\ Append(fs, f) # <<>> /\ Append(fs, f) \in Seq(Frame)
      /\ Len(Append(fs, f)) = Len(fs) + 1 /\ Append(fs, f)[Len(fs) + 1] = f
      /\ \A i \in 1 .. Len(fs) : Append(fs, f)[i] = fs[i]
      /\ Len(fs) \in Nat
  BY AppendProperties, LenProperties
<1> DEFINE a == Append(fs, f)
<1> HIDE DEF a
<1>2. LastOf(a) = f.n
  BY <1>1 DEF LastOf, a
<1>3. Front(a) = fs
  <2>1. a \in Seq(Frame) /\ Len(a) = Len(fs) + 1 /\ \A i \in 1 .. Len(fs) : a[i] = fs[i]
    BY <1>1 DEF a
  <2>2. Front(a) = SubSeq(a, 1, Len(fs))
    BY <1>1, <2>1 DEF Front
  <2>3. Len(fs) \in 0 .. Len(a)
    BY <1>1, <2>1
  <2>4. /\ SubSeq(a, 1, Len(fs)) \in Seq(Frame)
        /\ Len(SubSeq(a, 1, Len(fs))) = Len(fs)
        /\ \A i \in 1 .. Len(fs) : SubSeq(a, 1, Len(fs))[i] = a[i]
    BY <2>1, <2>3, BeginningOf
  <2>5. \A i \in 1 .. Len(fs) : SubSeq(a, 1, Len(fs))[i] = fs[i]
    BY <2>1, <2>4
  <2> QED
    BY <2>2, <2>4, <2>5, SeqEqual
<1> QED
  BY <1>1, <1>2, <1>3 DEF a

(* An utterance that ends, or goes on, with buffer pcm, of which before is  *)
(* what it held before its last frame.                                      *)
Measured(pcm, speech) ==
  /\ pcm \in Seq(Frame) /\ pcm # <<>>
  /\ speech = SpeechMs(pcm)
  /\ LET before == SpeechMs(Front(pcm)) IN before = 0 \/ before < MaxUtteranceMs

(* finalize leaves no buffer, and records what it closed.                  *)
LEMMA FinalizeBuffer ==
  ASSUME BufferInv, NEW pcm, NEW speech, Measured(pcm, speech), Finalize(pcm, speech),
         last' \in [n : Nat, ms : Nat, speech : BOOLEAN], LastOf(pcm) = last'.n,
         pre_speech' = <<>>, UNCHANGED pre_speech_total_ms
  PROVE  BufferInv'
<1>1. Lead'
  BY EmptyBuffers DEF BufferInv, Lead
<1>2. Open'
  BY EmptyBuffers DEF BufferInv, Open, Finalize
<1>3. Shut'
  <2>1. closed' = [emitted |-> speech >= MinUtteranceMs, pcm |-> pcm] /\ speech \in Nat
    BY MeasuresAreNat DEF Measured, Finalize
  <2>2. closed' \in [emitted : BOOLEAN, pcm : Seq(Frame)]
    BY <2>1 DEF Measured
  <2>3. DeliveredIsLongEnough'
    BY <2>1 DEF DeliveredIsLongEnough, Measured
  <2>4. LastOf(closed'.pcm) + Len(pre_speech') <= last'.n
    BY <2>1, EmptyBuffers
  <2> QED
    BY <2>2, <2>3, <2>4 DEF Shut
<1> QED
  BY <1>1, <1>2, <1>3 DEF BufferInv

(* maybe_cap closes the utterance or keeps it open with its counters.      *)
LEMMA MaybeCapBuffer ==
  ASSUME BufferInv, NEW pcm, NEW speech, NEW silence, Measured(pcm, speech),
         silence = TrailingMs(pcm), MaybeCap(pcm, speech, silence),
         last' \in [n : Nat, ms : Nat, speech : BOOLEAN], LastOf(pcm) = last'.n,
         pre_speech' = <<>>, UNCHANGED pre_speech_total_ms
  PROVE  BufferInv'
<1>1. CASE speech >= MaxUtteranceMs
  BY <1>1, FinalizeBuffer DEF MaybeCap
<1>2. CASE ~(speech >= MaxUtteranceMs)
  <2>1. active' = TRUE /\ silence_ms' = silence /\ buf' = pcm /\ speech_ms' = speech
        /\ closed' = closed
    BY <1>2 DEF MaybeCap
  <2>2. Lead'
    BY EmptyBuffers DEF BufferInv, Lead
  <2>3. Open'
    BY <2>1 DEF Open, Measured
  <2>4. Shut'
    BY <2>1 DEF BufferInv, Shut, DeliveredIsLongEnough
  <2> QED
    BY <2>2, <2>3, <2>4 DEF BufferInv
<1> QED BY <1>1, <1>2

(* What a pushed frame makes of the buffer is measured by the new counters. *)
LEMMA OpenMeasured ==
  ASSUME LimitsInv, BufferInv, NEW f \in Frame, state = "Listening", f.speech
  PROVE  /\ Measured(Append(pre_speech, f), f.ms) /\ TrailingMs(Append(pre_speech, f)) = 0
         /\ LastOf(Append(pre_speech, f)) = f.n
<1>1. pre_speech \in Seq(Frame) /\ SpeechMs(pre_speech) = 0
  BY QuietHasNoSpeech DEF BufferInv, Lead
<1>2. SpeechMs(Append(pre_speech, f)) = f.ms
  <2>1. SpeechMs(Append(pre_speech, f)) = SpeechMs(pre_speech) + (IF f.speech THEN f.ms ELSE 0)
    BY <1>1, MeasuresOfAppend
  <2> QED
    BY <1>1, <2>1, FrameMsIsNat DEF FrameFacts
<1>3. /\ Append(pre_speech, f) # <<>> /\ LastOf(Append(pre_speech, f)) = f.n
      /\ Front(Append(pre_speech, f)) = pre_speech
  BY <1>1, LastOfAppend
<1>4. Append(pre_speech, f) \in Seq(Frame)
  BY <1>1, FramesAppend
<1>5. TrailingMs(Append(pre_speech, f)) = 0
  BY <1>1, TrailingOfAppend
<1> QED
  BY <1>1, <1>2, <1>3, <1>4, <1>5 DEF Measured

(* A frame added to an open utterance keeps the counters and the buffer in *)
(* step.                                                                   *)
LEMMA GrownMeasured ==
  ASSUME LimitsInv, BufferInv, NEW f \in Frame, state = "Speech"
  PROVE  /\ Measured(Append(buf, f), speech_ms + (IF f.speech THEN f.ms ELSE 0))
         /\ TrailingMs(Append(buf, f)) = IF f.speech THEN 0 ELSE silence_ms + f.ms
         /\ LastOf(Append(buf, f)) = f.n
<1>1. buf \in Seq(Frame) /\ speech_ms = SpeechMs(buf) /\ silence_ms = TrailingMs(buf)
      /\ speech_ms < MaxUtteranceMs
  BY DEF LimitsInv, BufferInv, Open, OpenWithinLimits
<1>2. SpeechMs(Append(buf, f)) = SpeechMs(buf) + (IF f.speech THEN f.ms ELSE 0)
  BY <1>1, MeasuresOfAppend
<1>3. /\ Append(buf, f) # <<>> /\ LastOf(Append(buf, f)) = f.n
      /\ Front(Append(buf, f)) = buf
  BY <1>1, LastOfAppend
<1>4. Append(buf, f) \in Seq(Frame)
  BY <1>1, FramesAppend
<1>5. TrailingMs(Append(buf, f)) = IF f.speech THEN 0 ELSE TrailingMs(buf) + f.ms
  BY <1>1, TrailingOfAppend
<1> QED
  BY <1>1, <1>2, <1>3, <1>4, <1>5 DEF Measured

(* speech.end closes what the counters measure.                             *)
LEMMA BufMeasured ==
  ASSUME LimitsInv, BufferInv, active
  PROVE  Measured(buf, speech_ms) /\ LastOf(buf) = last.n
<1>1. buf \in Seq(Frame) /\ buf # <<>> /\ speech_ms = SpeechMs(buf) /\ LastOf(buf) = last.n
      /\ speech_ms < MaxUtteranceMs
  BY DEF LimitsInv, BufferInv, Open, OpenWithinLimits
<1> DEFINE n == Len(buf)
           a == SubSeq(buf, 1, n - 1)
           f == buf[n]
<1>2. n \in Nat /\ n # 0 /\ f \in Frame
  BY <1>1, EmptySeq, ElementOfSeq, LenProperties
<1>3. a \in Seq(Frame) /\ Front(buf) = a /\ Append(a, f) = buf
  <2>2. a \in Seq(Frame) /\ Len(a) = n - 1 /\ \A i \in 1 .. n - 1 : a[i] = buf[i]
    <3>1. n - 1 \in 0 .. Len(buf)
      BY <1>2
    <3> QED
      BY <1>1, <3>1, BeginningOf
  <2>3. Front(buf) = a
    BY DEF Front
  <2> HIDE DEF a, f
  <2>4. /\ Append(a, f) \in Seq(Frame) /\ Len(Append(a, f)) = n
        /\ Append(a, f)[n] = f /\ \A i \in 1 .. n - 1 : Append(a, f)[i] = a[i]
    BY <1>2, <2>2, AppendProperties
  <2>5. \A i \in 1 .. n : Append(a, f)[i] = buf[i]
    <3> TAKE i \in 1 .. n
    <3>1. i = n \/ i \in 1 .. n - 1
      BY <1>2
    <3> QED
      BY <2>2, <2>4, <3>1 DEF f
  <2>6. Append(a, f) = buf
    BY <1>1, <2>4, <2>5, SeqEqual
  <2> QED
    BY <2>2, <2>3, <2>6
<1> HIDE DEF a, f
<1>4. SpeechMs(buf) = SpeechMs(a) + (IF f.speech THEN f.ms ELSE 0)
  BY <1>2, <1>3, MeasuresOfAppend
<1>5. SpeechMs(a) <= SpeechMs(buf) /\ SpeechMs(a) \in Nat /\ SpeechMs(buf) \in Nat
  BY <1>1, <1>2, <1>3, <1>4, MeasuresAreNat, FrameMsIsNat DEF FrameFacts
<1>6. SpeechMs(Front(buf)) < MaxUtteranceMs
  BY <1>1, <1>3, <1>5, PolicyAssumption
<1> QED
  BY <1>1, <1>6 DEF Measured

-----------------------------------------------------------------------------
(* The steps.                                                              *)

(* Both ways a frame of speech can leave the assembler: finalize returns it *)
(* to Listening, and maybe_cap leaves an utterance open only below the cap. *)
LEMMA FinalizeClosed ==
  ASSUME NEW pcm, NEW speech, Finalize(pcm, speech)
  PROVE  LimitsInv'
BY DEF Finalize, LimitsInv, Counters, OpenWithinLimits

LEMMA MaybeCapWithin ==
  ASSUME NEW pcm, NEW speech \in Nat, NEW silence \in Nat,
         silence = 0 \/ silence < SilenceMs,
         MaybeCap(pcm, speech, silence)
  PROVE  LimitsInv'
<1>1. CASE speech >= MaxUtteranceMs
  BY <1>1, FinalizeClosed DEF MaybeCap
<1>2. CASE ~(speech >= MaxUtteranceMs)
  <2>1. state' = "Speech" /\ active' = TRUE /\ speech_ms' = speech /\ silence_ms' = silence
    BY <1>2 DEF MaybeCap
  <2>2. active' = (state' = "Speech")
    BY <2>1, Zenon
  <2> QED
    BY <1>2, <2>1, <2>2, PolicyAssumption DEF LimitsInv, Counters, OpenWithinLimits
<1> QED BY <1>1, <1>2

(* A frame pushed while no utterance is open goes through the ring.         *)
LEMMA IdleBuffer ==
  ASSUME LimitsInv, BufferInv, PushIdle(last'), last' \in Frame, last'.n = last.n + 1
  PROVE  BufferInv'
<1> DEFINE f == last'
           ring == Append(pre_speech, f)
           total == pre_speech_total_ms + f.ms
           t == Trimmed(ring, total)
<1>1. /\ pre_speech \in Seq(Frame) /\ f.ms \in Nat /\ ~f.speech /\ last.n \in Nat
      /\ pre_speech_total_ms \in Nat /\ TotalMs(pre_speech) <= pre_speech_total_ms
      /\ pre_speech_total_ms <= PreSpeechMs /\ TotalMs(pre_speech) \in Nat
      /\ PreSpeechMs \in Nat
  BY PolicyAssumption, MeasuresAreNat, FrameMsIsNat DEF BufferInv, Lead, PushIdle, FrameFacts
<1>2. /\ pre_speech' = t.ring /\ pre_speech_total_ms' = t.total
      /\ UNCHANGED <<state, buf, speech_ms, silence_ms, active, closed>>
  BY DEF PushIdle
<1>3. /\ ring \in Seq(Frame) /\ Len(ring) = Len(pre_speech) + 1 /\ Len(pre_speech) \in Nat
      /\ ring[Len(pre_speech) + 1] = f
      /\ \A i \in 1 .. Len(pre_speech) : ring[i] = pre_speech[i]
  BY <1>1, FramesAppend
<1>4. TotalMs(ring) = TotalMs(pre_speech) + f.ms
  BY <1>1, MeasuresOfAppend
<1>5. Quiet(ring) /\ RunTo(ring, f.n)
  <2>1. Quiet(pre_speech) /\ RunTo(pre_speech, last.n) /\ f.n = last.n + 1
    BY DEF BufferInv, Lead
  <2>2. ASSUME NEW i \in 1 .. Len(ring)
        PROVE  ~ring[i].speech /\ ring[i].n = f.n - Len(ring) + i
    <3>1. CASE i = Len(pre_speech) + 1
      BY <1>1, <1>3, <2>1, <3>1
    <3>2. CASE i # Len(pre_speech) + 1
      <4>1. i \in 1 .. Len(pre_speech)
        BY <1>3, <3>2
      <4>2. ~pre_speech[i].speech /\ pre_speech[i].n = last.n - Len(pre_speech) + i
        BY <2>1, <4>1 DEF Quiet, RunTo
      <4>3. ring[i] = pre_speech[i]
        BY <1>3, <4>1
      <4> HIDE DEF ring
      <4> QED
        BY <1>1, <1>3, <2>1, <4>1, <4>2, <4>3
    <3> QED
      BY <3>1, <3>2
  <2> HIDE DEF ring
  <2> QED
    BY <2>2 DEF Quiet, RunTo
<1>6. /\ t.ring \in Seq(Frame) /\ t.total \in Nat /\ TotalMs(t.ring) <= t.total
      /\ t.total <= PreSpeechMs /\ Suffix(t.ring, ring)
  <2> HIDE DEF ring
  <2>1. /\ f.ms \in Nat /\ pre_speech_total_ms \in Nat /\ TotalMs(pre_speech) \in Nat
        /\ TotalMs(pre_speech) <= pre_speech_total_ms
        /\ pre_speech_total_ms <= PreSpeechMs /\ PreSpeechMs \in Nat
    BY <1>1
  <2> HIDE DEF f
  <2>2. total \in Nat /\ TotalMs(ring) <= total
    BY <1>4, <2>1
  <2>3. total - TotalMs(ring) <= PreSpeechMs
    BY <1>4, <2>1
  <2> HIDE DEF total
  <2> QED
    BY <1>3, <2>2, <2>3, TrimmedFits
<1> HIDE DEF t
<1>7. PICK k \in 0 .. Len(ring) :
        Len(t.ring) = Len(ring) - k /\ \A i \in 1 .. Len(ring) - k : t.ring[i] = ring[k + i]
  BY <1>6 DEF Suffix
<1>8. Quiet(t.ring) /\ RunTo(t.ring, f.n)
  <2> HIDE DEF ring, f
  <2>1. ASSUME NEW i \in 1 .. Len(t.ring)
        PROVE  ~t.ring[i].speech /\ t.ring[i].n = f.n - Len(t.ring) + i
    <3>1. k + i \in 1 .. Len(ring) /\ t.ring[i] = ring[k + i] /\ k \in Nat /\ i \in Nat
      BY <1>3, <1>7
    <3>2. ~ring[k + i].speech /\ ring[k + i].n = f.n - Len(ring) + (k + i)
      BY <1>5, <3>1 DEF Quiet, RunTo
    <3>3. f.n \in Nat
      BY <1>1 DEF f
    <3> QED
      BY <1>3, <1>7, <3>1, <3>2, <3>3
  <2> QED
    BY <2>1 DEF Quiet, RunTo
<1>9. ~active
  BY DEF PushIdle, LimitsInv, Counters
<1>10. Lead'
  BY <1>2, <1>6, <1>8, <1>9 DEF Lead
<1>11. Open'
  BY <1>2, <1>9 DEF BufferInv, Open
<1>12. Shut'
  <2>1. LastOf(closed.pcm) + Len(pre_speech) <= last.n
    BY <1>9 DEF BufferInv, Shut
  <2>2. LastOf(closed.pcm) \in Nat
    BY ElementOfSeq, LenProperties, EmptySeq, FrameMsIsNat DEF BufferInv, Shut, LastOf, FrameFacts
  <2>3. Len(t.ring) <= Len(pre_speech) + 1
    BY <1>3, <1>7
  <2>4. Len(t.ring) \in Nat
    BY <1>6, LenProperties
  <2>5. LastOf(closed.pcm) + Len(t.ring) <= last.n + 1
    BY <1>1, <1>3, <2>1, <2>2, <2>3, <2>4
  <2> QED
    BY <1>2, <2>5 DEF BufferInv, Shut, DeliveredIsLongEnough
<1>13. last' \in [n : Nat, ms : Nat, speech : BOOLEAN]
  BY PolicyAssumption DEF Frame
<1> QED
  BY <1>10, <1>11, <1>12, <1>13 DEF BufferInv

(* A pushed frame, in each state and for each verdict of the detector. *)
LEMMA PushKeeps ==
  ASSUME LimitsInv, BufferInv, last' \in Frame, last'.n = last.n + 1,
         PushOpen(last') \/ PushIdle(last') \/ PushSpeech(last') \/ PushSilence(last')
  PROVE  LimitsInv' /\ BufferInv'
<1> USE PolicyAssumption
<1> DEFINE f == last'
<1>1. f \in Frame /\ f.ms \in Nat /\ last' \in [n : Nat, ms : Nat, speech : BOOLEAN]
  BY DEF Frame
<1>2. CASE PushOpen(f)
  <2>1. state = "Listening" /\ f.speech /\ MaybeCap(Append(pre_speech, f), f.ms, 0)
        /\ pre_speech' = <<>> /\ UNCHANGED pre_speech_total_ms
    BY <1>2 DEF PushOpen
  <2>2. LimitsInv'
    BY <1>1, <2>1, MaybeCapWithin
  <2> HIDE DEF f
  <2>3. /\ Measured(Append(pre_speech, f), f.ms) /\ TrailingMs(Append(pre_speech, f)) = 0
        /\ LastOf(Append(pre_speech, f)) = f.n
    BY <1>1, <2>1, OpenMeasured
  <2>4. BufferInv'
    BY <1>1, <2>1, <2>3, MaybeCapBuffer DEF f
  <2> QED
    BY <2>2, <2>4
<1>3. CASE PushIdle(f)
  <2>1. LimitsInv'
    BY <1>3 DEF PushIdle, LimitsInv, Counters, OpenWithinLimits
  <2> QED
    BY <1>3, <2>1, IdleBuffer
<1>4. CASE PushSpeech(f)
  <2> DEFINE pcm == Append(buf, f)
             speech == speech_ms + f.ms
  <2>1. /\ state = "Speech" /\ f.speech /\ MaybeCap(pcm, speech, 0)
        /\ pre_speech' = pre_speech /\ UNCHANGED pre_speech_total_ms
    BY <1>4 DEF PushSpeech
  <2>2. speech \in Nat
    BY <1>1 DEF LimitsInv, Counters
  <2>3. LimitsInv'
    <3> HIDE DEF pcm, speech
    <3> QED
      BY <2>1, <2>2, MaybeCapWithin
  <2>4. pre_speech' = <<>>
    BY <2>1 DEF BufferInv, Lead, LimitsInv, Counters
  <2> HIDE DEF f
  <2>5. Measured(pcm, speech) /\ TrailingMs(pcm) = 0 /\ LastOf(pcm) = f.n
    BY <1>1, <2>1, GrownMeasured
  <2>6. BufferInv'
    <3> HIDE DEF pcm, speech
    <3> QED
      BY <1>1, <2>1, <2>4, <2>5, MaybeCapBuffer DEF f
  <2> QED
    BY <2>3, <2>6
<1>5. CASE PushSilence(f)
  <2> DEFINE pcm == Append(buf, f)
             silence == silence_ms + f.ms
  <2>1. /\ state = "Speech" /\ ~f.speech
        /\ pre_speech' = pre_speech /\ UNCHANGED pre_speech_total_ms
    BY <1>5 DEF PushSilence
  <2>2. speech_ms \in Nat /\ silence \in Nat
    BY <1>1 DEF LimitsInv, Counters
  <2>3. pre_speech' = <<>>
    BY <2>1 DEF BufferInv, Lead, LimitsInv, Counters
  <2>4. Measured(pcm, speech_ms) /\ TrailingMs(pcm) = silence /\ LastOf(pcm) = f.n
    <3> HIDE DEF f
    <3>1. speech_ms + 0 = speech_ms
      BY <2>2
    <3> QED
      BY <1>1, <2>1, <3>1, GrownMeasured
  <2>5. CASE silence >= SilenceMs
    <3>1. Finalize(pcm, speech_ms)
      BY <1>5, <2>5 DEF PushSilence
    <3> HIDE DEF pcm, silence
    <3> QED
      BY <1>1, <2>1, <2>3, <2>4, <3>1, FinalizeClosed, FinalizeBuffer
  <2>6. CASE ~(silence >= SilenceMs)
    <3>1. MaybeCap(pcm, speech_ms, silence)
      BY <1>5, <2>6 DEF PushSilence
    <3>2. silence < SilenceMs
      BY <2>2, <2>6
    <3> HIDE DEF pcm, silence
    <3> QED
      BY <1>1, <2>1, <2>2, <2>3, <2>4, <3>1, <3>2, MaybeCapWithin, MaybeCapBuffer
  <2> QED
    BY <2>5, <2>6
<1> QED
  BY <1>2, <1>3, <1>4, <1>5

(* The frame a push brings follows the latest one.                         *)
LEMMA PushedFrame ==
  ASSUME BufferInv, Push
  PROVE  /\ last' \in Frame /\ last'.n = last.n + 1
         /\ PushOpen(last') \/ PushIdle(last') \/ PushSpeech(last') \/ PushSilence(last')
<1>1. last.n \in Nat
  BY DEF BufferInv
<1>2. PICK ms \in FrameMs, speech \in BOOLEAN :
        /\ last' = [n |-> last.n + 1, ms |-> ms, speech |-> speech]
        /\ PushOpen(last') \/ PushIdle(last') \/ PushSpeech(last') \/ PushSilence(last')
  BY DEF Push
<1>3. last' \in Frame /\ last'.n = last.n + 1
  BY <1>1, <1>2 DEF Frame
<1> QED
  BY <1>2, <1>3

IInv == LimitsInv /\ BufferInv

(* The invariant holds of the assembler that has seen nothing,             *)
LEMMA InitInv == Init => IInv
<1> SUFFICES ASSUME Init PROVE IInv
  OBVIOUS
<1>1. LimitsInv
  BY DEF Init, LimitsInv, Counters, OpenWithinLimits
<1>2. last \in [n : Nat, ms : Nat, speech : BOOLEAN]
  BY DEF Init
<1>3. Lead
  BY EmptyBuffers, PolicyAssumption DEF Init, Lead
<1>4. Open
  BY EmptyBuffers DEF Init, Open
<1>5. Shut
  BY EmptyBuffers DEF Init, Shut, DeliveredIsLongEnough
<1> QED
  BY <1>1, <1>2, <1>3, <1>4, <1>5 DEF IInv, BufferInv

(* and every push and reset keeps it.                                      *)
LEMMA NextInv == IInv /\ [Next]_vars => IInv'
<1> SUFFICES ASSUME IInv, [Next]_vars PROVE IInv'
  OBVIOUS
<1>1. CASE Push
  BY <1>1, PushedFrame, PushKeeps DEF IInv
<1>2. CASE ForceEnd
  <2>1. active /\ Finalize(buf, speech_ms)
        /\ UNCHANGED <<pre_speech, pre_speech_total_ms, last>>
    BY <1>2 DEF ForceEnd
  <2>2. Measured(buf, speech_ms) /\ LastOf(buf) = last'.n
    BY <2>1, BufMeasured DEF IInv
  <2>3. pre_speech' = <<>> /\ last' \in [n : Nat, ms : Nat, speech : BOOLEAN]
    BY <2>1 DEF IInv, BufferInv, Lead
  <2> QED
    BY <2>1, <2>2, <2>3, FinalizeClosed, FinalizeBuffer DEF IInv
<1>3. CASE UNCHANGED vars
  BY <1>3 DEF vars, IInv, LimitsInv, Counters, OpenWithinLimits, BufferInv, Lead, Open, Shut,
              DeliveredIsLongEnough
<1> QED BY <1>1, <1>2, <1>3 DEF Next

-----------------------------------------------------------------------------
(* The assembler implements Segments: each of its steps is a step of the    *)
(* abstract segmenter, or changes none of what that one sees.               *)
LEMMA NumbersOf ==
  ASSUME NEW fs \in Seq(Frame)
  PROVE  /\ Numbers(fs) \in Seq(Nat) /\ Len(Numbers(fs)) = Len(fs)
         /\ \A i \in 1 .. Len(fs) : Numbers(fs)[i] = fs[i].n
         /\ Numbers(fs) = <<>> <=> fs = <<>>
<1>1. Len(fs) \in Nat /\ \A i \in 1 .. Len(fs) : fs[i].n \in Nat
  BY LenProperties, ElementOfSeq, FrameMsIsNat DEF FrameFacts
<1>2. Numbers(fs) \in [1 .. Len(fs) -> Nat] /\ \A i \in 1 .. Len(fs) : Numbers(fs)[i] = fs[i].n
  BY <1>1 DEF Numbers
<1>3. Numbers(fs) \in Seq(Nat) /\ Len(Numbers(fs)) = Len(fs)
  BY <1>1, <1>2, FunctionIsSeq
<1>4. Numbers(fs) = <<>> <=> fs = <<>>
  <2>1. Numbers(fs) = <<>> <=> Len(Numbers(fs)) = 0
    BY <1>3, EmptySeq
  <2>2. fs = <<>> <=> Len(fs) = 0
    BY EmptySeq
  <2> QED
    BY <1>3, <2>1, <2>2
<1> QED
  BY <1>2, <1>3, <1>4

(* One frame more is one number more.                                      *)
LEMMA NumbersOfAppend ==
  ASSUME NEW fs \in Seq(Frame), NEW f \in Frame
  PROVE  Numbers(Append(fs, f)) = Append(Numbers(fs), f.n)
<1> DEFINE gs == Append(fs, f)
           a == Append(Numbers(fs), f.n)
           n == Len(fs)
<1>1. gs \in Seq(Frame) /\ Len(gs) = n + 1 /\ n \in Nat /\ gs[n + 1] = f
      /\ \A i \in 1 .. n : gs[i] = fs[i]
  BY FramesAppend
<1>2. f.n \in Nat
  BY FrameMsIsNat DEF FrameFacts
<1>3. /\ a \in Seq(Nat) /\ Len(a) = n + 1 /\ a[n + 1] = f.n
      /\ \A i \in 1 .. n : a[i] = fs[i].n
  <2>1. /\ Numbers(fs) \in Seq(Nat) /\ Len(Numbers(fs)) = n
        /\ \A i \in 1 .. n : Numbers(fs)[i] = fs[i].n
    BY NumbersOf
  <2>2. /\ a \in Seq(Nat) /\ Len(a) = Len(Numbers(fs)) + 1 /\ a[Len(Numbers(fs)) + 1] = f.n
        /\ \A i \in 1 .. Len(Numbers(fs)) : a[i] = Numbers(fs)[i]
    BY <1>2, <2>1, AppendProperties
  <2> HIDE DEF a
  <2> QED
    BY <2>1, <2>2
<1> HIDE DEF gs, a
<1>4. Numbers(gs) \in Seq(Nat) /\ Len(Numbers(gs)) = n + 1
      /\ \A i \in 1 .. n + 1 : Numbers(gs)[i] = gs[i].n
  BY <1>1, NumbersOf
<1>5. \A i \in 1 .. n + 1 : Numbers(gs)[i] = a[i]
  <2> TAKE i \in 1 .. n + 1
  <2>1. i = n + 1 \/ i \in 1 .. n
    BY <1>1
  <2> QED
    BY <1>1, <1>3, <1>4, <2>1
<1>6. Numbers(gs) = a
  BY <1>3, <1>4, <1>5, SeqEqual
<1> QED
  BY <1>6 DEF gs, a

(* The open utterance and the next frame, or the lead-in and that frame.    *)
LEMMA BufGrown ==
  ASSUME IInv, NEW f \in Frame, f.n = last.n + 1, active
  PROVE  Numbers(Append(buf, f)) \in Segmenter!Grown
<1>1. buf \in Seq(Frame) /\ buf # <<>>
  BY DEF IInv, BufferInv, Open
<1>2. Numbers(buf) # <<>>
  BY <1>1, NumbersOf
<1>3. Numbers(Append(buf, f)) = Append(Numbers(buf), last.n + 1)
  BY <1>1, NumbersOfAppend
<1> QED
  BY <1>2, <1>3 DEF Segmenter!Grown

(* The lead-in and the frame of speech behind it begin the segment.        *)
LEMMA LeadGrown ==
  ASSUME IInv, NEW f \in Frame, f.n = last.n + 1, ~active
  PROVE  Numbers(Append(pre_speech, f)) \in Segmenter!Grown
<1> DEFINE pcm == Append(pre_speech, f)
           n == Len(pre_speech)
           e == last.n + 1
           used == LastOf(closed.pcm)
<1>1. /\ pre_speech \in Seq(Frame) /\ RunTo(pre_speech, last.n) /\ last.n \in Nat
      /\ buf = <<>> /\ buf \in Seq(Frame)
      /\ closed.pcm \in Seq(Frame) /\ used + n <= last.n
  BY DEF IInv, BufferInv, Lead, Open, Shut
<1>2. used \in Nat
  BY <1>1, ElementOfSeq, LenProperties, EmptySeq, FrameMsIsNat DEF LastOf, FrameFacts
<1>3. Segmenter!Used = used
  <2>1. /\ Len(Numbers(closed.pcm)) = Len(closed.pcm)
        /\ \A i \in 1 .. Len(closed.pcm) : Numbers(closed.pcm)[i] = closed.pcm[i].n
        /\ Numbers(closed.pcm) = <<>> <=> closed.pcm = <<>>
    BY <1>1, NumbersOf
  <2>2. closed.pcm # <<>> => Len(closed.pcm) \in 1 .. Len(closed.pcm)
    BY <1>1, EmptySeq
  <2> QED
    BY <2>1, <2>2 DEF Segmenter!Used, LastOf
<1>4. /\ pcm \in Seq(Frame) /\ Len(pcm) = n + 1 /\ n \in Nat /\ pcm[n + 1] = f
      /\ \A i \in 1 .. n : pcm[i] = pre_speech[i]
  BY <1>1, FramesAppend
<1> HIDE DEF pcm, used
<1>5. \A i \in 1 .. n + 1 : pcm[i].n = (e - n) + i - 1
  <2> TAKE i \in 1 .. n + 1
  <2>1. CASE i = n + 1
    BY <1>1, <1>4, <2>1
  <2>2. CASE i \in 1 .. n
    <3>1. pcm[i].n = last.n - n + i
      BY <1>1, <1>4, <2>2 DEF RunTo
    <3> QED
      BY <1>1, <1>4, <3>1
  <2> QED
    BY <1>4, <2>1, <2>2
<1>6. e - n \in (used + 1) .. e /\ e - (e - n) + 1 = n + 1
  BY <1>1, <1>2, <1>4
<1>7. Numbers(pcm) = Segmenter!Run(e - n, e)
  BY <1>4, <1>5, <1>6 DEF Numbers, Segmenter!Run
<1>8. Numbers(buf) = <<>>
  BY <1>1, NumbersOf
<1> QED
  BY <1>3, <1>6, <1>7, <1>8 DEF Segmenter!Grown, pcm

(* finalize ends the open segment.                                         *)
LEMMA FinalizeEnds ==
  ASSUME NEW pcm, NEW speech, Finalize(pcm, speech)
  PROVE  Segmenter!EndWith(Numbers(pcm))
<1>1. buf' = <<>> /\ closed' = [emitted |-> speech >= MinUtteranceMs, pcm |-> pcm]
  BY DEF Finalize
<1>2. Numbers(buf') = <<>>
  <2>1. buf' \in Seq(Frame)
    BY <1>1, EmptyBuffers
  <2> QED
    BY <1>1, <2>1, NumbersOf
<1>3. (speech >= MinUtteranceMs) \in BOOLEAN
  OBVIOUS
<1> QED
  BY <1>1, <1>2, <1>3 DEF Segmenter!EndWith

(* maybe_cap extends the open segment or ends it.                          *)
LEMMA MaybeCapExtends ==
  ASSUME NEW pcm, NEW speech, NEW silence, MaybeCap(pcm, speech, silence),
         Numbers(pcm) \in Segmenter!Grown, last'.n = last.n + 1
  PROVE  Segmenter!Next
<1>1. CASE speech >= MaxUtteranceMs
  <2>1. Segmenter!EndWith(Numbers(pcm))
    BY <1>1, FinalizeEnds DEF MaybeCap
  <2> QED
    BY <2>1 DEF Segmenter!Next, Segmenter!ExtendAndEnd
<1>2. CASE ~(speech >= MaxUtteranceMs)
  <2>1. buf' = pcm /\ closed' = closed
    BY <1>2 DEF MaybeCap
  <2> QED
    BY <2>1 DEF Segmenter!Next, Segmenter!Extend
<1> QED
  BY <1>1, <1>2

(* Every push is a step of the segmenter.                                  *)
LEMMA PushSegments ==
  ASSUME IInv, Push
  PROVE  Segmenter!Next
<1> DEFINE f == last'
<1>1. /\ f \in Frame /\ f.n = last.n + 1
      /\ PushOpen(f) \/ PushIdle(f) \/ PushSpeech(f) \/ PushSilence(f)
  BY PushedFrame DEF IInv
<1>2. (active <=> state = "Speech") /\ state \in {"Listening", "Speech"}
  BY DEF IInv, LimitsInv, Counters
<1>3. CASE PushOpen(f)
  <2>1. ~active /\ MaybeCap(Append(pre_speech, f), f.ms, 0)
    BY <1>2, <1>3 DEF PushOpen
  <2>2. Numbers(Append(pre_speech, f)) \in Segmenter!Grown
    <3> HIDE DEF f
    <3> QED
      BY <1>1, <2>1, LeadGrown
  <2> QED
    BY <1>1, <2>1, <2>2, MaybeCapExtends
<1>4. CASE PushIdle(f)
  <2>1. ~active /\ buf' = buf /\ closed' = closed
    BY <1>2, <1>4 DEF PushIdle
  <2>2. Numbers(buf) = <<>>
    <3>1. buf = <<>> /\ buf \in Seq(Frame)
      BY <2>1 DEF IInv, BufferInv, Open
    <3> QED
      BY <3>1, NumbersOf
  <2> QED
    BY <1>1, <2>1, <2>2 DEF Segmenter!Next, Segmenter!Skip
<1>5. ASSUME active PROVE Numbers(Append(buf, f)) \in Segmenter!Grown
  <2> HIDE DEF f
  <2> QED
    BY <1>1, <1>5, BufGrown
<1>6. CASE PushSpeech(f)
  <2>1. active /\ MaybeCap(Append(buf, f), speech_ms + f.ms, 0)
    BY <1>2, <1>6 DEF PushSpeech
  <2> QED
    BY <1>1, <1>5, <2>1, MaybeCapExtends
<1>7. CASE PushSilence(f)
  <2>1. active
    BY <1>2, <1>7 DEF PushSilence
  <2>2. CASE silence_ms + f.ms >= SilenceMs
    <3>1. Segmenter!EndWith(Numbers(Append(buf, f)))
      BY <1>7, <2>2, FinalizeEnds DEF PushSilence
    <3> QED
      BY <1>1, <1>5, <2>1, <3>1 DEF Segmenter!Next, Segmenter!ExtendAndEnd
  <2>3. CASE ~(silence_ms + f.ms >= SilenceMs)
    <3>1. MaybeCap(Append(buf, f), speech_ms, silence_ms + f.ms)
      BY <1>7, <2>3 DEF PushSilence
    <3> QED
      BY <1>1, <1>5, <2>1, <3>1, MaybeCapExtends
  <2> QED
    BY <2>2, <2>3
<1> QED
  BY <1>1, <1>3, <1>4, <1>6, <1>7

(* A new assembler has no segment,                                         *)
LEMMA InitSegments == Init => Segmenter!Init
<1> SUFFICES ASSUME Init PROVE Segmenter!Init
  OBVIOUS
<1>1. buf = <<>> /\ closed.pcm = <<>> /\ <<>> \in Seq(Frame)
  BY EmptyBuffers DEF Init
<1>2. Numbers(buf) = <<>> /\ Numbers(closed.pcm) = <<>>
  BY <1>1, NumbersOf
<1> QED
  BY <1>2 DEF Init, Segmenter!Init

(* and every step of it is one of the segmenter or none.                   *)
LEMMA NextSegments == IInv /\ [Next]_vars => [Segmenter!Next]_(Segmenter!vars)
<1> SUFFICES ASSUME IInv, [Next]_vars PROVE [Segmenter!Next]_(Segmenter!vars)
  OBVIOUS
<1>1. CASE Push
  BY <1>1, PushSegments
<1>2. CASE ForceEnd
  <2>1. active /\ Finalize(buf, speech_ms) /\ last' = last
    BY <1>2 DEF ForceEnd
  <2>2. Segmenter!EndWith(Numbers(buf))
    BY <2>1, FinalizeEnds
  <2>3. Numbers(buf) # <<>>
    <3>1. buf # <<>> /\ buf \in Seq(Frame)
      BY <2>1 DEF IInv, BufferInv, Open
    <3> QED
      BY <3>1, NumbersOf
  <2> QED
    BY <2>1, <2>2, <2>3 DEF Segmenter!Next, Segmenter!End
<1>3. CASE UNCHANGED vars
  BY <1>3 DEF vars, Segmenter!vars, Numbers
<1> QED BY <1>1, <1>2, <1>3 DEF Next

-----------------------------------------------------------------------------
(* The state is well-typed; the lead-in counter, an unsigned integer in the *)
(* code, never goes below zero.                                             *)
THEOREM AlwaysTyped == Spec => []TypeOK
<1>1. IInv => TypeOK
  BY DEF IInv, LimitsInv, Counters, BufferInv, Lead, Open, Shut, TypeOK
<1> QED BY InitInv, NextInv, <1>1, PTL DEF Spec

(* For every policy, also one with a zero limit, no sequence of frames and  *)
(* speech.end leaves an utterance open past its endpoint or its cap, and    *)
(* `active` tells the state.                                                *)
THEOREM AlwaysWithinLimits == Spec => []OpenWithinLimits
<1>1. IInv => OpenWithinLimits
  BY DEF IInv, LimitsInv
<1> QED BY InitInv, NextInv, <1>1, PTL DEF Spec

(* The counters that decide when an utterance ends measure its buffer.      *)
THEOREM CountersAlwaysMeasure == Spec => []CountersMeasureBuffer
<1>1. IInv => CountersMeasureBuffer
  BY DEF IInv, BufferInv, Open, CountersMeasureBuffer
<1> QED BY InitInv, NextInv, <1>1, PTL DEF Spec

(* An utterance is delivered exactly when its own speech is long enough,    *)
(* and is cut with the frame that takes it to the cap.                      *)
THEOREM AlwaysLongEnough == Spec => []DeliveredIsLongEnough
<1>1. IInv => DeliveredIsLongEnough
  BY DEF IInv, BufferInv, Shut
<1> QED BY InitInv, NextInv, <1>1, PTL DEF Spec

(* The lead-in is silence and fits its window, although the counter is not  *)
(* reset when an utterance takes the ring over.                             *)
THEOREM LeadInAlwaysBounded == Spec => []LeadInBounded
<1>1. IInv => LeadInBounded
  BY QuietHasNoSpeech DEF IInv, BufferInv, Lead, LeadInBounded
<1> QED BY InitInv, NextInv, <1>1, PTL DEF Spec

(* The assembler implements Segments: its utterances are disjoint runs of   *)
(* consecutive frames, each ended once.                                     *)
THEOREM SegmentsImplemented == Spec => ImplementsSegments
<1> QED BY InitInv, NextInv, InitSegments, NextSegments, PTL
        DEF Spec, ImplementsSegments, Segmenter!Spec
=============================================================================
