------------------------------ MODULE Segments ------------------------------
(***************************************************************************)
(* What a voice-activity segmenter promises its caller, whatever detector  *)
(* and policy it runs with.  The audio is a stream of frames numbered from *)
(* 1.  At most one segment is open: a run of consecutive frames up to the  *)
(* one just heard, that may begin with a lead-in of earlier frames but     *)
(* uses no frame of the segment before it.  A segment ends once, delivered *)
(* or discarded.                                                           *)
(*                                                                         *)
(* Vad implements this specification.                                      *)
(***************************************************************************)
EXTENDS Naturals, Sequences

VARIABLES
  cursor,   \* number of frames heard so far
  segment,  \* the frames of the open segment, <<>> when none is open
  ended     \* the latest segment that ended: its frames, and was it delivered?

vars == <<cursor, segment, ended>>

Init ==
  /\ cursor = 0
  /\ segment = <<>>
  /\ ended = [frames |-> <<>>, delivered |-> FALSE]

\* The frames b .. e.
Run(b, e) == [i \in 1 .. (e - b + 1) |-> b + i - 1]

\* The last frame that the latest segment used.
Used == IF ended.frames = <<>> THEN 0 ELSE ended.frames[Len(ended.frames)]

\* The open segment with the frame about to be heard, or a new one.
Grown ==
  IF segment # <<>> THEN {Append(segment, cursor + 1)}
                    ELSE {Run(b, cursor + 1) : b \in (Used + 1) .. (cursor + 1)}

\* A frame outside every segment.
Skip ==
  /\ segment = <<>>
  /\ cursor' = cursor + 1
  /\ UNCHANGED <<segment, ended>>

\* A frame that opens a segment or extends the open one.
Extend ==
  /\ segment' \in Grown
  /\ cursor' = cursor + 1
  /\ UNCHANGED ended

EndWith(frames) ==
  /\ segment' = <<>>
  /\ \E d \in BOOLEAN : ended' = [frames |-> frames, delivered |-> d]

\* The frame just heard is the last of its segment.
ExtendAndEnd ==
  /\ \E frames \in Grown : EndWith(frames)
  /\ cursor' = cursor + 1

\* The caller ends the open segment without a new frame.
End ==
  /\ segment # <<>>
  /\ EndWith(segment)
  /\ UNCHANGED cursor

Next == Skip \/ Extend \/ ExtendAndEnd \/ End

Spec == Init /\ [][Next]_vars
=============================================================================
