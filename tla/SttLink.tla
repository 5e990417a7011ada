------------------------------ MODULE SttLink ------------------------------
(***************************************************************************)
(* The upstream speech-to-text links of one connection: the handshake and  *)
(* the pump of crates/harness-providers/src/stt_realtime.rs, between the   *)
(* read loop (crates/harness-server/src/ws.rs) that dials, feeds and       *)
(* drops them and the upstream servers.  Connection takes a link to be a   *)
(* channel of events; here are its command channel, its handshake and the  *)
(* pumps of earlier links that have not ended yet.                         *)
(*                                                                         *)
(* A command is the sample rate of an audio frame, or Commit; an event is  *)
(* "ok", or "err" for the error a pump ends with.  A pump suspends at      *)
(*   run      its select over commands and upstream                        *)
(*   send     the upstream write of the command it took                    *)
(*   emit     the send of an event it parsed                               *)
(*   failing  the send of its error                                        *)
(*                                                                         *)
(* The messages of the read loop to the client have room here.             *)
(***************************************************************************)
EXTENDS Integers, Sequences, SequencesExt

CONSTANTS Bound,     \* LINK_CHANNEL_BOUND
          Rates,     \* the rates a client announces; 0 announces none
          MaxLinks,  \* bound: links dialed
          MaxSent,   \* bound: messages of the client
          MaxHeard   \* bound: messages of upstream

DefaultRate == 16000

ASSUME LinkAssumption ==
  /\ Bound \in Nat \ {0}
  /\ Rates \subseteq Nat
  /\ {MaxLinks, MaxSent, MaxHeard} \subseteq Nat

VARIABLES loop,     \* where the read loop is
          rate,     \* sample_rate
          link,     \* SttMode::Realtime.link: the index of a link, 0 for None
          rx,       \* SttMode::Realtime.events: likewise
          pumps,    \* the links dialed so far
          sent,     \* messages of the client so far
          heard,    \* messages of upstream so far
          told,     \* links whose failure the client has been told
          dropped,  \* links dropped with their session
          silenced  \* links dropped by a commit that failed

linkVars == <<link, rx, pumps>>
history == <<told, dropped, silenced>>
vars == <<loop, rate, linkVars, sent, heard, history>>

Commit == 0
Frame(r) == r

\* `got` is the audio upstream received, by its rates; `ok` is FALSE once the pump failed.
Pump == [at : {"run", "send", "emit", "failing", "exited"}, ok : BOOLEAN, rate : Nat,
         cmds : Seq(Nat), evs : Seq({"ok", "err"}), cmd : Nat, got : SUBSET Nat]
NewPump(r) ==
  [at |-> "run", ok |-> TRUE, rate |-> r, cmds |-> <<>>, evs |-> <<>>, cmd |-> 0, got |-> {}]

Links == DOMAIN pumps

Init ==
  /\ loop = "ready" /\ rate = DefaultRate
  /\ link = 0 /\ rx = 0 /\ pumps = <<>>
  /\ sent = 0 /\ heard = 0
  /\ told = {} /\ dropped = {} /\ silenced = {}

-----------------------------------------------------------------------------
(* The read loop.                                                          *)

Message == loop = "ready" /\ sent < MaxSent /\ sent' = sent + 1

\* (Slip) session.start leaves the link.
SessionStartKeepsLink(r) ==
  /\ Message
  /\ rate' = IF r > 0 THEN r ELSE rate
  /\ UNCHANGED <<loop, linkVars, heard, history>>

SessionStart(r) ==
  /\ Message
  /\ rate' = IF r > 0 THEN r ELSE rate
  /\ link' = 0 /\ rx' = 0
  /\ dropped' = dropped \cup ({link, rx} \ {0})
  /\ UNCHANGED <<loop, pumps, heard, told, silenced>>

\* session.stop, or the end of the socket.
Leave ==
  /\ loop = "ready"
  /\ loop' = "gone"
  /\ link' = 0 /\ rx' = 0
  /\ dropped' = dropped \cup ({link, rx} \ {0})
  /\ UNCHANGED <<rate, pumps, sent, heard, told, silenced>>

\* audio.data: dial if there is no link, then send.
AudioData ==
  /\ Message
  /\ loop' = IF link = 0 THEN "dialing" ELSE "sending"
  /\ UNCHANGED <<rate, linkVars, heard, history>>

SpeechEnd ==
  /\ Message
  /\ link # 0
  /\ loop' = "committing"
  /\ UNCHANGED <<rate, linkVars, heard, history>>

\* The send of a command waits for room in the channel.
SendCommand ==
  /\ loop \in {"sending", "committing"}
  /\ pumps[link].at # "exited"
  /\ Len(pumps[link].cmds) < Bound
  /\ pumps' = [pumps EXCEPT ![link].cmds =
                 Append(@, IF loop = "sending" THEN Frame(rate) ELSE Commit)]
  /\ loop' = "ready"
  /\ UNCHANGED <<rate, link, rx, sent, heard, history>>

\* The pump has ended: the link goes, its events stay.  Only audio gets an error.
SendFails ==
  /\ loop \in {"sending", "committing"}
  /\ pumps[link].at = "exited"
  /\ link' = 0
  /\ told' = IF loop = "sending" THEN told \cup {link} ELSE told
  /\ silenced' = IF loop = "committing" THEN silenced \cup {link} ELSE silenced
  /\ loop' = "ready"
  /\ UNCHANGED <<rate, rx, pumps, sent, heard, dropped>>

\* An error is the last event, and tears the link down.
ReadEvent ==
  /\ loop = "ready"
  /\ rx # 0 /\ pumps[rx].evs # <<>>
  /\ pumps' = [pumps EXCEPT ![rx].evs = Tail(@)]
  /\ IF Head(pumps[rx].evs) = "err"
     THEN link' = 0 /\ rx' = 0 /\ told' = told \cup {rx}
     ELSE UNCHANGED <<link, rx, told>>
  /\ UNCHANGED <<loop, rate, sent, heard, dropped, silenced>>

-----------------------------------------------------------------------------
(* connect: dial, greeting, session.update, confirmation.  A read of the    *)
(* greeting or the confirmation that ignored its message is followed by     *)
(* another one, to which the names alternate.                               *)
Greeting == {"greeting", "greeting again"}
Confirming == {"confirming", "confirming again"}

Handshaking == loop \in {"dialing", "updating"} \cup Greeting \cup Confirming

\* A connection, a session.created or session.updated, or the write of the session.update.
HandshakeAdvances ==
  \/ /\ loop = "dialing" /\ loop' = "greeting"
     /\ UNCHANGED <<rate, linkVars, sent, heard, history>>
  \/ /\ loop \in Greeting /\ loop' = "updating"
     /\ UNCHANGED <<rate, linkVars, sent, heard, history>>
  \/ /\ loop = "updating" /\ loop' = "confirming"
     /\ UNCHANGED <<rate, linkVars, sent, heard, history>>
  \/ /\ loop \in Confirming /\ Len(pumps) < MaxLinks
     /\ pumps' = Append(pumps, NewPump(rate))
     /\ link' = Len(pumps) + 1 /\ rx' = Len(pumps) + 1
     /\ loop' = "sending"
     /\ UNCHANGED <<rate, sent, heard, history>>

\* Any other event, a ping or a binary frame: the next read has ten seconds again.
HandshakeIgnores ==
  /\ \E reads \in {Greeting, Confirming} : loop \in reads /\ loop' \in reads \ {loop}
  /\ UNCHANGED <<rate, linkVars, sent, heard, history>>

\* No connection or no message within ten seconds, an error, a close.
HandshakeFails ==
  /\ Handshaking
  /\ loop' = "ready"
  /\ UNCHANGED <<rate, linkVars, sent, heard, history>>

-----------------------------------------------------------------------------
(* The pump of link i.                                                     *)

PumpStep == UNCHANGED <<loop, rate, link, rx, sent, history>>

SetPump(i, p) == pumps' = [pumps EXCEPT ![i] = p] /\ PumpStep

\* Commands still in the channel of a dropped link are forwarded first.
TakeCommand(i) ==
  /\ pumps[i].at = "run" /\ pumps[i].cmds # <<>>
  /\ SetPump(i, [pumps[i] EXCEPT !.at = "send", !.cmds = Tail(@), !.cmd = Head(pumps[i].cmds)])
  /\ UNCHANGED heard

\* (Slip) A closed command channel is taken for one without commands.
LinkDroppedIgnored(i) ==
  /\ pumps[i].at = "run" /\ pumps[i].cmds = <<>>
  /\ link # i
  /\ UNCHANGED vars

\* No sender is left: the pump exits without an event.
LinkDropped(i) ==
  /\ pumps[i].at = "run" /\ pumps[i].cmds = <<>>
  /\ link # i
  /\ SetPump(i, [pumps[i] EXCEPT !.at = "exited"])
  /\ UNCHANGED heard

\* The write to upstream, which nothing bounds in time.
Forwarded(i) ==
  /\ pumps[i].at = "send"
  /\ SetPump(i, [pumps[i] EXCEPT !.at = "run",
                                 !.got = IF pumps[i].cmd = Commit THEN @ ELSE @ \cup {pumps[i].cmd}])
  /\ UNCHANGED heard

ForwardFails(i) ==
  /\ pumps[i].at = "send"
  /\ SetPump(i, [pumps[i] EXCEPT !.at = "failing", !.ok = FALSE])
  /\ UNCHANGED heard

\* A message of upstream: an event to pass on, or one that is ignored.
Hear(i, next) ==
  /\ pumps[i].at = "run"
  /\ heard < MaxHeard /\ heard' = heard + 1
  /\ SetPump(i, [pumps[i] EXCEPT !.at = next])

\* An error event, a message that does not parse, a failed read, the end of the
\* connection, or ten seconds in which neither a command nor a message came.
UpstreamFails(i) ==
  /\ pumps[i].at = "run"
  /\ SetPump(i, [pumps[i] EXCEPT !.at = "failing", !.ok = FALSE])
  /\ UNCHANGED heard

\* An event waits for room; when nobody holds the receiver the pump exits.
PassOn(i) ==
  /\ pumps[i].at = "emit"
  /\ \/ /\ rx # i
        /\ SetPump(i, [pumps[i] EXCEPT !.at = "exited"])
     \/ /\ rx = i /\ Len(pumps[i].evs) < Bound
        /\ SetPump(i, [pumps[i] EXCEPT !.at = "run", !.evs = Append(@, "ok")])
  /\ UNCHANGED heard

\* (Slip) The error is dropped when the channel is full.
FailOnlyWithRoom(i) ==
  /\ pumps[i].at = "failing"
  /\ SetPump(i, [pumps[i] EXCEPT !.at = "exited",
                                 !.evs = IF rx = i /\ Len(@) < Bound THEN Append(@, "err") ELSE @])
  /\ UNCHANGED heard

Fail(i) ==
  /\ pumps[i].at = "failing"
  /\ \/ /\ rx # i
        /\ SetPump(i, [pumps[i] EXCEPT !.at = "exited"])
     \/ /\ rx = i /\ Len(pumps[i].evs) < Bound
        /\ SetPump(i, [pumps[i] EXCEPT !.at = "exited", !.evs = Append(@, "err")])
  /\ UNCHANGED heard

-----------------------------------------------------------------------------
\* The pump waits for room for an event, and the read loop for room for a command.
Crossed ==
  /\ loop \in {"sending", "committing"}
  /\ pumps[link].at \in {"emit", "failing"}
  /\ Len(pumps[link].evs) = Bound /\ Len(pumps[link].cmds) = Bound

Hang == Crossed /\ UNCHANGED vars

Over == loop = "gone" /\ (\A i \in Links : pumps[i].at = "exited") /\ UNCHANGED vars

Client == (\E r \in Rates : SessionStart(r)) \/ AudioData \/ SpeechEnd \/ Leave

Handshake == HandshakeAdvances \/ HandshakeIgnores \/ HandshakeFails

Command == SendCommand \/ SendFails

Upstream(i) == (\E next \in {"emit", "run"} : Hear(i, next)) \/ UpstreamFails(i)

Forward(i) == Forwarded(i) \/ ForwardFails(i)

PumpNext(i) ==
  TakeCommand(i) \/ LinkDropped(i) \/ Forward(i) \/ Upstream(i) \/ PassOn(i) \/ Fail(i)

Next ==
  \/ Client \/ Handshake \/ Command \/ ReadEvent
  \/ \E i \in Links : PumpNext(i)
  \/ Hang \/ Over

Spec == Init /\ [][Next]_vars

(* A send or a read that can proceed is polled again; select picks among   *)
(* its ready branches at random (SF); the dial and every read of the       *)
(* handshake end within ten seconds (stt_realtime.rs:178, :246), which     *)
(* says nothing of how many reads there are.  That an upstream write ends, *)
(* the session.update of the handshake included, is an assumption: the     *)
(* code sets no limit, and a server that stops reading its socket without  *)
(* closing it suspends the writer.                                         *)
Fairness ==
  /\ WF_vars(Handshake)
  /\ WF_vars(Command)
  /\ SF_vars(ReadEvent)
  /\ \A i \in 1..MaxLinks :
       /\ SF_vars(i \in Links /\ (TakeCommand(i) \/ LinkDropped(i)))
       /\ WF_vars(i \in Links /\ Forward(i))
       /\ WF_vars(i \in Links /\ (PassOn(i) \/ Fail(i)))

FairSpec == Spec /\ Fairness

-----------------------------------------------------------------------------
TypeOK ==
  /\ loop \in {"ready", "dialing", "updating", "sending", "committing", "gone"}
               \cup Greeting \cup Confirming
  /\ rate \in Nat
  /\ pumps \in Seq(Pump)
  /\ link \in 0..Len(pumps) /\ rx \in 0..Len(pumps)
  /\ sent \in Nat /\ heard \in Nat
  /\ {told, dropped, silenced} \subseteq SUBSET Nat

\* A link that failed is reported to the client: the error is on its way through the
\* event channel, however full (stt_realtime.rs:373-455), or the client has it, be it
\* from the channel or from the send that found the pump dead (ws.rs:376-395); unless the
\* session that dialed the link is over.  The exception is a speech.end whose commit
\* found the pump dead (ws.rs:404-411): it drops the link without a word, and the
\* next dial then replaces the channel with the error (ws.rs:356-359).
FailureIsReported ==
  \A i \in Links :
    ~pumps[i].ok =>
      \/ pumps[i].at = "failing"
      \/ rx = i /\ pumps[i].evs # <<>> /\ Last(pumps[i].evs) = "err"
      \/ i \in told \cup dropped
      \/ i \in silenced /\ rx # i

\* Upstream decodes audio at the rate its handshake announced, which is fixed from the
\* first frame on; so no frame of a session reaches a link dialed for another rate
\* (ws.rs:290-306, stt_realtime.rs:78-79).
RatesMatch == \A i \in Links : pumps[i].got \subseteq {pumps[i].rate}

\* Whatever the read loop does for a message ends: the dial, a send into a full
\* channel, a send to a pump that dies meanwhile; unless the handshake is kept up by an
\* upstream that goes on sending what it ignores (against stt_realtime.rs:177-178 and
\* :259, which say that CONNECT_TIMEOUT bounds it), or loop and pump wait for each other.
\* And a pump whose link was dropped ends, so that upstream sees the connection close
\* (ws.rs:302-306), whatever the loop does by then.
NothingHangs ==
  /\ \/ []<><<HandshakeIgnores>>_vars
     \/ loop # "ready" ~> loop \in {"ready", "gone"} \/ Crossed
  /\ \A i \in 1..MaxLinks :
       i \in Links /\ link # i ~> i \in Links /\ pumps[i].at = "exited"

=============================================================================
