---------------------------- MODULE SttLinkProofs ----------------------------
(***************************************************************************)
(* What holds of the upstream links of a connection for every channel      *)
(* bound, all rates and any number of links and messages.                  *)
(***************************************************************************)
EXTENDS SttLink, SequenceTheorems, TLAPS

(* A pump's commands, taken or not, are commits and frames of its own rate. *)
OnRate(p) ==
  /\ \A k \in DOMAIN p.cmds : p.cmds[k] \in {Commit, p.rate}
  /\ p.cmd \in {Commit, p.rate}
  /\ p.got \subseteq {p.rate}

(* The read loop's side: what is dialed has the session's rate. *)
LinkRates ==
  /\ link # 0 => pumps[link].rate = rate
  /\ \A i \in Links : OnRate(pumps[i])

(* Link and channel belong together; a channel outlives its link only when *)
(* the send that dropped the link has been accounted for, and a pump       *)
(* nobody listens to has been accounted for as well.                       *)
Accounted ==
  /\ link \in {0, rx}
  /\ rx # 0 /\ link = 0 => rx \in told \cup silenced
  /\ loop \in {"sending", "committing"} => link # 0
  /\ Handshaking => link = 0
  /\ \A i \in Links : i # rx => i \in told \cup dropped \cup silenced

(* Only a pump on its way out has failed, so nothing follows an error. *)
RunningIsOk == \A i \in Links : pumps[i].at \in {"run", "send", "emit"} => pumps[i].ok

-----------------------------------------------------------------------------
LEMMA InitTyped == Init => TypeOK
BY LinkAssumption DEF Init, TypeOK, DefaultRate

LEMMA NewPumpTyped == ASSUME NEW r \in Nat PROVE NewPump(r) \in Pump
<1>1. <<>> \in Seq(Nat) /\ <<>> \in Seq({"ok", "err"}) /\ {} \in SUBSET Nat
  OBVIOUS
<1> QED BY <1>1 DEF NewPump, Pump

(* What one step of pump i changes: itself alone, by one of these. *)
Takes(p, q) == p.at = "run" /\ p.cmds # <<>> /\
  q = [p EXCEPT !.at = "send", !.cmds = Tail(@), !.cmd = Head(p.cmds)]
Delivers(p, q) == p.at = "send" /\
  q = [p EXCEPT !.at = "run", !.got = IF p.cmd = Commit THEN @ ELSE @ \cup {p.cmd}]
Turns(p, q) == p.at \in {"run", "send"} /\ \E next \in {"emit", "run"} : q = [p EXCEPT !.at = next]
Fails(p, q) == p.at \in {"run", "send"} /\ q = [p EXCEPT !.at = "failing", !.ok = FALSE]
Passes(p, q) == p.at = "emit" /\ q = [p EXCEPT !.at = "run", !.evs = Append(@, "ok")]
Ends(p, q) == p.at \in {"run", "emit"} /\ q = [p EXCEPT !.at = "exited"]
EndsFailed(p, q) == p.at = "failing" /\ q = [p EXCEPT !.at = "exited"]
Errs(p, q) == p.at = "failing" /\ q = [p EXCEPT !.at = "exited", !.evs = Append(@, "err")]

Moves(i, p, q) ==
  \/ Takes(p, q) \/ Delivers(p, q) \/ Turns(p, q) \/ Fails(p, q)
  \/ (Passes(p, q) /\ rx = i) \/ Ends(p, q)
  \/ (EndsFailed(p, q) /\ rx # i) \/ (Errs(p, q) /\ rx = i)

LEMMA PumpMoves ==
  ASSUME TypeOK, NEW i \in Links, PumpNext(i)
  PROVE  /\ PumpStep
         /\ heard' \in Nat
         /\ \E q : Moves(i, pumps[i], q) /\ pumps' = [pumps EXCEPT ![i] = q]
<1> USE DEF Moves, SetPump, PumpStep, TypeOK
<1>1. CASE TakeCommand(i)
  BY <1>1 DEF TakeCommand, Takes
<1>2. CASE LinkDropped(i)
  BY <1>2 DEF LinkDropped, Ends
<1>3. CASE Forwarded(i)
  BY <1>3 DEF Forwarded, Delivers
<1>4. CASE ForwardFails(i)
  BY <1>4 DEF ForwardFails, Fails
<1>5. CASE UpstreamFails(i)
  BY <1>5 DEF UpstreamFails, Fails
<1>6. CASE \E next \in {"emit", "run"} : Hear(i, next)
  <2>1. PICK next \in {"emit", "run"} : Hear(i, next)
    BY <1>6
  <2>2. Turns(pumps[i], [pumps[i] EXCEPT !.at = next])
    BY <2>1, Zenon DEF Hear, Turns
  <2>3. PumpStep /\ heard' \in Nat /\ pumps' = [pumps EXCEPT ![i] = [pumps[i] EXCEPT !.at = next]]
    BY <2>1 DEF Hear
  <2> HIDE DEF SetPump, PumpStep, TypeOK
  <2> QED BY <2>2, <2>3, Zenon
<1>7. CASE PassOn(i)
  BY <1>7 DEF PassOn, Passes, Ends
<1>8. CASE Fail(i)
  BY <1>8 DEF Fail, EndsFailed, Errs
<1> QED BY <1>1, <1>2, <1>3, <1>4, <1>5, <1>6, <1>7, <1>8 DEF PumpNext, Forward, Upstream

(* A step keeps the pump well-typed and on its rate; the events grow by an  *)
(* "ok" of a running pump or by the error of a failing one.                 *)
LEMMA MoveKeeps ==
  ASSUME NEW i, NEW p \in Pump, NEW q, Moves(i, p, q),
         p.at \in {"run", "send", "emit"} => p.ok
  PROVE  /\ q \in Pump
         /\ q.rate = p.rate
         /\ OnRate(p) => OnRate(q)
         /\ q.at \in {"run", "send", "emit"} => q.ok
         /\ ~q.ok /\ p.ok => q.at = "failing"
         /\ ~q.ok /\ ~p.ok /\ p.at # "failing" => q.evs = p.evs
         /\ p.at = "failing" /\ rx = i => Last(q.evs) = "err" /\ q.evs # <<>>
<1> USE DEF Pump, Commit
<1> DEFINE C(s) == s \in Seq(Nat)
<1>1. CASE Takes(p, q)
  <2>1. p.cmds \in Seq(Nat) /\ p.cmds # <<>>
    BY <1>1 DEF Takes
  <2>2. Tail(p.cmds) \in Seq(Nat) /\ Head(p.cmds) \in Nat /\ Head(p.cmds) = p.cmds[1]
        /\ 1 \in DOMAIN p.cmds
    BY <2>1
  <2>3. \A k \in DOMAIN Tail(p.cmds) : Tail(p.cmds)[k] = p.cmds[k + 1] /\ k + 1 \in DOMAIN p.cmds
    BY <2>1
  <2>4. q = [p EXCEPT !.at = "send", !.cmds = Tail(p.cmds), !.cmd = Head(p.cmds)]
        /\ p.at = "run" /\ p.ok
    BY <1>1 DEF Takes
  <2>5. /\ q \in Pump
        /\ q.rate = p.rate /\ q.at = "send" /\ q.ok
        /\ q.cmds = Tail(p.cmds) /\ q.cmd = Head(p.cmds) /\ q.got = p.got
    BY <2>1, <2>2, <2>4
  <2>6. OnRate(p) => OnRate(q)
    BY <2>2, <2>3, <2>5 DEF OnRate
  <2> QED BY <2>4, <2>5, <2>6
<1>2. CASE Delivers(p, q)
  BY <1>2 DEF Delivers, OnRate
<1>3. CASE Turns(p, q)
  BY <1>3 DEF Turns, OnRate
<1>4. CASE Fails(p, q)
  BY <1>4 DEF Fails, OnRate
<1>5. CASE Passes(p, q)
  <2>1. Append(p.evs, "ok") \in Seq({"ok", "err"})
    OBVIOUS
  <2> QED BY <1>5, <2>1 DEF Passes, OnRate
<1>6. CASE Ends(p, q)
  BY <1>6 DEF Ends, OnRate
<1>7. CASE EndsFailed(p, q) /\ rx # i
  BY <1>7 DEF EndsFailed, OnRate
<1>8. CASE Errs(p, q)
  <2>1. Append(p.evs, "err") \in Seq({"ok", "err"}) /\ Append(p.evs, "err") # <<>>
        /\ Append(p.evs, "err")[Len(Append(p.evs, "err"))] = "err"
    OBVIOUS
  <2> QED BY <1>8, <2>1 DEF Errs, OnRate, Last
<1> QED BY <1>1, <1>2, <1>3, <1>4, <1>5, <1>6, <1>7, <1>8 DEF Moves

(* The same of the array of pumps. *)
LEMMA PumpsAfterStep ==
  ASSUME TypeOK, RunningIsOk, NEW i \in Links, PumpNext(i)
  PROVE  /\ PumpStep
         /\ TypeOK'
         /\ RunningIsOk'
         /\ Links' = Links
         /\ \A j \in Links \ {i} : pumps'[j] = pumps[j]
         /\ Moves(i, pumps[i], pumps'[i])
         /\ pumps[i] \in Pump
         /\ pumps[i].at \in {"run", "send", "emit"} => pumps[i].ok
<1>1. PICK q : Moves(i, pumps[i], q) /\ pumps' = [pumps EXCEPT ![i] = q]
  BY PumpMoves
<1>2. PumpStep /\ heard' \in Nat
  BY PumpMoves
<1>3. pumps \in Seq(Pump) /\ i \in DOMAIN pumps /\ pumps[i] \in Pump
  BY DEF TypeOK, Links
<1>4. pumps[i].at \in {"run", "send", "emit"} => pumps[i].ok
  BY DEF RunningIsOk
<1>5. q \in Pump /\ (q.at \in {"run", "send", "emit"} => q.ok)
  BY <1>1, <1>3, <1>4, MoveKeeps
<1>6. /\ pumps' \in Seq(Pump) /\ Len(pumps') = Len(pumps) /\ DOMAIN pumps' = DOMAIN pumps
      /\ pumps'[i] = q
      /\ \A j \in DOMAIN pumps \ {i} : pumps'[j] = pumps[j]
  BY <1>1, <1>3, <1>5
<1>7. TypeOK'
  BY <1>2, <1>6 DEF TypeOK, PumpStep, history
<1>8. RunningIsOk'
  BY <1>4, <1>5, <1>6 DEF RunningIsOk, Links
<1> QED BY <1>1, <1>2, <1>3, <1>4, <1>6, <1>7, <1>8 DEF Links

-----------------------------------------------------------------------------
(* The steps of the read loop leave every pump but for what they append to  *)
(* its commands or take from its events.                                    *)
LEMMA SendCommandPump ==
  ASSUME TypeOK, Accounted, SendCommand
  PROVE  LET c == IF loop = "sending" THEN Frame(rate) ELSE Commit
             q == [pumps[link] EXCEPT !.cmds = Append(@, c)]
         IN  /\ link \in Links /\ pumps[link] \in Pump /\ q \in Pump
             /\ pumps' \in Seq(Pump) /\ Len(pumps') = Len(pumps) /\ Links' = Links
             /\ pumps'[link] = q
             /\ \A j \in Links \ {link} : pumps'[j] = pumps[j]
<1> DEFINE c == IF loop = "sending" THEN Frame(rate) ELSE Commit
           q == [pumps[link] EXCEPT !.cmds = Append(@, c)]
<1>1. link \in DOMAIN pumps /\ pumps \in Seq(Pump) /\ pumps[link] \in Pump
  BY DEF SendCommand, TypeOK, Accounted
<1>2. c \in Nat
  BY DEF TypeOK, Commit, Frame
<1>3. q \in Pump
  <2> HIDE DEF c
  <2>1. pumps[link].cmds \in Seq(Nat)
    BY <1>1 DEF Pump
  <2>2. Append(pumps[link].cmds, c) \in Seq(Nat)
    BY <2>1, <1>2
  <2> QED BY <1>1, <2>2 DEF Pump
<1>4. pumps' = [pumps EXCEPT ![link] = q]
  BY DEF SendCommand
<1> HIDE DEF q
<1>5. /\ pumps' \in Seq(Pump) /\ Len(pumps') = Len(pumps) /\ DOMAIN pumps' = DOMAIN pumps
      /\ pumps'[link] = q
      /\ \A j \in DOMAIN pumps \ {link} : pumps'[j] = pumps[j]
  BY <1>1, <1>3, <1>4
<1> USE DEF q
<1> QED BY <1>1, <1>3, <1>5 DEF Links

LEMMA ReadEventPump ==
  ASSUME TypeOK, ReadEvent
  PROVE  LET q == [pumps[rx] EXCEPT !.evs = Tail(@)]
         IN  /\ rx \in Links /\ pumps[rx] \in Pump /\ q \in Pump
             /\ pumps' \in Seq(Pump) /\ Len(pumps') = Len(pumps) /\ Links' = Links
             /\ pumps'[rx] = q
             /\ \A j \in Links \ {rx} : pumps'[j] = pumps[j]
<1> DEFINE q == [pumps[rx] EXCEPT !.evs = Tail(@)]
<1>1. rx \in DOMAIN pumps /\ pumps \in Seq(Pump) /\ pumps[rx] \in Pump
  BY DEF ReadEvent, TypeOK
<1>2. q \in Pump
  <2>1. pumps[rx].evs \in Seq({"ok", "err"}) /\ pumps[rx].evs # <<>>
    BY <1>1 DEF Pump, ReadEvent
  <2>2. Tail(pumps[rx].evs) \in Seq({"ok", "err"})
    BY <2>1
  <2> QED BY <1>1, <2>2 DEF Pump
<1>3. pumps' = [pumps EXCEPT ![rx] = q]
  BY DEF ReadEvent
<1> HIDE DEF q
<1>4. /\ pumps' \in Seq(Pump) /\ Len(pumps') = Len(pumps) /\ DOMAIN pumps' = DOMAIN pumps
      /\ pumps'[rx] = q
      /\ \A j \in DOMAIN pumps \ {rx} : pumps'[j] = pumps[j]
  BY <1>1, <1>2, <1>3
<1> USE DEF q
<1> QED BY <1>1, <1>2, <1>4 DEF Links

(* The last step of the handshake adds a pump; the others wait. *)
Dialed == loop \in Confirming /\ HandshakeAdvances

LEMMA DialedPump ==
  ASSUME TypeOK, Dialed
  PROVE  /\ pumps' \in Seq(Pump) /\ Len(pumps') = Len(pumps) + 1
         /\ Links' = Links \cup {link'}
         /\ link' = Len(pumps) + 1 /\ rx' = link' /\ loop' = "sending"
         /\ pumps'[link'] = NewPump(rate)
         /\ \A j \in Links : pumps'[j] = pumps[j]
         /\ UNCHANGED <<rate, sent, heard, history>>
<1>1. /\ pumps' = Append(pumps, NewPump(rate)) /\ link' = Len(pumps) + 1 /\ rx' = Len(pumps) + 1
      /\ loop' = "sending" /\ UNCHANGED <<rate, sent, heard, history>>
  BY DEF Dialed, HandshakeAdvances, Greeting, Confirming
<1>2. pumps \in Seq(Pump) /\ NewPump(rate) \in Pump
  BY NewPumpTyped DEF TypeOK
<1> HIDE DEF Pump, NewPump
<1>3. /\ pumps' \in Seq(Pump) /\ Len(pumps') = Len(pumps) + 1
      /\ DOMAIN pumps' = DOMAIN pumps \cup {Len(pumps) + 1}
      /\ pumps'[Len(pumps) + 1] = NewPump(rate)
      /\ \A j \in DOMAIN pumps : pumps'[j] = pumps[j]
  BY <1>1, <1>2
<1> QED BY <1>1, <1>3 DEF Links

(* Everything else leaves the pumps alone. *)
Waits == Handshake /\ ~Dialed
LoopOnly == Client \/ Waits \/ SendFails \/ Hang \/ Over \/ UNCHANGED vars

LEMMA LoopOnlyPumps == ASSUME LoopOnly PROVE UNCHANGED pumps
<1> USE DEF linkVars, vars
<1>1. CASE Client
  BY <1>1 DEF Client, SessionStart, AudioData, SpeechEnd, Leave
<1>2. CASE Waits
  BY <1>2 DEF Waits, Handshake, Dialed, HandshakeAdvances, HandshakeIgnores, HandshakeFails
<1>3. CASE SendFails
  BY <1>3 DEF SendFails
<1>4. CASE Hang \/ Over \/ UNCHANGED vars
  BY <1>4 DEF Hang, Over
<1> QED BY <1>1, <1>2, <1>3, <1>4 DEF LoopOnly

LEMMA Steps ==
  ASSUME [Next]_vars
  PROVE  \/ LoopOnly \/ SendCommand \/ ReadEvent \/ Dialed
         \/ \E i \in Links : PumpNext(i)
BY DEF Next, LoopOnly, Waits, Command, Handshake, Dialed

-----------------------------------------------------------------------------
(* Type correctness, with RunningIsOk. *)
LEMMA TypedStep ==
  ASSUME TypeOK, RunningIsOk, Accounted, [Next]_vars
  PROVE  TypeOK' /\ RunningIsOk'
<1>1. CASE LoopOnly
  <2>1. UNCHANGED pumps
    BY <1>1, LoopOnlyPumps
  <2>2. RunningIsOk'
    BY <2>1 DEF RunningIsOk, Links
  <2> USE <2>1, LinkAssumption DEF TypeOK, linkVars, history
  <2>3. CASE \E r \in Rates : SessionStart(r)
    BY <2>2, <2>3 DEF SessionStart, Message
  <2>4. CASE AudioData
    BY <2>2, <2>4 DEF AudioData, Message
  <2>5. CASE SpeechEnd
    BY <2>2, <2>5 DEF SpeechEnd, Message
  <2>8. CASE Leave
    BY <2>2, <2>8 DEF Leave
  <2>9. CASE Waits
    <3>1. /\ UNCHANGED <<rate, pumps, link, rx, sent, history>>
          /\ heard' \in {heard, heard + 1}
          /\ loop' \in {"greeting", "updating", "confirming", "ready"} \cup Greeting \cup Confirming
      BY <2>9 DEF Waits, Handshake, Dialed, HandshakeAdvances, HandshakeIgnores, HandshakeFails,
                  Greeting, Confirming
    <3>2. heard' \in Nat
      BY <3>1
    <3> QED
      BY <2>2, <3>1, <3>2 DEF Greeting, Confirming
  <2>6. CASE SendFails
    BY <2>2, <2>6 DEF SendFails
  <2>7. CASE Hang \/ Over \/ UNCHANGED vars
    BY <2>2, <2>7 DEF Hang, Over, vars
  <2> QED BY <1>1, <2>3, <2>4, <2>5, <2>6, <2>7, <2>8, <2>9 DEF LoopOnly, Client
<1>2. CASE SendCommand
  <2>1. /\ pumps' \in Seq(Pump) /\ Len(pumps') = Len(pumps) /\ Links' = Links
        /\ pumps'[link].at = pumps[link].at /\ pumps'[link].ok = pumps[link].ok
        /\ \A j \in Links \ {link} : pumps'[j] = pumps[j]
    BY <1>2, SendCommandPump DEF Pump
  <2>2. TypeOK'
    BY <1>2, <2>1 DEF TypeOK, SendCommand, history
  <2>3. RunningIsOk'
    BY <2>1 DEF RunningIsOk
  <2> QED BY <2>2, <2>3
<1>3. CASE ReadEvent
  <2>1. /\ pumps' \in Seq(Pump) /\ Len(pumps') = Len(pumps) /\ Links' = Links
        /\ pumps'[rx].at = pumps[rx].at /\ pumps'[rx].ok = pumps[rx].ok
        /\ \A j \in Links \ {rx} : pumps'[j] = pumps[j]
    BY <1>3, ReadEventPump DEF Pump
  <2>2. TypeOK'
    BY <1>3, <2>1 DEF TypeOK, ReadEvent
  <2>3. RunningIsOk'
    BY <2>1 DEF RunningIsOk
  <2> QED BY <2>2, <2>3
<1>4. CASE Dialed
  <2>1. TypeOK'
    BY <1>4, DialedPump DEF TypeOK, history
  <2>2. RunningIsOk'
    BY <1>4, DialedPump DEF RunningIsOk, NewPump
  <2> QED BY <2>1, <2>2
<1>5. CASE \E i \in Links : PumpNext(i)
  BY <1>5, PumpsAfterStep
<1> QED BY <1>1, <1>2, <1>3, <1>4, <1>5, Steps

(* A channel is only replaced, or closed, once its link is in the books. *)
LEMMA AccountedStep ==
  ASSUME TypeOK, RunningIsOk, Accounted, [Next]_vars
  PROVE  Accounted'
<1>1. CASE LoopOnly
  <2>1. UNCHANGED pumps
    BY <1>1, LoopOnlyPumps
  <2> USE <2>1 DEF Accounted, Links, linkVars, history
  <2>2. CASE \E r \in Rates : SessionStart(r)
    BY <2>2 DEF SessionStart, Message
  <2>3. CASE AudioData \/ SpeechEnd
    BY <2>3 DEF AudioData, SpeechEnd, Message, Handshaking, Greeting, Confirming
  <2>4. CASE Leave
    BY <2>4 DEF Leave
  <2>5. CASE Waits
    BY <2>5 DEF Waits, Handshake, Dialed, HandshakeAdvances, HandshakeIgnores, HandshakeFails,
                Handshaking, Greeting, Confirming
  <2>6. CASE SendFails
    BY <2>6 DEF SendFails
  <2>7. CASE Hang \/ Over \/ UNCHANGED vars
    BY <2>7 DEF Hang, Over, vars, Handshaking, Greeting, Confirming
  <2> QED BY <1>1, <2>2, <2>3, <2>4, <2>5, <2>6, <2>7 DEF LoopOnly, Client
<1>2. CASE SendCommand
  BY <1>2, SendCommandPump DEF SendCommand, Accounted, history, Handshaking, Greeting, Confirming
<1>3. CASE ReadEvent
  <2>1. Links' = Links
    BY <1>3, ReadEventPump
  <2> QED BY <1>3, <2>1 DEF ReadEvent, Accounted, Handshaking, Greeting, Confirming
<1>4. CASE Dialed
  <2>1. link = 0
    BY <1>4 DEF Dialed, Accounted, Handshaking, Greeting, Confirming
  <2>2. \A i \in Links : i # 0
    BY DEF Links, TypeOK
  <2>3. \A i \in Links : i \in told \cup dropped \cup silenced
    BY <2>1, <2>2 DEF Accounted
  <2>4. link' # 0
    BY <1>4, DialedPump DEF TypeOK
  <2> QED BY <1>4, <2>3, <2>4, DialedPump DEF Accounted, history, Handshaking, Greeting, Confirming
<1>5. CASE \E i \in Links : PumpNext(i)
  <2>1. PumpStep /\ Links' = Links
    BY <1>5, PumpsAfterStep
  <2> QED BY <2>1 DEF PumpStep, Accounted, history, Handshaking, Greeting, Confirming
<1> QED BY <1>1, <1>2, <1>3, <1>4, <1>5, Steps

(* Audio is only ever put on a link that was dialed for the rate it has. *)
LEMMA RatesStep ==
  ASSUME TypeOK, RunningIsOk, Accounted, LinkRates, [Next]_vars
  PROVE  LinkRates'
<1>1. CASE LoopOnly
  <2>1. UNCHANGED pumps
    BY <1>1, LoopOnlyPumps
  <2> USE <2>1 DEF LinkRates, Links, OnRate, linkVars
  <2>2. CASE \E r \in Rates : SessionStart(r)
    BY <2>2 DEF SessionStart
  <2>3. CASE AudioData \/ SpeechEnd \/ Leave
    BY <2>3 DEF AudioData, SpeechEnd, Leave
  <2>4. CASE Waits
    BY <2>4 DEF Waits, Handshake, Dialed, HandshakeAdvances, HandshakeIgnores, HandshakeFails
  <2>5. CASE SendFails
    BY <2>5 DEF SendFails
  <2>6. CASE Hang \/ Over \/ UNCHANGED vars
    BY <2>6 DEF Hang, Over, vars
  <2> QED BY <1>1, <2>2, <2>3, <2>4, <2>5, <2>6 DEF LoopOnly, Client
<1>2. CASE SendCommand
  <2> DEFINE c == IF loop = "sending" THEN Frame(rate) ELSE Commit
             p == pumps[link]
             q == [p EXCEPT !.cmds = Append(@, c)]
  <2>1. /\ link \in Links /\ p \in Pump /\ Links' = Links /\ pumps'[link] = q
        /\ \A j \in Links \ {link} : pumps'[j] = pumps[j]
    BY <1>2, SendCommandPump
  <2>2. c \in {Commit, p.rate} /\ UNCHANGED <<link, rate>>
    BY <1>2 DEF SendCommand, LinkRates, Accounted, Frame
  <2>3. OnRate(p)
    BY <2>1 DEF LinkRates
  <2>4. /\ q.cmds = Append(p.cmds, c) /\ q.rate = p.rate /\ q.cmd = p.cmd /\ q.got = p.got
        /\ p.cmds \in Seq(Nat) /\ p.rate \in Nat
    BY <2>1 DEF Pump
  <2>5. OnRate(q)
    <3> HIDE DEF c, q, p
    <3>1. \A k \in DOMAIN Append(p.cmds, c) : Append(p.cmds, c)[k] \in {Commit, p.rate}
      BY <2>2, <2>3, <2>4 DEF OnRate
    <3> QED BY <2>3, <2>4, <3>1 DEF OnRate
  <2> QED BY <2>1, <2>2, <2>4, <2>5 DEF LinkRates
<1>3. CASE ReadEvent
  <2>1. /\ Links' = Links
        /\ pumps'[rx] = [pumps[rx] EXCEPT !.evs = Tail(@)] /\ pumps[rx] \in Pump
        /\ \A j \in Links \ {rx} : pumps'[j] = pumps[j]
    BY <1>3, ReadEventPump
  <2>2. \A j \in Links : pumps'[j].rate = pumps[j].rate /\ (OnRate(pumps[j]) => OnRate(pumps'[j]))
    <3>1. /\ pumps'[rx].cmds = pumps[rx].cmds /\ pumps'[rx].cmd = pumps[rx].cmd
          /\ pumps'[rx].got = pumps[rx].got /\ pumps'[rx].rate = pumps[rx].rate
      BY <2>1 DEF Pump
    <3> QED BY <2>1, <3>1 DEF OnRate
  <2>3. rate' = rate /\ link' \in {0, link} /\ (link # 0 => link \in Links)
    BY <1>3 DEF ReadEvent, TypeOK, Links
  <2> QED BY <2>1, <2>2, <2>3 DEF LinkRates
<1>4. CASE Dialed
  <2>1. OnRate(NewPump(rate)) /\ NewPump(rate).rate = rate
    BY DEF OnRate, NewPump, Commit
  <2> QED BY <1>4, <2>1, DialedPump DEF LinkRates
<1>5. CASE \E i \in Links : PumpNext(i)
  <2>1. PICK i \in Links : PumpNext(i)
    BY <1>5
  <2>2. pumps'[i].rate = pumps[i].rate /\ (OnRate(pumps[i]) => OnRate(pumps'[i]))
    BY <2>1, PumpsAfterStep, MoveKeeps
  <2>3. PumpStep /\ Links' = Links /\ \A j \in Links \ {i} : pumps'[j] = pumps[j]
    BY <2>1, PumpsAfterStep
  <2>4. link # 0 => link \in Links
    BY DEF TypeOK, Links
  <2> QED BY <2>2, <2>3, <2>4 DEF PumpStep, LinkRates
<1> QED BY <1>1, <1>2, <1>3, <1>4, <1>5, Steps

-----------------------------------------------------------------------------
LEMMA LastOfTail ==
  ASSUME NEW S, NEW s \in Seq(S), s # <<>>, Last(s) # Head(s)
  PROVE  Tail(s) # <<>> /\ Last(Tail(s)) = Last(s)
<1>1. Len(s) \in Nat /\ Len(s) > 1
  BY DEF Last
<1>2. Tail(s) \in Seq(S) /\ Len(Tail(s)) = Len(s) - 1
  <2>1. Tail(s) \in Seq(S)
    OBVIOUS
  <2>2. Len(Tail(s)) = Len(s) - 1
    OBVIOUS
  <2> QED BY <2>1, <2>2
<1>3. Tail(s) # <<>>
  <2> DEFINE t == Tail(s)
  <2>1. t \in Seq(S) /\ Len(t) # 0
    BY <1>1, <1>2
  <2> HIDE DEF t
  <2>2. t # <<>>
    BY <2>1, EmptySeq
  <2> QED BY <2>2 DEF t
<1>4. Tail(s)[Len(s) - 1] = s[Len(s)]
  BY <1>1, <1>2
<1> QED BY <1>2, <1>3, <1>4 DEF Last

(* An error that was sent stays the last event of its channel until it is   *)
(* read, and what is read is an error only if the client is told.           *)
LEMMA ReportedStep ==
  ASSUME TypeOK, RunningIsOk, Accounted, FailureIsReported, [Next]_vars
  PROVE  FailureIsReported'
<1>1. CASE LoopOnly
  <2>1. UNCHANGED pumps
    BY <1>1, LoopOnlyPumps
  <2> USE <2>1 DEF FailureIsReported, Links, linkVars, history
  <2>2. CASE \E r \in Rates : SessionStart(r)
    BY <2>2 DEF SessionStart
  <2>3. CASE AudioData \/ SpeechEnd
    BY <2>3 DEF AudioData, SpeechEnd
  <2>4. CASE Leave
    BY <2>4 DEF Leave
  <2>5. CASE Waits
    BY <2>5 DEF Waits, Handshake, Dialed, HandshakeAdvances, HandshakeIgnores, HandshakeFails
  <2>6. CASE SendFails
    BY <2>6 DEF SendFails
  <2>7. CASE Hang \/ Over \/ UNCHANGED vars
    BY <2>7 DEF Hang, Over, vars
  <2> QED BY <1>1, <2>2, <2>3, <2>4, <2>5, <2>6, <2>7 DEF LoopOnly, Client
<1>2. CASE SendCommand
  <2>1. \A j \in Links : pumps'[j].ok = pumps[j].ok /\ pumps'[j].at = pumps[j].at
                         /\ pumps'[j].evs = pumps[j].evs
    BY <1>2, SendCommandPump DEF Pump
  <2>2. Links' = Links
    BY <1>2, SendCommandPump
  <2>3. UNCHANGED <<rx, history>>
    BY <1>2 DEF SendCommand
  <2> QED BY <2>1, <2>2, <2>3 DEF FailureIsReported, history
<1>3. CASE ReadEvent
  <2> DEFINE p == pumps[rx]
  <2>1. /\ rx \in Links /\ Links' = Links /\ p \in Pump
        /\ pumps'[rx].ok = p.ok /\ pumps'[rx].at = p.at /\ pumps'[rx].evs = Tail(p.evs)
        /\ \A j \in Links \ {rx} : pumps'[j] = pumps[j]
    BY <1>3, ReadEventPump DEF Pump
  <2>2. UNCHANGED <<dropped, silenced>> /\ p.evs # <<>>
    BY <1>3 DEF ReadEvent
  <2>3. CASE Head(p.evs) = "err"
    <3>1. rx' = 0 /\ told' = told \cup {rx}
      BY <1>3, <2>3 DEF ReadEvent
    <3>2. \A i \in Links : i # 0
      BY DEF Links, TypeOK
    <3> QED BY <2>1, <2>2, <3>1, <3>2 DEF FailureIsReported
  <2>4. CASE Head(p.evs) # "err"
    <3>1. rx' = rx /\ told' = told
      BY <1>3, <2>4 DEF ReadEvent
    <3>2. Last(p.evs) = "err" => Tail(p.evs) # <<>> /\ Last(Tail(p.evs)) = "err"
      <4>1. p.evs \in Seq({"ok", "err"})
        BY <2>1 DEF Pump
      <4> HIDE DEF p
      <4> QED BY <2>2, <2>4, <4>1, LastOfTail
    <3> QED BY <2>1, <2>2, <3>1, <3>2 DEF FailureIsReported
  <2> QED BY <2>3, <2>4
<1>4. CASE Dialed
  <2>1. NewPump(rate).ok
    BY DEF NewPump
  <2>2. \A i \in Links : i # link'
    BY <1>4, DialedPump DEF Links, TypeOK
  <2>3. link = 0 /\ (rx # 0 => rx \in told \cup silenced)
    BY <1>4 DEF Dialed, Accounted, Handshaking, Greeting, Confirming
  <2>4. \A i \in Links : i # 0
    BY DEF Links, TypeOK
  <2> QED BY <1>4, <2>1, <2>2, <2>3, <2>4, DialedPump DEF FailureIsReported, history
<1>5. CASE \E i \in Links : PumpNext(i)
  <2>1. PICK i \in Links : PumpNext(i)
    BY <1>5
  <2> DEFINE p == pumps[i]
             q == pumps'[i]
  <2>2. /\ PumpStep /\ Links' = Links /\ Moves(i, p, q) /\ p \in Pump
        /\ p.at \in {"run", "send", "emit"} => p.ok
        /\ \A j \in Links \ {i} : pumps'[j] = pumps[j]
    BY <2>1, PumpsAfterStep
  <2>3. /\ ~q.ok /\ p.ok => q.at = "failing"
        /\ ~q.ok /\ ~p.ok /\ p.at # "failing" => q.evs = p.evs
        /\ p.at = "failing" /\ rx = i => Last(q.evs) = "err" /\ q.evs # <<>>
    BY <2>2, MoveKeeps
  <2>4. UNCHANGED <<rx, told, dropped, silenced>>
    BY <2>2 DEF PumpStep, history
  <2>5. rx # i => i \in told \cup dropped \cup silenced
    BY DEF Accounted
  <2>6. ~q.ok => \/ q.at = "failing"
                 \/ rx = i /\ q.evs # <<>> /\ Last(q.evs) = "err"
                 \/ i \in told \cup dropped
                 \/ i \in silenced /\ rx # i
    BY <2>3, <2>5 DEF FailureIsReported
  <2> HIDE DEF p, q
  <2> QED BY <2>2, <2>4, <2>6 DEF FailureIsReported, p, q
<1> QED BY <1>1, <1>2, <1>3, <1>4, <1>5, Steps

-----------------------------------------------------------------------------
IInv == TypeOK /\ RunningIsOk /\ Accounted /\ LinkRates /\ FailureIsReported

LEMMA Inductive == Spec => []IInv
<1>1. Init => IInv
  <2> SUFFICES ASSUME Init PROVE IInv
    OBVIOUS
  <2>1. TypeOK
    BY InitTyped
  <2>2. Links = {} /\ link = 0 /\ rx = 0 /\ loop = "ready"
    BY DEF Init, Links
  <2> QED BY <2>1, <2>2 DEF IInv, RunningIsOk, Accounted, LinkRates, FailureIsReported
<1>2. IInv /\ [Next]_vars => IInv'
  BY TypedStep, AccountedStep, RatesStep, ReportedStep DEF IInv
<1> QED BY <1>1, <1>2, PTL DEF Spec

(* Every reachable state of a connection's links is well-typed, however     *)
(* full the channels and whenever pumps die.                                *)
THEOREM TypeCorrect == Spec => []TypeOK
<1>1. IInv => TypeOK
  BY DEF IInv
<1> QED BY Inductive, <1>1, PTL

(* No frame reaches an upstream link that was dialed for another rate: a    *)
(* session.start that changes the rate drops the link before any frame of   *)
(* the new session is sent, and the frames still in its channel are of the  *)
(* old rate.                                                                *)
THEOREM RatesAlwaysMatch == Spec => []RatesMatch
<1>1. IInv => RatesMatch
  BY DEF IInv, LinkRates, OnRate, RatesMatch
<1> QED BY Inductive, <1>1, PTL

(* The client hears of every link that failed, or the error is on its way   *)
(* as the last event of its channel; but for sessions that ended and for    *)
(* the speech.end that found the pump dead.                                 *)
THEOREM FailuresAreReported == Spec => []FailureIsReported
<1>1. IInv => FailureIsReported
  BY DEF IInv
<1> QED BY Inductive, <1>1, PTL
=============================================================================
