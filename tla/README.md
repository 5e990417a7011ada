# Verification of the voice harness

TLA+ models of the voice harness, their model checking with TLC, and proofs
checked by TLAPS. Paths are relative to the repository.

## The system

A client (macOS, iOS, or any WebSocket client) streams microphone audio to the
server and plays the answer. The server segments the audio, has it transcribed,
decides when a sentence is complete, runs a turn (language model, tools,
speech synthesis) and streams the result back.

| component | code | state | operations | what makes it correct |
|---|---|---|---|---|
| voice activity segmenter | `crates/harness-core/src/vad.rs` | lead-in ring, open utterance, counters | `push`, `force_end` | utterances are disjoint runs of the stream; they end at the endpoint and the cap, and are measured on speech |
| realtime connection | `crates/harness-server/src/ws.rs` | `ConnState`, turn handle, write channel | client messages, hold deadline, upstream events, end | what the user said is dispatched once and in order; one turn at a time; no text crosses a session; held text is flushed; everything ends |
| upstream speech-to-text link | `crates/harness-providers/src/stt_realtime.rs` | two bounded channels, pump task, socket | dial, `send_pcm`, `commit`, events | a failure reaches the client; audio goes to a link of its rate; waits end |
| turn pipeline | `crates/harness-server/src/orchestrator.rs` | rounds, chunk numbers, history | `run_text_turn`, `run_audio_utterance` | message order; history pairs; bounded rounds |
| session store | `crates/harness-server/src/state.rs` | sessions by id, history | `get`, `trim_history` | turns of a session are serial; history bound |
| HTTP turn API | `crates/harness-server/src/http.rs` | event collector | `POST /v1/turn` | the answer is the whole turn |
| sentence chunker | `crates/harness-core/src/chunker.rs`, `sentence.rs` | pending text | `push`, `finish` | nothing lost or said twice, chunk bounds, termination |
| model stream | `crates/harness-providers/src/llm.rs` | partial tool calls, queued events | request, retry, reads, end | calls assembled by index; a broken stream is no whole answer; reads end |
| STT and TTS clients | `stt.rs`, `tts.rs` | none | one request each | conversion |
| MCP client and plugin | `crates/harness-plugins/src/mcp/` | clients, session ids, tool list, one lock | warm, call, refresh, re-initialize | a call runs at most once; an expired session is renewed; a dead server blocks nobody |
| OAuth token store | `crates/harness-plugins/src/mcp/oauth.rs` | one file, its temporary twin | `get`, `put`, refresh, login | a good token is never replaced by a bad or a missing one |
| plugin registry, built-ins | `registry.rs`, `builtin/` | tool list | resolve, dispatch | names resolve to one plugin |
| Swift clients | `clients/` | session phase, player queue, mic gate | server messages, playback, start and stop | the mic is closed while audio plays; no phase is final |
| configuration, binary, deployment | `config.rs`, `main.rs`, `deploy/` | none | start | plugins are warm before the listener is bound |

How they interact: the connection owns a segmenter and calls it for every audio
chunk; it owns an upstream link in realtime mode, whose pump sends it events
through a bounded channel; it spawns one task per turn, which takes the session's
lock and runs the pipeline; all of them send to the client through one bounded
write channel, drained by the writer task. The pipeline calls the model, the
plugins and speech synthesis. HTTP requests share sessions with connections.

What is hard in this code: handlers suspend at every send while turns, the
writer and the pump run; an aborted turn is not awaited; a held transcript races
its deadline, its continuation, `speech.end` and `session.start`; links die at
any moment with events unread; channels are full. `PROJECT.json` lists each
hazard at its line with the properties aimed at it.

How the modules fit: `Vad` implements `Segments`; `Turns` implements `Conversation`; `Answer` is one model round of
`Turns` in detail and implements `Chunker`; `SttLink` is the upstream half of
`Connection` in detail; `Mcp` is a tool call of `Turns` in detail and is built on
`TokenStore`. `Connection` and `Turns` meet at a turn: the phases of a task in one, the
awaits of `execute_turn` in the other.

## Modules

**`Vad`** models `UtteranceAssembler`. A frame is its number in the stream, its
length and the detector's verdict; a buffer is the sequence of its frames.
`PushOpen`, `PushIdle`, `PushSpeech` and `PushSilence` are the four branches of
`push`; `Finalize`, `MaybeCap` and `Trimmed` are `finalize`, `maybe_cap` and the
trimming loop; `ForceEnd` is `force_end`. `last` and `closed` are history
variables. `buf_ms`, which nothing reads, is left out. `Trimmed` stands for a
loop and says at which pop it stops.

**`Segments`** is what a segmenter promises whatever its detector and policy:
segments are runs of consecutive frames, no frame is in two of them, none ends
twice. `Vad` implements it (`ImplementsSegments`), its buffer being the open
segment.

**`Connection`** models one WebSocket connection. Its state corresponds to the
code as follows.

| variable | code |
|---|---|
| `loop`, `todo` | where `handle_socket` is: reading, in a handler (what is left of it), closing, returned |
| `vad` | `assembler`: `None`, no utterance open, open |
| `held`, `armed` | `held_transcript`, `hold_deadline.is_some()` |
| `sessionId` | `session_id` |
| `turn`, `tasks` | the join handle; every task ever spawned, as its phase |
| `link`, `partial`, `pump`, `events` | `SttMode::Realtime`, `upstream_partial`, the pump task, the event channel |
| `queued`, `writer` | the write channel, the writer task |

A handler runs to its first `await` in the action that takes its input
(`SessionStart`, `AudioData`, `SpeechEnd`, `UpstreamEvent`, `FlushDeadline`,
`Reject`, `Leave`), which leaves the rest in `todo`, one step per `await`; the
steps are `HandlerSend`, `Transcribe`, `GateTranscript`, `HandlerDispatch`,
`HandlerFlush`, `ForwardAudio`, `CommitAudio`. No input is taken while `todo` is
not empty; turn tasks, the writer and the pump move between any two steps.
Transcripts are numbers in the order they were recognised; a joined transcript
is the sequence of its texts; what an audio chunk does to the segmenter (how
many utterances it ends, whether one is open after it) is an input, `Vad` being
the model of how it comes about. A turn is the phases a connection can tell
apart: waiting for the session lock, thinking, pipeline, final states, finished.

`TurnSend` and `HandlerSend` wait while the write channel is full and succeed
without effect once the writer is gone, as `mpsc::Sender::send` does. A pump
death is one action that puts its error in the channel: every `break` of the
pump with a live consumer sends an error first. The end of the event channel (the
`None` branch of `on_upstream_event`) is therefore never seen by the read loop,
which drops the channel at the error.

**`Turns`** models the turns that share one session: `execute_turn` and
`run_text_turn`, run by the turn task of a connection (`dispatch_turn`) or by an
HTTP request (`turn_handler`).

| variable | code |
|---|---|
| `history` | `Session::history` |
| `holder`, `queue` | the session's `RwLock`: its write guard, and who waits for it |
| `pc` | the await at which a turn is suspended |
| `base`, `extra`, `round` | the locals `history`, `extra`, `round` of `execute_turn` |
| `asked`, `called`, `results`, `spoke` | `tool_calls.len()`, how far its loop is, `results`, whether `final_text` is not blank |
| `sent`, `completed` | audio chunks and `TurnCompleted` sent |
| `collecting`, `got` | the task of `collect_turn`, and its `CollectedTurn` |

An action is what runs from one await to the next: `LockWs`, `LockHttp` and `Think`
take the lock and push the question; `StreamOpens`, `Delta`, `AudioChunk` and
`StreamEnds` are `run_llm_round`; `CallTool`, `ToolResult` and `AppendToolRound` the
tool loop; `EmptyAnswer`, `Answer` and `Complete` the end, with `TrimHistory` inside
`Answer`; `Fail`, `Report` and `FailHttp` the error paths. `Abort` may come at any
await, the wait for the lock included: a dropped future leaves the queue. A call
that fails gives a result like one that succeeds, so `ToolResult` is one action.
Every way out of a turn (`Close`, `Respond`, `FailHttp`, `Abort`) is `Release`, which
drops its guard and locals. A message is its role and its turn; a session is
created by the first to ask for it, which here has always happened.

**`Conversation`** is what turns promise each other. Each is one step: it adds its
question with its answer, its question alone or nothing, once, and a whole exchange
makes the conversation forget whole turns from its front, as few as it must. In
`Turns`, `log` is the history without the question of a turn that still thinks, and
`over` the turns past their answer or failure. The step of a turn is `Answer`, or the
failure or the abort that ends it; all else stutters.

**`Chunker`** models `TextChunker` and the code-fence part of `strip_for_speech`.
Text is a sequence of character classes, and everything the code cuts is a position in
it: `taken` is where the pending string begins, a chunk is a pair of positions, so
that "lost", "twice" and "out of order" can be said at all.

| definition | code |
|---|---|
| `TrimStart`, `TrimEnd` | `trim_start`, `trim_end` on the pending string |
| `IsBoundary`, `BoundaryEnd`, `Qualifies`, `QualifyingBoundary` | the search for the first sentence end that makes a chunk of `MIN_CHUNK_CHARS` |
| `LastBreak`, `FlushCut` | `flush_cut` |
| `TakeRange` | `take_range` |
| `Push`, `EmitSentence`, `EmitFlush`, `EmitReturns`, `Finish` | `push`, one iteration of `emit_ready` with each of its outcomes, `finish` |
| `FenceAt`, `InFence`, `Spoken` | `strip_for_speech` |

The definitions say what a position must satisfy, not how the loop finds it; each
holds of one position, so that a step has one outcome.

**`Answer`** models one round: the request, its retry without streaming, the
classification of the body, the stream and the assembly of its tool calls, and
`run_llm_round`, which polls it, feeds the chunker and synthesizes.

| variable | code |
|---|---|
| `requests`, `pc` | the requests sent, by their `stream` flag; the await of the round |
| `peeked` | the chunk `classify_body` took from the body |
| `acc`, `queue`, `open` | `ChunkMapper.tool_acc`, the mapped events, whether the unfold still has its body |
| `calls`, `said` | `tool_calls`, chunks synthesized |
| `received`, `frags` | what upstream sent (history) |

A fragment is its index and whether it names the call; its piece of the arguments is the
number under which it arrived. It implements `ChunkerSpec`.

**`SttLink`** models the links of one connection: read loop, handshake, and a pump per
link dialed, those of dropped links included, which go on until they notice.

| variable | code |
|---|---|
| `loop` | the await of the read loop: reading, the waits of `connect` (dial, greeting, the write of the session.update, confirmation), a send or a commit into the command channel |
| `rate`, `link`, `rx` | `sample_rate`, `SttMode::Realtime.link` and `.events`, which the code keeps and drops apart |
| `pumps[i]` | pump task `i`: its await, its two channels, the rate it was dialed for |
| `told`, `dropped`, `silenced` | history: how the loss of a link ended for the client |

A command is the rate of its audio or `Commit`; an event is `"ok"` or the error. A pump
suspends at its `select!`, at the upstream write, at the send of an event and at the
send of its error. `Connection` abstracts a link to its event channel and takes the command
channel to have room; `SttLink` has no transcripts and gives the write channel room.

**`TokenStore`** models `get` and `put` of the one token file. `put` suspends between the
write of the temporary file and its rename (`Write`, `Rename`), and fails at either; two
puts at once share the temporary file. It does not suspend for a turn that is aborted,
being synchronous; its process may be killed. **`Mcp`** adds who uses it:

| variable | code |
|---|---|
| `boot` | `warm_all`: the server it is at, and its await |
| `listed`, `session`, `holder` | `clients` and `specs`; the clients with `Some(session_id)`; the write lock of `McpState` |
| `call[c]` | a tool call of a turn: its await, `token` at the refresh, `first` while the one retry after a 401 is left |
| `login[l]` | a run of the `auth` command |
| `valid`, `issued` | what the authorization servers accept (external) |
| `cut` | history: the last handshake with the server came to nothing |
| `mishap`, `reused`, `overlapped` | history: a rotation was lost with its response or in a failed put; the server revoked its tokens over one used twice; two puts were under way at once |

A call goes through `Dispatch` (`bearer_for`), `ReadContext`, the refresh, the put, `Lock`,
and the request with its answers: `Result`, `RequestFails`, `Unauthorized` (401),
`Expired` (404), `Initialized`, `Notified`. A server may answer 404 at any time. `Unknown`
is a call whose tool is out of sight, because the server is not listed or because
`try_read` met a held lock.

**`MC...`** give constants their values. **`VadProofs`, `ConnectionProofs`, `TurnsProofs`,
`ChunkerProofs`, `AnswerProofs`, `SttLinkProofs`, `McpProofs`** hold the proofs, **`Counting`** the
facts about numbers that several of them stand on. Operators marked (Slip) are plausible
mistakes in the code beside them; no behaviour uses them. Each property has one
that it detects, so none of them holds by the shape of the model.

## What is checked

| run | instance | shows |
|---|---|---|
| `vad` | 9 frames of 10 or 20 ms; endpoint 30 ms, minimum 20 ms, cap 40 ms, lead-in 20 ms | `TypeOK`, `OpenWithinLimits`, `CountersMeasureBuffer`, `DeliveredIsLongEnough`, `LeadInBounded`, `ImplementsSegments` |
| `batch` | batch mode, 2 texts, 2 sessions with own or generated ids, a write channel of 1, chunks that end up to 2 utterances | `TypeOK`, `HeldHasDeadline`, `OneTurn`, `EachTextOnce`; `HeldIsFlushed`, `HandlersEnd`, `TurnsEnd`, `ConnectionEnds` |
| `realtime` | realtime mode, 2 texts, 2 sessions with own or generated ids, 2 upstream links, an event channel of 2 | `EachTextOnce`, `InOrder`, `SessionIsolation`, `SpeechEndFlushes`, `FailureLosesNoText` |
| `turns` | two turns of connections and one of HTTP, 2 rounds, up to 2 calls in a round, 1 audio chunk, a history of 1 turn | `TypeOK`, `AnswersFollow`, `LockOfTheLiving`, `RequestsAreWhole`, `HistoryBounded`, `CompletedIsRemembered`, `ImplementsConversation`; `WaitingTurnsEnd` |
| `answer` | texts of 5 characters in 6 kinds of delta, chunks of at least 2 and at most 3, 3 fragments over 2 calls, 4 payloads | `NothingLost`, `LongOnlyForSentence`, `CallsAssembled`, `AnswerIsWhole`, `ChunkerSpec`; `StreamingEnds` |
| `link` | 2 links, 2 rates, channels of 1, 4 client messages, 3 upstream messages | `FailureIsReported`, `RatesMatch`; `NothingHangs` |
| `mcp` | any two of: two calls to a server with OAuth and sessions, a login to another; 3 tokens | `OncePerCall`, `StoredTokenIsGood`, `SessionIsRenewed`; `CallsAndLoginsEnd` |
| `cutoff` | as `realtime`, with own ids | `DeadlineCutsNothing` is violated |
| `http_gap` | as `turns` | `CollectsWholeTurn` is violated |
| `spin` | the chunker alone, texts of 6 characters | `EmitEnds` is violated |
| `code_spoken` | as `spin` | `CodeIsNotSpoken` is violated |
| `boot` | as `mcp`, two servers configured | `StartEnds` is violated |

The bounds. The limits of `vad` are small multiples of the frame lengths, so that
each is met exactly and overshot by a long frame; nine frames suffice for two
utterances with a lead-in each and a ring that was trimmed in between. Two texts
are a held fragment and its continuation, or a dispatched text and one that finds
its turn running; two sessions let an aborted turn of the first meet a turn of
the second, on the same lock or on another; two links let a re-dial replace a dead
one. A write channel of one slot makes every send wait for the writer (256 in the
code); an event channel of two holds a transcript and the error behind it (64 in
the code). Three turns are one that fails, one that answers and one that waits,
with a history of one turn to trim at every answer (8 by default); two rounds are
the least with a tool round and a last one (8 in the code), and two calls the least
with an order.

In `answer`, a minimum of 2 and a maximum of 3 (30 and 200 in the code) let a short text
meet all relations of the two: too short for a chunk, a chunk, too long, a sentence
longer than the maximum; five characters hold two chunks and a remainder. Three
fragments over two slots are two of one call around one of another, and a skipped
index. In `link`, channels of one slot (64 in the code) are full after one message, and
two links let a pump outlive its link while the next one is fed; four client messages are
a session, audio, a commit and a second session. In `mcp`, two actors are the least that
contend for the lock and for the file; `MaxActors` lets them be any two of three, and
three tokens are the stored one and two rotations.

`MaxTexts`, `MaxStarts`, `MaxLinks`, `MaxPerChunk`, `MaxFrames`, `MaxCalls`, `MaxChunks`,
`MaxText`, `MaxFrags`, `MaxReads`, `MaxSent`, `MaxHeard`, `MaxTokens` and `MaxActors` are
the only bounds that the code does not have. What upstream sends while a link is dialed
has no bound in the model (`HandshakeIgnores`).

`CHECK_DEADLOCK FALSE` is set where the system really stops: for `Vad`, whose streams end
at `MaxFrames`, and for `spin` and `code_spoken`, whose chunker is finished at the
end. A connection may only stop when it is closed and its turns are over, the turns
of a session, a round, the links and the MCP tasks when all are over (`Over`).

### Where code and documentation disagree

* `cutoff`: the deadline is deferred by the local VAD only; in realtime mode a
  continuation already spoken, being transcribed, or transcribed and unread does not
  defer it (`ws.rs:551-561`; the comment says it must not cut off the continuation).
* `http_gap`: `collect_turn` ends at the first gap of 10 s between two messages
  (`http.rs:96`), which a tool call or a slow model makes in a healthy turn. The handler
  still awaits the turn, and then answers 200 with what had come before the gap,
  perhaps with no text at all (`http.rs:4-7` says that the stream is collected into
  one response with all audio chunks).
* `spin`: a blank in front of a run of `max_chars` without one is the last break
  `flush_cut` finds; the cut there is trimmed to nothing, `take_range` returns `None`, and
  `emit_ready` loops for ever, without an await, in a task that holds the session
  (`chunker.rs:140`; the module comment says that such a run is force-split).
* `code_spoken`: `strip_for_speech` is called for each chunk on its own; a fenced block
  that the chunker cut is spoken from its second chunk on (`orchestrator.rs:180`;
  `chunker.rs:10-11` says that its content is suppressed entirely).
* `boot`: the body of an error answer is read without a limit (`client.rs:97`), and each
  notification of an SSE answer starts its timeout again; the start waits for it, with the
  listener not bound (`client.rs:3` says that every wait is bounded, `plugin.rs:138-139`
  that one dead server never blocks boot).

Also disagreements, which the passing runs reach and which have no run of their own:

* In batch mode `speech.end` flushes a held fragment only when no utterance is open; when
  it closes one, the transcript may itself be held (`ws.rs:427`; `README.md:109-110` says
  it flushes immediately). `SpeechEndFlushes` is false there, and holds in realtime mode.
* The ten seconds of `CONNECT_TIMEOUT` are those of each read of the handshake; an event of
  another type, a binary frame or a ping starts them again (`stt_realtime.rs:244-291`).
  An upstream that keeps sending keeps the connection inside `connect`
  (`stt_realtime.rs:177-178` and `:259-260` say that the handshake is bounded).
  `NothingHangs` names it (`HandshakeIgnores`).
* The list of tools is read by `try_read`, and empty while a call holds the lock over the
  network; the tools of connected servers are then unknown (`plugin.rs:272-277`; the
  comment there says that it is empty until `warm` runs). The action is `Unknown`.
* A put that overlaps another loses one of the two tokens, or all (`oauth.rs:111-134`;
  `README.md:35-36` says that the login is done once and refresh is automatic).
  `StoredTokenIsGood` excepts it (`overlapped`).
* A refresh response without a refresh token drops the one that stays good (`oauth.rs:76`,
  `plugin.rs:132-134`; the same sentence of `README.md`). `StoredTokenIsGood` counts
  such a token as good (`NoRefresh`).
* Two calls that find the token expired, or both get a 401, present the same refresh
  token, and the second fails although the file has a good one by then
  (`plugin.rs:323-335`, where the comment calls the refresh transparent).

Met while modelling, where the repository says nothing:

* Draining the lead-in ring leaves `pre_speech_total_ms` (`vad.rs:105`): the next ring is
  trimmed by a total that counts frames it no longer holds, and the lead-in is
  shorter than `pre_speech_ms`. The total stays an upper bound, which is why
  `LeadInBounded` holds.
* A send or commit to a dead pump drops the link without `teardown_upstream` (`ws.rs:386`,
  `ws.rs:409`): unread events are lost with the next dial, and the partial of the dead link
  is extended by the deltas of the next (the comment at `ws.rs:704` calls it stale). A
  commit says nothing to the client. `FailureLosesNoText` and `FailureIsReported`
  name the exception.
* A JSON answer without a content type always fails: the chunk that told its kind is
  not put back (`llm.rs:480`). A stream that ends early without an error is taken
  for complete, and `[DONE]` does not end it.
* Pump and read loop can wait for each other (`Crossed`), if more audio messages than a
  channel holds are read in a row while as many events wait. `NothingHangs` names it.
* After a re-initialize that failed or was cut off by the tool timeout a client has
  no session, and every later call of it is refused (`cut`).
* A rotated token whose response is lost or whose saving fails is gone (`mishap`), and a
  server that revokes over a token used twice takes the next one with it (`reused`).
* The start takes a stored token without asking whether it has expired, so that a server
  may stay unlisted until a restart.
* Turns that fail one after another make the history grow, `trim_history` running only
  behind an answer; `HistoryBounded` counts up to the last answer.

### Fairness

Liveness of the connection is checked in batch mode under `Fairness`:

* `SF(Handler)` and `SF(~Waiting(t) /\ Turn(t))`: a task that waits for a lock or a channel slot
  gets it in its turn, tokio's semaphore being first-in-first-out; weak fairness
  would let a client that sends bad messages for ever refill the channel between
  any two polls of a turn. Transcription ends, having a timeout.
* `SF(TurnStops(t))`: an abort takes effect. This is an assumption: a task is dropped when
  it comes to its next await, and a turn that loops in `emit_ready` (the run `spin`) never
  does; `TurnsEnd` and `ConnectionEnds` say nothing of a connection with such a turn.
  A pipeline that is not aborted need not end: a model request has a timeout for connecting and for every read of its
  stream, but none until the answer begins (`llm.rs:453`). `TurnsEnd` therefore assumes
  that no pipeline lasts for ever; `ConnectionEnds` does not.
* `WF(Write \/ WriterEnds)`, `WF(Closed)`: the client reads what it is sent, an assumption
  too, since no write to it is timed.
* `SF(FlushDeadline)`: a timer that is due is one of the branches `select!` picks
  from at random each time round the loop.

`Turns!FairSpec` is weak fairness of the steps the code itself makes sure of: a turn that is
granted the lock takes it (tokio grants it in order, so that weak fairness suffices), and a
turn of an HTTP request goes on outside its model rounds, its sends going to a collector that
reads or is gone, its tool calls having timeouts. Nothing is assumed of a model round,
which lasts while the model is silent or sends, or for ever in the chunker (`spin`); nor of a
turn of a connection, whose sends wait for a client without a limit. `WaitingTurnsEnd` has
both as premises, for every turn: no round lasts for ever (`RoundsEnd`), and no client
stays connected without reading (`ClientsRead`). TLC finds it false without either.

`Answer!FairSpec`: every read of the stream is timed (`WF(Stalls)`), a synthesis has a
timeout, consumer and chunker run by themselves. Nothing is assumed of the request or of
what upstream sends; the model's bound on payloads (`MaxReads`) stands for an
upstream that does not send for ever. `StreamingEnds` begins with the stream for that
reason, and names `Spins`, the state of the `spin` finding, as its exception.

`SttLink!FairSpec`: the dial and every read of the handshake are timed, so that `connect` takes
one step after another (`WF(Handshake)`), of which a read that ignores its message is one;
that the handshake ends is not assumed, and false (`HandshakeIgnores`). A send or
receive that can proceed does (`WF(Command)`, `WF(PassOn \/ Fail)`); `select!` picks among
its ready branches at random, hence `SF(ReadEvent)` and `SF(TakeCommand \/ LinkDropped)`.
That an upstream write ends, the one of the session.update included, is assumed; the code sets
it no limit. `NothingHangs` has two exceptions: a handshake that ignores messages for ever,
and the mutual wait `Crossed`. A pump whose link was dropped ends without either.

`Mcp!FairSpec`: requests, refreshes, calls under the lock and the wait for the redirect have
limits (`Proceeds`, `LoginProceeds`), a put runs by itself, the lock is granted in order
(`SF(ReadContext \/ Lock)`). Nothing is assumed of the servers. `CallsAndLoginsEnd` is about calls
and logins; that the start ends is false (the run `boot`).

Nothing is assumed of what the client sends, of upstream, or of the end of the
connection. `HeldIsFlushed` is satisfied also by speech that stays open: the deadline
is deferred for as long as the segmenter has an utterance open, which a client that
stops sending audio can make last until it speaks or leaves.

## What is proved

Each theorem holds for all values of the constants that satisfy the named
assumptions, without the bounds of the runs.

With `PolicyAssumption` and `ConstantsAssumption`:

* `VadProofs!AlwaysTyped`, `AlwaysWithinLimits`, `CountersAlwaysMeasure`,
  `AlwaysLongEnough` and `LeadInAlwaysBounded`: `Spec => []TypeOK` and the same of
  `OpenWithinLimits`, `CountersMeasureBuffer`, `DeliveredIsLongEnough` and
  `LeadInBounded`: all the run `vad` checks, for every policy (zero limits too), all
  frame lengths and streams of any length. The invariant `IInv` has two parts.
  `LimitsInv`: every branch of `push` ends in `Finalize`, which leaves nothing open
  (`FinalizeClosed`), or in `MaybeCap`, which leaves an utterance open below the cap only
  (`MaybeCapWithin`), with a pause that the branch compared or reset. `BufferInv` says
  what the buffers are: the ring holds the latest frames, silent ones, and its total
  measures no less (`Lead`); an open buffer ends with the latest frame and is measured by
  the counters (`Open`); the utterance that ended last ended before the ring begins and was
  delivered by its length (`Shut`). How much a
  buffer holds is a `Sum`, and what a frame adds to it (`SumOfAppend`,
  `TrailingOfAppend`) or trimming takes from it (`SumOfConcat`, `TotalOfParts`) are lemmas
  about sums of any length. `TrimmedFits` is the lemma about the trimming loop: with a
  total at most a window too large it ends within the window and leaves the end of the
  ring, so that the total, which draining does not reset, does no harm.
* `VadProofs!SegmentsImplemented`: `Spec => ImplementsSegments`, the refinement of
  `Segments`. Frames are numbered; `Numbers` of a buffer that grew is one of the
  segmenter's `Grown` (`BufGrown`, and `LeadGrown` for the lead-in and the frame of speech
  behind it, which begin behind the latest utterance, by `Lead` and `Shut`), and each
  branch of `push` is one of the segmenter's steps (`PushSegments`).
* `ConnectionProofs!TypeCorrect`: `Spec => []TypeOK`. The delicate part is texts:
  `Flowing(S)` says that every text in a handler, held or in the event channel is
  in `S`, and lemmas per group of actions say that it is kept (`InputFlow`,
  `HandlerFlow`, `UpstreamFlow`, combined in `FlowNext`). With `S = Nat` this is the
  type of the pipeline. That every gate step carries a text is part of the type:
  without it a gate could arm a deadline for nothing.
* `ConnectionProofs!HeldHasDeadlineAlways`: `Spec => []HeldHasDeadline`, inductive
  on top of the type.
* `ConnectionProofs!OneTurnAlways`: `Spec => []OneTurn`. The handle is overwritten
  by `DispatchTurn` only when its task is finished, and `AbortTurn` marks the task
  before it lets go of the handle.
* `ConnectionProofs!SessionsAreIsolated`: `Spec => []SessionIsolation`. The
  inductive invariant `Isolated` is `Flowing` with `S` the texts recognised after
  the session started (`Fresh(floor)`), with the same of the running turn's texts
  and its session. `SessionStart` raises `floor` and empties the pipeline in the
  same action; `OneTurnAlways` and the abort make every turn of the old session
  one that was told to stop.
* `ConnectionProofs!FailuresLoseNoText`: `Spec => FailureLosesNoText`. The invariant is
  `ErrorIsLast`: an error in the event channel has nothing behind it, and its pump
  sends no more. The teardown at an error therefore drops an empty channel.
* `ConnectionProofs!TextsAreKept` and `TextsStayInOrder`: `Spec => []EachTextOnce` and
  `Spec => []InOrder`. The inductive invariant `Ordered` says where texts are: those of
  turns come before those held, these before the handler's and these before the event
  channel's, and the refused and discarded ones are in none of these places (`InPlace`,
  by `Placed`). Each place is sorted, and at most one step of a handler's program carries
  texts, with only messages to send before it (`Leading`), so that nothing can overtake.
  A text taken off the channel is the least one there (`Received`); a handler that
  dispatches texts has taken what was held (`TakesHeld`); in batch mode there is no
  channel a new text could pass (`Batch`).
* `ConnectionProofs!RealtimeEndFlushes`: `Spec => []SpeechEndFlushes`, assuming `Realtime`.
  The invariant `FlushAhead`: until the next input, the handler of a `speech.end` has only
  messages, the commit and the flush to do, and the flush is still ahead if anything is held.
  In batch mode the property is false: the transcript of the utterance that `speech.end`
  ends may be held, after all.

With `TurnsAssumption` only (any sets of turns, limits and numbers of calls):

* `TurnsProofs!TurnsNeverMix`: `Spec => []AnswersFollow`. The inductive invariant adds
  that a turn is at an await of `Inside` exactly while it holds the lock (`Exclusive`),
  that a thinking turn's question is the last message and its only one, that a turn
  which has not begun has none, and that a turn past its answer has no question
  without one. `TrimWindow` says what `trim_history` leaves: nothing, or the end of
  the history from a question on; it is what keeps an answer's question in.
* `TurnsProofs!RequestsStayWhole`: `Spec => []RequestsAreWhole`, from the same
  invariant and `RInv`: a thinking turn's copy of the history is the history
  (`UpToDate`, which needs `Exclusive`), the results of a round are those of calls 1, 2,
  ... so far (`ResultsInOrder`), and its finished rounds are whole and as many as
  `round` says (`RoundsWhole`). `RoundAppended` is the lemma about
  `append_tool_round`.
* `TurnsProofs!HistoryStaysBounded`: `Spec => []HistoryBounded`, and
  `TurnsProofs!CompletedStayRemembered`: `Spec => []CompletedIsRemembered`. Both rest on
  `TrimCount`: `trim_history` leaves a history as it is or exactly `max_history_turns`
  questions of it. That it finds the question to begin at is `RankExists` (for every
  n below their number, some question has n before it). The invariant behind the second
  is `Remembered`: the question of a turn past its answer is in the history, or that many
  questions are.
* `TurnsProofs!TurnsAreAtomic`: `Spec => ImplementsConversation`, the refinement of
  `Conversation`. While a turn thinks its question is the last message (`IInv`), so that
  the conversation is the history in front of it (`LogOfHistory`); by the exclusion only
  one turn does. Each step `Means` nothing or the turn of the one that takes it: asking
  stutters, `Answer` adds the exchange, which `trim_history` shortens as `Conversation`
  says (`TrimIsRecent`, from `TrimCount`), and a failure or abort on the way leaves the
  question (`QuietMeans`, `ReleaseMeans`).
* `TurnsProofs!LockStaysWithTheLiving`: `Spec => []LockOfTheLiving`, and `TurnsTyped`:
  `Spec => []TypeOK`. The invariant `LInv` adds to `Exclusive` that the queue is a
  sequence of the waiting turns without repetition, so that taking a turn out of it once
  (`RemoveFirstOfOnce`) leaves nothing of it behind: granting the lock and dropping the
  request of an aborted turn are the same removal.

With `ChunkerAssumption`:

* `ChunkerProofs!NothingIsLost`: `ChunkerSpec => []NothingLost`, inductive on top of
  the types. Every step cuts between the end of the leading blanks and a position
  behind it, and `TakeRange` moves `taken` to where the chunk ends.
* `ChunkerProofs!ChunksAreBounded`: `ChunkerSpec => []LongOnlyForSentence`. A forced cut
  ends within `MaxChars` of the pending text (`FlushFits`), a sentence's cut behind its
  mark and closers (`SentenceFits`), and `emit_ready` leaves nothing behind that is too
  long (`Bounded`), so that what `finish` emits is short.

With `ChunkerAssumption` and `AnswerAssumption`:

* `AnswerProofs!RoundImplementsChunker`: `Spec => ChunkerSpec`, the refinement of the run
  `answer`; with the two theorems above, what holds of the chunker holds of a round
  (`RoundSpeaksText`). The mapping is the identity; what it needs is that what
  `TakeDelta` pushes is a delta that fits, which the invariant `Round` knows from
  `TextFlows`: the text pushed and the delta queued are what upstream sent.
* `AnswerProofs!AnswersAreWhole`: `Spec => []AnswerIsWhole`, from the same invariant and
  `FinishedIsLast`: a finished chunker has an empty queue before it and only blanks
  behind what it cut.
* `AnswerProofs!CallsAreAssembled`: `Spec => []CallsAssembled`. The invariant `CallsInv`
  follows the fragments. While the stream is open they are in the accumulator: slot i
  holds those of index i - 1 in order, and is named by one of them if any names it
  (`SlotsHold`, kept by `AccumulateHolds`, also when a fragment opens a slot far behind
  the last). From its end on there is one sequence of whole calls (`Assembled`) of which a
  part is handed over and the rest is in the queue (`HandsOver`). Between the two is
  `FinishAssembles`: `MapperFinish` lists the named slots by ascending index, all of them
  and each once, which is `RanksEnumerate`.

With `LinkAssumption` (any channel bound above zero, any rates):

* `SttLinkProofs!TypeCorrect`, `RatesAlwaysMatch` and `FailuresAreReported`:
  `TypeOK`, `RatesMatch` and `FailureIsReported`. A pump step is one of eight `Moves` of
  its record. `IInv` adds to the types that a running pump has not failed
  (`RunningIsOk`), that every link but the current one is accounted for (`Accounted`:
  a channel outlives its link only after a failure that was told or silenced), and
  that all commands of a pump are commits or frames of its rate (`LinkRates`): a
  session that changes the rate lets go of the link in the same step.

With `McpAssumption` (any servers, calls and logins):

* `McpProofs!CallsAreBounded`: `OncePerCall`, from a budget of requests and refreshes per
  await and attempt (`Counted`).
* `McpProofs!SessionsAreRenewed`: `SessionIsRenewed`, from the exclusion of the lock
  (`LockHeld`) and of the start (`Booting`: no call before it listens). A server is
  listed after a request that it served, which it does not without its session, and only a
  new session takes it out of `cut` (`SessionMoves`).
* `McpProofs!StoredTokensAreGood`: `StoredTokenIsGood`. Puts are owned by calls and logins
  at `storing` (`PutsOwned`); unless puts overlapped, the one under way is alone, and
  what it writes is the file with one accepted token more, or one that came without a
  refresh token (`PutAlone`, `TokenGood`).

Some of these facts need an induction, over the length of a history, a buffer or the
accumulator. The library's induction theorems take an operator as a parameter and cannot
be used here; `Counting` gets by without them. `LeastExists`: a set of numbers has a least element,
from the well-foundedness of finite sets; `NatSetInduction`: a set of numbers with 0 and,
with each, the next, is all of them; `RankExists` and `RanksEnumerate`: the elements of a
finite set of numbers are the first, the second, ..., the last. The predicate of the
induction is a set, so that the provers can take it. `VadProofs` shows with it that the
recursive function behind `Sum` adds up what it should (`PartialSumsExist`).

With these, every invariant, every action property and every refinement that a passing
run checks is also proved. The properties of the runs that end in a violation
are false and stand under "Where code and documentation disagree". Only model-checked is
liveness (`HeldIsFlushed`, `HandlersEnd`, `TurnsEnd`, `ConnectionEnds`,
`WaitingTurnsEnd`, `StreamingEnds`, `NothingHangs`, `CallsAndLoginsEnd`): the prover has no
rule for `ENABLED`, which fairness is made of.

## What is not modelled, and why

* In `Connection`: the holders of a session's lock that are not its own turns (`Turns` has
  them), messages before `session.start` that do nothing, and the contents of
  messages.
* In `Turns`: `run_audio_utterance`, which only the HTTP audio path calls, with a session
  nobody else has; the prompt; what chunks contain.
* In `SttLink`: `Clear`, which the server never sends; URLs.
* In `Mcp`: allowlists, tool names and the form of results; that names resolve to
  one plugin is a check at the start. Server names are assumed distinct
  (`McpAssumption`); the code does not check it. Servers with a fixed key
  are modelled and not in the instance: they behave as those with a token that is
  always good.
* The Swift clients. To the server a client is any sequence of messages, which is how
  `Connection` takes it. Their own state, the microphone gate and the drain watcher,
  depends on when `AVAudioPlayerNode` calls back and on the order of blocks on the main
  actor, which the code here does not determine; a model would have to invent it. The
  two hazards in it are listed without a property.
* Batch transcription and synthesis are one request each without state; WAV parsing,
  resampling, SSE framing and markup other than fences are conversions; so are the
  built-in plugins. Configuration, binary and deployment have no state that changes.
  They are left to the repository's tests.
