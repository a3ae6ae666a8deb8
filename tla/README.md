# A21 StackChan Workmate: verification project

TLA+ models of the A21 gateway (`src/internal/gateway` and the packages it
uses), TLC configurations that check them, and TLAPS proofs of their main
theorems. Everything here is read from the Go source; documents are only quoted
where the code disagrees with them. Line numbers are those of the commit in
`src/`; `PROJECT.json` ("map") gives the lines of every definition.

## 1. The system

The gateway is one Go process between small voice devices (StackChan, the stock
"Xiaozhi" firmware), speech and language providers, a professional knowledge
service (V21) and a workspace console. Its core is the Xiaozhi voice socket:
the device streams Opus frames up, the gateway decides when the user has
finished, asks a provider chain for an answer and streams paced Opus frames
down, while the user may interrupt at any time and the host may make the device
speak on its own.

| Component | State | Operations | Hard behaviour |
|---|---|---|---|
| Xiaozhi turn ownership (`server.go` 7825-8322, 8758-9054, 10272-11705, 6053-6189) | `xiaozhiSession`: current turn, turn numbers, cancel contexts and reasons, `ttsStopSent`, `listening`, input cooldown, last downlink; `writeMu` | hello, listen start/stop, abort, touch barge-in, playback report, auto-stop, answer tasks, host say | reader, ingress worker, answers and HTTP handlers interleave; every check may be stale at the write; stops may be lost, doubled or sent for the wrong turn |
| Fast-ack backchannel and paced downlink (`server.go` 10969-11160, 11660-11705; `audio/ratecontroller.go`) | the turn's pacer, its codec, the `answerReady` channel, `ttsStopSent` | delayed fast-ack, stream of answer chunks, pacing with abort checks, pacer reset on cancel | two goroutines speak for one turn; `session.mu`, `writeMu` and the pacer's lock nest in different orders; a failing fast-ack claims the answer's stop |
| Opus ingress (`server.go` 8342-8405, 9066-9458) | frame queue (16), received/processed counts, wake preroll, decoder, VAD | enqueue, drop when full, decode, drain wait, preroll attach, reset | counters that must meet for a drain; frames of an old listen processed in a new one |
| Streaming ASR (`server.go` 8456-8756) | session handle, commit/final/answer flags, partial and final text | start, append, commit, consume events, claim answer, wait for final, cancel | duplicate finals, commit racing abort, events of an old stream |
| Voice pipeline (`providers/voice_pipeline.go`, `voice_pipeline_adapters.go`, `server.go` 10969-11069) | channels between text provider, stand-in relay, runner, TTS and the turn; segmenter text; result status | stream text, take over from a failing provider, cut sentences, synthesize, emit, report | five goroutines, bounded channels, cancellation at any point, failure after half an answer |
| Workspace ledger (`server.go` 3619-4321, 4881-4930) | documents, sources, upload and index jobs, content-addressed files | upload, create, mark, retry, delete, request an index | files change outside the lock; four registries repeat each other; any action on any job |
| Professional access and read records (`server.go` 3387-3446, 4488-4879, 10537-10617, 13860-14010) | device bindings, read records | bind, revoke, restore, delete, decide, query, settle | a map searched in random order, tombstones, answers that come after an abort |
| Socket registry (`server.go` 12758-12806) | sockets by device id | register, unregister, lookup | a closing socket unregisters under an id that changed |
| Realtime bridge `/ws/audio` (`server.go` 12011-12446, 14290-14450) | sessions, provider event loops | open, audio append, barge-in, close | two event loops, close races |
| Ingress VAD (`audio/ingress.go`) | speech/silence counters | frame decisions | thresholds at boundaries |
| V21 adapter (`v21adapter`) | none between calls | query, validate | timeouts, contract validation |
| Runtime guard, agent planner, personality, protocol | none | pure functions | boundaries |
| Firmware checks (`firmwarecheck`) | none between calls | verify, plan | ordering of gates |
| CLI reports and benches (`internal/app`), simulator and console pages, firmware sources and patches | files, HTTP responses | I/O and formatting | none that a model would show |

How they interact: the reader goroutine of a socket calls into turn ownership;
the ingress worker and HTTP handlers call the same session methods; answers run
the voice pipeline and speak through the paced downlink; the streaming ASR's
consumer goroutine starts answers; all writes meet in `writeMu`.

What makes each correct: turn ownership - a turn that lost the downlink is never
heard again, every speech ends with exactly one stop, answers never mix; fast-ack
- it never outlives or silences the answer, no deadlock among the locks; ingress
- a drained queue means all frames were heard, a listen only hears itself;
streaming ASR - one answer per listen, of that listen's words; pipeline - one
provider is heard, in order and whole, and a cancelled answer leaves no
goroutine; ledger - registries and files agree, and what is deleted stays
deleted; professional access - the last word on a device decides, and every read
is accounted for.

## 2. Modules

| Module | Models |
|---|---|
| `TurnWire` | abstract promise of one socket: answers in turn order, nothing of a turn after its cut |
| `XiaozhiTurn` | who owns the downlink: reader, auto-stop, answers, host says |
| `XiaozhiDownlink` | how one turn is spoken: answer and fast ack through the pacer, and how its three locks nest |
| `XiaozhiIngress` | the uplink: frame queue, worker, preroll, counters, drain wait |
| `XiaozhiStreamingASR` | streams, commits, finals and who starts the answer |
| `SpokenAnswer` | abstract promise of one answer: words of one speaker in its order, then a verdict that is true of them |
| `VoicePipeline` | one answer between its providers: text, relay, sentences, audio, report |
| `WorkspaceLedger` | uploads, jobs, documents, sources, index jobs and their files |
| `ProfessionalAccess` | device bindings, the decision, the query and its read record |
| `...Proofs` | the theorems about each of the seven |
| `VoicePipelineOrderProofs` | more about the pipeline: order, types and capacities, wholeness, refinement |
| `MC...` | each of the seven for TLC: sessions, sets, symmetry |

`XiaozhiTurn` implements `TurnWire`: `Wire == INSTANCE TurnWire WITH ...` maps its
wire, the newest turn heard and the cut turns, and `WireSpec` is both a property
of a run and a theorem. In the same way `VoicePipeline` implements `SpokenAnswer`
(`Answer`, `AnswerSpec`): what the providers have said, what the device heard,
the consumer as verdict, and `cut`; goroutines and channels are gone.

The first four component modules describe the same session from four sides, and
each keeps the others' state only as far as it needs it: the current turn is in
all of them, the writes are `XiaozhiTurn`'s and `XiaozhiDownlink`'s, the drain
wait is `XiaozhiIngress`'s, one step in `XiaozhiTurn` and `XiaozhiStreamingASR`.
`VoicePipeline` opens up what is one step, the provider chain, in `XiaozhiTurn`,
and takes from it that the turn may be cancelled or dropped at any moment;
`ProfessionalAccess` does so with the professional answer's query. The ledger is
reached only over HTTP and shares nothing with a session.

In every module one critical section of a lock is one action, a handler that
takes the lock several times is several actions in the code's order, and
variables carry the names of the Go fields (shortened where a prefix says
nothing). Operators called "mutant of X" are plausible bugs of X; no
specification uses them, they serve to see each property fail.

### 2.1 `XiaozhiTurn`

Variables are the fields of `xiaozhiSession`, the program counters of the
goroutines, and what the device has seen (`wire`, `heard`, `speaking`,
`silenced`, `stops`; these are history and never guard a step).

* `ListenStart`, `ForcedStop`, `ListenNewTurn`, `ListenOn`, `ListenArm`,
  `ListenResetStop` are one `listen.start`.
* A message is `Acquire` (take `writeMu`, check ownership) and then a write;
  `Refused` and `WriteFails` are the error paths. `ForcedStop` checks nothing,
  as in `writeXiaozhiTTSStopForce`.
* An answer goroutine is a slot of `Tasks`: drain wait, `tts.start`, provider
  chain, `sentence_start`, chunks (check, pacer and write, mark), stop.
  Professional slots speak their checking phrase first and treat a failed
  downlink differently, as `writeXiaozhiProfessionalTTS` does. A say handler is
  a slot of `Sayers`.
* `lastDownlink` is `lastDownlinkTurnID` while the turn may still be playing
  (inside the interrupt window and not reported drained).
* Cancel reasons are abstracted to none, the user's (`xiaozhiUserInterruptReason`
  accepts it) and other; payloads to the number of audio chunks left.

Left out: `stt` captions, official StackChan state frames, traces, identity
fields, and `listen.detect`, `mcp` and error replies, none of which touches turn
state.

### 2.2 `XiaozhiDownlink`

One turn, two voices: the streaming answer and the fast ack, each with a program
counter and the message it is writing. `sessionMu`, `writeMu` and `pacerMu` name
the holder of each lock. `session.mu` is held across a step only by
`cancelXiaozhiTurnContext`, which resets the pacer inside; every other use needs
it free for one action. Time is `Tick`: `slot` counts frame slots since the
pacer started its clock, `elapsed` the same for the device.

Merged steps: the ownership check and the write under `writeMu` are one action
(`XiaozhiTurn` shows what can happen between them), and `AudioRateController`'s
first abort check is part of `writeXiaozhiOpusDownlink`'s own. The socket stays
up.

An inline fast ack that cannot be decoded writes the stop of its turn, and the
answer goes on behind it (section 5): `NothingAfterStop` is checked, and proved,
for inline acks that decode.

### 2.3 `XiaozhiIngress`

A turn and the queue made for it share a number. `received` and `processed` are
the two counters of the drain wait; `lost` is history, the counted frames no
worker will process. Each queue's worker takes, decodes, observes, perhaps
auto-stops, and counts; a new listen starts a new queue and worker and cancels
the old worker, which may still finish its frame. A frame carries the turn it
arrived in, preroll frames none. The VAD's verdict, the decoder's success and
the moment of a cooldown are choices. The path of `handleXiaozhiBinary` that
decodes in the reader is not reached: there is a queue whenever the session
listens.

### 2.4 `XiaozhiStreamingASR`

A turn and the stream of its listen share a number. Each stream has a consumer
goroutine, each stopped turn at most one committer; both call
`maybeStartXiaozhiStreamingASRFinalAnswer` (`LookAtSession`, `ClaimAnswer`,
`FinalAnswers`), and a stop without a stream answers by itself (`StopAnswers`).
`mail` is a final on its way from the provider, `answers` and `words` the answers
started for the current turn and what they were given. `SpokenOnce` is stated for
at most two listens: section 5 says what a third one does. `Cancel` of a stream,
which follows the unlock, is part of the action that forgets it. Partials are
left out (they set flags and a trace), and so is the append of frames.

### 2.5 `VoicePipeline`

One answer: each text provider, the relay (`fallbackTextStreamAdapter`), the
runner (`RunStream`), the TTS goroutine of the current sentence and the consumer
(`writeXiaozhiStreamingVoicePipelineAnswer`) are goroutines with a step each, and
`text`, `out`, `audio`, `events` are the channels between them. A goroutine that
holds an event keeps it at the head of its channel until it is done with it,
which only makes the channel shorter by one. A send on a full channel waits, or
sees the cancel; a `select` with both open takes either. A word carries its
provider, its number and whether a sentence ends with it (a boundary rune or the
40-rune limit); its audio is one chunk.

`Cancel` is `cancelXiaozhiTurnContext`, `Drop` a turn that is no longer current
without being cancelled. `cut` remembers that the audio of a sentence ended early
and without an error.

Left out: the blocking variant without `emit` (one sentence), the frames of a
batch ASR, partial-driven answers, timing and report fields.

### 2.6 `WorkspaceLedger`

The four maps under `s.mu`, and the directory of content-addressed files. A job,
its source and its document are made in one critical section and share a number.
A content stands for a path (user, workspace, scope, SHA-256). `StoreFile` (write
and rename, no lock) and `RecordUpload` (under `s.mu`) are two actions of an
uploader; every other handler is one. `os.Remove` may fail, and a new process
starts with any files in the directory and no records, since the maps are not
persisted: `strays` are these files. `bytesOf` is history.

Every action is allowed on every job, as in `applyWorkspaceUploadJobAction`.

### 2.7 `ProfessionalAccess`

`bindings` is the map, and whatever iterates over it chooses with `\E`. A query
starts a read record, decides, asks V21, and settles: the page
(`executeProfessionalQuery`) and a spoken turn (`writeXiaozhiProfessionalTTS`)
take the same steps, but only a spoken one (`Spoken`) can be aborted, which turns
its result into "suppressed". `word` is history: the scopes last granted to a
pair and not withdrawn. `raised` is history too: the deleted records that someone
restored or revoked by id.

### 2.8 Runs

| Run | Instance | Shows |
|---|---|---|
| `listen` | 2 answers, 2 turns, 1 chunk that may be undecodable, repeated hello | channel refinement, one voice and one stop per turn, silence while listening, stops name the speaking turn |
| `live` | 1 professional answer, 2 turns | interrupts are written, Speaking ends, goroutines return |
| `preempt` | 1 answer, 1 say with a leaving client, ingress worker | the ownership invariant |
| `professional_fault` | 1 professional answer, undecodable audio | Speaking may never end (section 5) |
| `voices` | no, inline or delayed fast ack, 3 chunks; 2 interrupts unless the ack is delayed | pacing, nothing after a stop, interrupts heard, speech stops, goroutines return |
| `ack_deadlock` | delayed fast ack, 2 interrupts | an interrupt may never be carried out (section 5) |
| `listens` | 1 listen of 4 frames, with and without resets, or 2 listens of 2 frames; queue of 2, preroll of 1 | order, no frame heard twice, a drained queue was heard, stops are answered |
| `asr_listens` | 1 listen that either side stops, or 2 with failing starts and commits | one answer, no orphaned stream, no utterance answered twice, stops and finals are answered |
| `asr_early` | 1 listen, a provider that finishes by itself | a final may never be answered (section 5) |
| `pipeline` | 2 providers of 2 words, channels of 1 | one provider, whole, refinement of `SpokenAnswer` (and with it the order); a cancelled answer returns |
| `ledger` | 2 contents, 2 uploaders, 3 jobs, 2 index jobs | registries and files agree, deleted stays deleted |
| `bindings` | 3 bindings, 2 devices, 1 workspace, 2 scopes, 1 spoken query | the decision follows the last word, read records end |

A run that puts several sessions side by side chooses one in `Init`: `Plans` (a
set of records in the variable `plan`) says how many listens and frames come and
which faults, `Interrupts` how many interrupts for each set-up of the fast ack
(`mode`). The choice is made once and never changes; the code knows nothing of
it, it bounds the environment. A property that holds only for some sessions
says for which: those formulas start with the plan.

Bounds. `MaxTurns` 2 lets every turn be preempted once by another; ownership is
a relation between one turn and its successor. `MaxChunks` 1 lets a turn be cut
before, during and after its audio, 0 is enough where the property is about
starts and stops, and three chunks on the pacer with a prebuffer of one give two
waits in a row. Two slots of a kind let two goroutines meet in every pair of
steps; `stops` counts to two; slots are symmetric. Two interrupts in
`XiaozhiDownlink` let the second meet the first's leftovers. A queue of two
(the code has 16) with four frames overflows, and a preroll of one with two
frames is trimmed. Two listens are an old and a new one; nothing relates three.
In the pipeline a channel of one (the code has 8 for text and 4 for audio and events) is full with the
first event, so every send can block; two words make one sentence of two, two of
one, or a sentence and a rest to flush, and let a provider fail between its
words. In the ledger two uploads of one content and one of another fit three
jobs, and the second index job may be of a document that was asked for before.
Three bindings give a pair a tombstone, a successor and another device's
binding; the properties relate a query to its pair only, so one query is enough.

Fairness. Weak fairness of the internal steps of reader, workers and goroutines,
each on its own: the Go scheduler runs every runnable goroutine, and Go's
mutexes do not starve a waiter. `Tick` is fair because time passes. In
`XiaozhiIngress` nothing is assumed of the workers (the drain wait has a
limit), in `XiaozhiStreamingASR` the provider answers a commit. In the pipeline a
provider, text or TTS, may be silent for ever, but its goroutine ends once the
context it reads under is cancelled; nothing makes anybody cancel. A professional query
comes back because its context has a timeout (`v21TTL`). The ledger is only
asked for safety. Nothing is assumed of the device, the user, HTTP clients, the
network, or how long a cooldown lasts. A write that blocks for ever on a live
socket is not modelled (the websocket library's concern).

Deadlock is checked everywhere. In `XiaozhiTurn` a session may only end with its
socket closed, its reader returned and every goroutine idle (`SessionOver`); in
`XiaozhiStreamingASR` and `XiaozhiIngress` the socket may be quiet (`Quiet`); in
`VoicePipeline` nothing more comes once the consumer has left a cancelled turn
(`Over`); in `XiaozhiDownlink` time always passes, and in the two ledgers
somebody may always ask for something, so there a stuck actor is found by
liveness.

## 3. Proofs

`XiaozhiTurnProofs` proves, for all values of the constants:

* `TypeCorrect`: `Spec => []TypeOK`.
* `OwnershipHolds`: `Spec => []Ownership`.
* `WriteMuSafe`: `Spec => []HolderMayWrite`.
* `ImplementsTurnWire`: `Spec => WireSpec`.

The inductive invariant is `IInv == TypeOK /\ Ownership`. `HolderMayWrite` (who
holds `writeMu` past its check speaks for a turn that was not cut, and no newer
turn was heard) is what the refinement needs; it is not inductive alone. It
rests on `OwnerIsNewest` (only the newest turn is current, a cut turn never is,
and a turn the reader is about to cut is not current any more), on
`HolderIsWriting` (the holder is between check and write, so its turn cannot
change under it) and on `NumbersBounded` (turn numbers handed out so far). A
forced stop is written only when nobody holds `writeMu`, so it never silences
the turn of a holder. Assumed: `SlotAssumption` (slots of different kinds
differ) and `BoundAssumption`. `TypeOK` is split by prover: Boolean flags go to
Zenon, the rest to SMT.

The same module proves what holds of a session in which only the device decides
when a listen ends and when an answer starts, for any number of answers, turns
and chunks:

* `OneVoice`: `Spec => []OneVoicePerTurn`.
* `OneStop`: `Spec => []OneStopPerAnswer`.
* `StopEndsTheAnswer`: `Spec => NothingAfterStop`.
* `SilentWhileListening`: `Spec => []NoSpeechWhileListening`.
* `StopsNameTheirSpeaker`: `Spec => StopNamesSpeaker`.

Their hypotheses are `Vad = FALSE` (no auto-stop by the ingress worker) and
`Sayers = {}` (no host say), and for the last one `ProfessionalTasks = {}`. They
are not there for the prover's sake: with an auto-stop two goroutines may answer
one turn, with a say the device speaks while it listens, and a professional
answer whose audio cannot be written cancels its own turn and ends without a
stop; section 5 tells how, and these are the hypotheses under which run `listen`
checks the properties. The invariant is `DeviceAlone`: `IInv`; a goroutine per
turn at most (`OneVoicePerTurn`); what the reader knows between the steps of a
listen (`ListenSteps`: a turn that is listened to has no voice yet, and while the
reader cuts a turn none is current); a stopped turn has no voices left unless it
was cut (`StopIsLast`), the stop of the turn being answered or listened to is
still to claim (`StopUnclaimed`), it is claimed and written under one hold of
`writeMu` (`ClaimHolds`), and `writeMu` is held for the current turn or for the
one the reader is about to cut, never while the session listens
(`HolderIsCurrent`). `SpeechInv` adds what the device hears: it speaks for the
turn heard last (`SpeakerHeard`), and that turn has somebody who is going to stop
it: its voice, the reader, or the one whose stop is being written
(`SpeakingIsStopped`); the current turn's context is not done (`CurrentLives`).

`XiaozhiDownlinkProofs` proves `PacingInvHolds` (`Spec => []PacingInv`) and
`DownlinkPaced` (`Spec => []Paced`): the device never gets more than `Prebuffer`
frames ahead of real time, for every answer, every mode of the fast ack, and any
number of interrupts. `Paced` compares what the device got with time that
passed, while the code compares the pacer's own count with its own clock;
`PacingInv` ties the two together: a voice inside `Send` holds the pacer's lock
(`SendHoldsPacer`), so nobody else changes count or clock under it; the count is
the device's, but for one frame between write and mark (`CountIsTrue`), until a
cancel resets it; a reset happens only for a cancelled turn
(`ResetIsCancelled`), which writes no further frame; and a frame under way has
its slot behind it (`FrameIsDue`). Assumed: `LimitAssumption`.

`DownlinkTypes` proves `TypeOK` by way of `BoundInv`: an answer that goes on to a
chunk has one (`ChunkLeft`), so the device gets no more frames than there were
(`FramesBounded`) and the pacer counts no more than that (`CountBelow`). `NothingFollowsStop` proves
`NothingAfterStop`: an inline ack speaks only while the answer waits for it
(`AckIsOver`), and breaks off only when the turn is lost (`AckStopIsLost`), so
whatever has written a stop leaves nobody who may still write (`StopIsLast`).
Its hypothesis is that an inline ack decodes (section 5).

`XiaozhiIngressProofs` proves `IngressTyped`, `DrainedIsHeard` (`Spec =>
[]DrainedMeansHeard`) and `InOrderHeard` (`Spec => []HeardInOrder`), for any queue
and preroll limits and any sessions. The wait of `listen.stop` looks at two
counters, the property speaks of the queue and the worker's hands: `Counted` ties
them together (received = processed + pending + lost in an undisturbed listen,
and nothing comes after the stop). Order needs the whole route of a frame:
`Sorted` (queue, preroll and frames each increase), `FramesFirst` (what was heard
is below what the worker holds, and that is below the queue) and `NothingYet`
(nothing is queued before the preroll is attached); `Lone` says that one listen
has one queue. Lemmas about sorted sequences under append, tail and
concatenation are proved first. `FramesHeardOnce` (`Spec => []HeardOnce`) holds
for any number of listens: a frame is in one place of its route at a time and
there once (`EachSingle`, `PlacesApart`, `HandsApart`), and only frames that came
are anywhere (`KnownFrames`). Assumed: `LimitAssumption`, `PlanAssumption`.

`XiaozhiStreamingASRProofs` proves `StreamingTyped`, `NoStreamLeaks` (`Spec =>
[]NoOrphanStream`, for any number of listens: a stream is opened only when the
session holds none, `Starting`) and `AnsweredOnce` (`Spec => []OneAnswer`):
consumer and committer both try to claim, and a stop without a stream answers by
itself. `OneListen` says why they exclude each other: a claim needs a commit that
was started (`Claimed`), a commit was started by the stop that then does not
answer (`Committed`, `Answered`), and a goroutine on its way to the answer is the
only one and holds the flag (`Tasked`). `SpokenInOneTurn` (`Spec =>
[]SpokenOnce`) is about two listens and all their interleavings. `TwoListens`
says which turns and streams there are yet (`Counted`) and what the first listen
finds unset (`Begun`); that only the commit of its own stop brings the first
stream's final, once, and that it is on its way or stored, never both (`Heard1`);
that one goroutine at most is on its way to an answer (`OneTask`); and that once
turn 1 was answered from its own words nobody can use them again (`Spoken1`). Its hypothesis is a provider that does not finish a stream
before its commit (`EarlyFinals = FALSE`), as in the run; section 5 has the other
case, and that of a third listen.

`VoicePipelineProofs` proves `OneProviderHeard` (`Spec => []OneProvider`), for any
lengths and capacities. `SourceInv` says that everything between the relay and
the device (channel, segmenter, sentence, audio, events, what was heard) is said
by one `Speaker`, the primary if the relay has `seen` content of it, the stand-in
otherwise; before either has spoken all of it is empty of words, and `seen`
never becomes true once the stand-in is asked.

`VoicePipelineOrderProofs` goes on from there. `WordsInOrder` (`Spec =>
[]SpokenInOrder`): the seven places a word passes, from what was heard back to
its provider's channel, are lined up (`Places`), the words of a provider rise
within each place and from place to place (`OrderOf`), and every step moves words
from the upper end of one place to the lower end of the next, or loses them
(`Shift`, `Loss`); lemmas say what append, tail, concatenation and a cut do to
the numbers in a sequence. `PipelineTypes` (`Spec => []TypeOK`) adds the
capacities of all channels (`Bounds`).

`CompleteAnswers` (`Spec => []CompletedIsWhole`) is the converse of the order: not
that nothing is heard twice or too early, but that nothing is missing. Its
invariant, `Wholeness`, follows an answer to its end:

* As long as nothing has broken the answer off (`Live`), every word said is in one
  of the seven places (`NothingLost`). This is where every step matters that
  drops something: the relay's hand-over and skipped reasoning drop events
  without words, and a sentence may only be followed by the next one when its
  audio is used up (`Sentences`: a voice that closed has said all or left an
  error in the channel, which ends the run).
* The places empty in turn. A done is the last event with words of its provider
  and of the relay (`Dones`), the relay closes its channel only behind the end of
  its provider, an error or a cancel (`RelayEnded`), nobody speaks who was not
  asked (`Asked`), so the channels are empty when the runner flushes, and what
  the flush leaves without a sentence end is spoken too (`Flushed`,
  `NoEndIsEmpty`).
* A run that completes has therefore put every word into its events, and the
  consumer that finds them empty has heard every word (`Delivered`); only such a
  run's last event says "completed" (`Reported`).

With the order, the numbers heard are exactly `1..said`, and rise, so there are
that many (`RisingCounts`, from the cardinality of a bijection).

`ImplementsSpokenAnswer` (`Spec => AnswerSpec`) puts the three together, and adds
what only a step can show: a word is heard after it was said, one at a time, never
after the verdict, and the provider of a completed answer adds nothing to it. One
lemma per abstract step: `SayRefines` (the speaker of a whole answer is quiet),
`HearRefines` (the order after the step gives place and number of the new word;
`OneByOne` says that a chunk and an audio event are one word),
`VerdictRefines` (the three verdicts and what was heard). Assumed by all of these:
`CapAssumption`.
`SpokenInOrder` is what the run checks as part of `AnswerSpec`.

`WorkspaceLedgerProofs` proves `LedgerTyped`, `RegistriesAgree` (`Spec =>
[]LedgerAgrees`), `BytesMatch` (`Spec => []BytesAccounted`) and `GoneForGood`
(`Spec => DeletedForGood`), for any contents, uploaders and numbers of jobs.
`LedgerInv` adds to the properties that numbers not handed out are untouched
(`Fresh`) and that an upload on its way has its file unless another has the same
bytes (`UploadHasFile`). Assumed: `BoundAssumption`, `ContentAssumption`.

`ProfessionalAccessProofs` proves `AccessTyped` and `LastWordDecides` (`Spec =>
DecisionFollows`). The decision looks at the first binding it meets, the property
at the history of what was granted: `WordsKept` says that a pair has at most one
live binding and that it grants the last word, as long as nobody has touched a
deleted one. Assumed: the four named assumptions of the module.

Each proof has one step per action; a step that needs more than one leaf is
split by the conjunct it disturbs.

## 4. What is only model-checked

Liveness (`InterruptIsWritten`, `SpeakingEnds`, `EveryVoiceEnds`,
`InterruptHeard`, `SpeechStops`, `VoicesEnd`, the two `StopIsAnswered`,
`FinalIsAnswered`, `CancelReturns`, `RecordsEnd`) is out of the prover's reach.

Everything else is a theorem: each invariant and each action property of a passing
run is stated by one. Some of them speak of less than every run of the code, and
their hypotheses or definitions say so: the theorems that rest on `DeviceAlone`
assume its instance (`Vad`, `Sayers`, `ProfessionalTasks`), `NothingFollowsStop`
assumes `AckDecodes` and `SpokenInOneTurn` assumes `EarlyFinals = FALSE`;
`OneAnswer`, `DrainedMeansHeard` and `HeardInOrder` speak of one listen and
`SpokenOnce` of two. Section 5 says what happens beyond them. Fairness is an
assumption of the runs that check liveness and of nothing that is proved.

## 5. Disagreements found

Three have a run and an entry in `PROJECT.json` ("findings"):

* `professional_fault`: undecodable professional speech cancels its turn before
  the stop, which is then suppressed; the device stays in Speaking
  (`server.go:10752`). Host speech does the same (`server.go:6172`).
* `ack_deadlock`: an answer that breaks off cancels its context, holding
  `session.mu`, and resets the pacer; a delayed fast ack inside `Send` holds the
  pacer's lock and waits for `session.mu` (`server.go:8171`). The reader, and
  with it the socket, is stuck behind them.
* `asr_early`: a final that comes after `listen.stop` and before the commit is
  not answered by the consumer, and the commit fails on the stream the adapter
  has closed (`server.go:8685`).

The others were met while the instances above were chosen, which leave out what
leads to them; they follow from the code by these steps:

* An interrupt within three seconds of another stops the same turn again, since a
  forced stop neither sets `ttsStopSent` nor clears `lastDownlinkTurnID`
  (`server.go:11617`); an interrupted frame that is marked late has the same
  effect (`server.go:11696`).
* `listen.stop` clears `listening` in a later critical section than it reads it
  (`server.go:8907`): an auto-stop in between answers the same turn, and the
  second answer's speech may never be stopped.
* A host say speaks into the open microphone (`server.go:6113`), and a user's
  interrupt between a frame's check and its write is reported as a delivery
  failure (`server.go:6154`).
* A fast ack that cannot be encoded writes the turn's stop before the answer
  (`server.go:11146`), and one whose timer fired speaks although the answer is
  ready (`server.go:11094`).
* A frame that passed the stale check before a new listen began is appended to
  the new turn (`server.go:9240`), and its deferred count lands in the new
  counters (`server.go:9235`), so a drain may be reported with a frame still
  queued. Preroll and dropped frames are counted as received and never as
  processed (`server.go:9369`, `9161`), so the wait runs into its limit.
* A late final of the stream before is stored in the new session
  (`server.go:8543`), may claim the new turn before it listens
  (`server.go:8887`), and answers it beside the batch answer when the new stream
  did not start (`server.go:8351`). A stop past its check may commit the stream
  of the next listen (`server.go:9192`).
* What was said in one listen may be answered in two turns. `commitStarted`
  outlives its listen until the next one resets the stream, so a late final that
  was already answered from may claim a third listen's turn between its start and
  that reset (`server.go:8887`); with a provider that finishes streams by itself
  the second listen's turn is enough. Hence the bounds of `SpokenOnce`.

In the voice pipeline, the workspace ledger and the professional access:

* A read error of the Doubao TTS closes the audio channel without an error event
  (`voice_pipeline_adapters.go:959`): a sentence broken off in its middle counts
  as spoken and the answer as completed. `CompletedIsWhole` excepts it (`cut`).
* Files are named by content: deleting one document removes the file of another
  upload of the same content, which still says `stored_local`
  (`server.go:3794`); an index request for it is then refused.
  `StoredHasFile` therefore speaks of contents uploaded once.
* `mark_searchable` makes the source of any upload "searchable" although nothing
  was indexed (`server.go:4264`); the plan
  `docs/plans/2026-06-04-workspace-document-upload-intake.md` lists exactly this
  as `F-WORKSPACE-DOCUMENT-UPLOAD-FALSE-SEARCHABLE`. A retry or a mark after an
  index request leaves document and index job at "indexing_requested" while the
  job says otherwise (`server.go:4274`); `LedgerAgrees` relates what is stored,
  not these statuses.
* A deleted binding stays in the map and the decision takes whichever record of
  the device it meets first (`server.go:4830`): after delete and bind a bound
  device is refused now and then, while
  `docs/engineering/A21_CURRENT_CONTROL.md:2021` lets bound devices query.
  `DecisionFollows` says that only such a tombstone can refuse a granted scope.
* `restore` and `revoke` accept the id of a deleted binding (`server.go:4582`):
  restored beside a newer one, the device has two live records, and revoking one
  leaves the other to allow. `DecisionFollows` leaves such pairs out (`raised`).
* A decision is not looked at again after V21 has answered (`server.go:13909`):
  a device revoked meanwhile still gets its answer.
* Bindings live in memory only: after a restart no binding is configured and
  every device may query (`server.go:4813`). Files of uploads stay, without
  records (`strays`).

## 6. Not modelled

* Realtime bridge `/ws/audio` (`server.go` 12011-12120, 12261-12446,
  14290-14450). No provider in the repository satisfies `RealtimeVoiceProvider`,
  so what a session may do, and when, is not in the source; a model would check
  assumptions of its own. Its races are between bookkeeping steps under one lock:
  a session is looked up and created in two steps, a session whose pump has
  returned stays in the map, a pump may set the active stream after a barge-in
  has cleared it, and a barge-in drops the stream without cancelling the session.
* Socket registry: a map under one mutex; what can go wrong (a socket that
  unregisters under an id changed meanwhile) is one interleaving, listed as a
  hazard.
* Ingress VAD, agent planner, runtime guard, personality, protocol envelopes,
  frame builders, wake-word status, metrics: no interleaving and no state that
  the models above tell apart. The VAD's verdict is a choice in `XiaozhiTurn` and
  `XiaozhiIngress`, which covers every threshold.
* V21 adapter and provider clients: one request and one answer per call. The
  models take the outcomes (answer, error, timeout, silence) as choices.
* Device body control: MCP messages sent with delays to a device that does not
  confirm them; what a scene promises is physical.
* Firmware checks, command line, reports, benches, simulator and console pages,
  scripts: one-shot programs and text. They are most of the repository's lines.
* Firmware: the device is an environment that may send any message.
* The composition of `XiaozhiIngress` with `XiaozhiStreamingASR`, and of
  `XiaozhiTurn` with `XiaozhiDownlink` and `VoicePipeline`: each pair shares the
  current turn, which each module lets change at any time the other would change
  it; their product is beyond TLC at bounds that would show anything new.
