--------------------------- MODULE VoicePipeline ---------------------------
(***************************************************************************)
(* One answer of the voice pipeline: a text provider and its stand-in      *)
(* stream words through a relay to the runner, which cuts them into        *)
(* sentences, has each one synthesized and passes the audio on to the      *)
(* gateway's turn (internal/providers/voice_pipeline.go,                   *)
(* voice_pipeline_adapters.go, internal/gateway/server.go).                *)
(*                                                                         *)
(* Every actor is a goroutine, every link a bounded channel that its       *)
(* writer closes.  A word knows who said it and whether a sentence ends    *)
(* with it; its audio is one chunk, known by the word.  An event that a    *)
(* goroutine has in its hands counts as still being in the channel.        *)
(***************************************************************************)
EXTENDS Naturals, Sequences

CONSTANTS
  MaxText,  \* bound: words of a text provider
  TextCap,  \* capacity of a text channel
  AudioCap, \* capacity of a TTS channel
  EventCap  \* capacity of the runner's event channel

ASSUME CapAssumption == {MaxText, TextCap, AudioCap, EventCap} \subseteq Nat \ {0}

Sources == {"primary", "fallback"}
Words   == [src : Sources, n : 1..MaxText, ends : BOOLEAN]

\* TextStreamEvent: a notice says that the stand-in has taken over
TextEvent(kind, words) == [kind |-> kind, words |-> words]
TextEvents == [kind : {"content", "reasoning", "notice", "done", "err"}, words : Seq(Words)]

\* VoiceAudioChunk: a word, or the error the stream ends with
Chunk(words) == [kind |-> "chunk", words |-> words]
ChunkErr     == [kind |-> "err", words |-> <<>>]
Chunks == [kind : {"chunk", "err"}, words : Seq(Words)]

\* VoicePipelineStreamEvent; status and err are the result's, with the last one
AudioEvent(words) == [kind |-> "audio", words |-> words, status |-> "none", err |-> FALSE]
DoneEvent(status, err) == [kind |-> "done", words |-> <<>>, status |-> status, err |-> err]
Statuses == {"none", "completed", "cancelled", "failed"}
StreamEvents == [kind : {"audio", "done"}, words : Seq(Words), status : Statuses, err : BOOLEAN]

VARIABLES
  cancelled,  \* turn.ctx.Err() # nil
  current,    \* the turn is still the session's
  provider,   \* each text provider's goroutine
  said,       \* words each has said
  text,       \* each one's channel
  relay,      \* fallbackTextStreamAdapter's goroutine
  seen,       \* its contentSeen
  out,        \* its channel
  runner,     \* run's step
  pending,    \* the segmenter's text
  flushing,   \* the text has ended
  status, err, \* what run returns
  voice,      \* the TTS goroutine: what is left to say of its sentence
  tts,        \* its step
  audio,      \* its channel
  cut,        \* a TTS stream broke off without an error
  events,     \* the runner's channel; closed when the runner is off
  consumer,   \* writeXiaozhiStreamingVoicePipelineAnswer, and how it ended
  heard,      \* the words written to the device
  final       \* finalResult and err at the consumer

turn     == <<cancelled, current>>
remote   == <<provider, said, text>>
relaying == <<relay, seen, out>>
running  == <<runner, pending, flushing, status, err>>
speaking == <<voice, tts, audio, cut>>
hearing  == <<consumer, heard, final>>
vars == <<turn, remote, relaying, running, speaking, events, hearing>>

Init ==
  /\ cancelled = FALSE /\ current = TRUE
  /\ provider = [s \in Sources |-> "off"]
  /\ said = [s \in Sources |-> 0] /\ text = [s \in Sources |-> <<>>]
  /\ relay = "off" /\ seen = FALSE /\ out = <<>>
  /\ runner = "asr" /\ pending = <<>> /\ flushing = FALSE
  /\ status = "failed" /\ err = FALSE
  /\ voice = <<>> /\ tts = "off" /\ audio = <<>> /\ cut = FALSE
  /\ events = <<>>
  /\ consumer = "read" /\ heard = <<>> /\ final = DoneEvent("none", FALSE)

-----------------------------------------------------------------------------
(* The turn, from outside: an interrupt or a closed socket cancels its     *)
(* context; listen.start drops the turn and leaves its context alone.      *)

Cancel ==
  /\ ~cancelled
  /\ cancelled' = TRUE
  /\ UNCHANGED <<current, remote, relaying, running, speaking, events, hearing>>

Drop ==
  /\ current
  /\ current' = FALSE
  /\ UNCHANGED <<cancelled, remote, relaying, running, speaking, events, hearing>>

\* shouldAbortXiaozhiTurn
ShouldAbort == ~current \/ cancelled

-----------------------------------------------------------------------------
(* A text provider: openAICompatibleTextStreamAdapter.streamEvents.        *)

\* what one line of the stream may bring: up to two words, blanks, reasoning
Texts(s) ==
  {<<>>} \cup
  {<<[src |-> s, n |-> said[s] + 1, ends |-> e]>> : e \in BOOLEAN} \cup
  {<<[src |-> s, n |-> said[s] + 1, ends |-> e[1]],
     [src |-> s, n |-> said[s] + 2, ends |-> e[2]]>> : e \in BOOLEAN \X BOOLEAN}

\* sendTextStreamEvent, when it sends
Says(s, event) ==
  /\ Len(text[s]) < TextCap
  /\ text' = [text EXCEPT ![s] = Append(@, event)]

SayContent(s) ==
  /\ provider[s] = "open" /\ said[s] < MaxText
  /\ \E words \in Texts(s) :
       /\ said[s] + Len(words) <= MaxText
       /\ Says(s, TextEvent("content", words))
       /\ said' = [said EXCEPT ![s] = @ + Len(words)]
  /\ UNCHANGED <<turn, provider, relaying, running, speaking, events, hearing>>

SayReasoning(s) ==
  /\ provider[s] = "open"
  /\ Says(s, TextEvent("reasoning", <<>>))
  /\ UNCHANGED <<turn, provider, said, relaying, running, speaking, events, hearing>>

SayDone(s) ==
  /\ provider[s] = "open"
  /\ Says(s, TextEvent("done", <<>>))
  /\ provider' = [provider EXCEPT ![s] = "done"]
  /\ UNCHANGED <<turn, said, relaying, running, speaking, events, hearing>>

\* a refused request, a broken line, a read error
SayError(s) ==
  /\ provider[s] \in {"open", "done"}
  /\ Says(s, TextEvent("err", <<>>))
  /\ provider' = [provider EXCEPT ![s] = "closed"]
  /\ UNCHANGED <<turn, said, relaying, running, speaking, events, hearing>>

\* mutant of Close: a send waits for room in the channel and for nothing else
CloseAtEnd(s) ==
  /\ provider[s] \in {"open", "done"} /\ Len(text[s]) < TextCap
  /\ provider' = [provider EXCEPT ![s] = "closed"]
  /\ UNCHANGED <<turn, said, text, relaying, running, speaking, events, hearing>>

\* the body ends, also before its done; or a send, or the read, saw the cancel
Close(s) ==
  /\ provider[s] \in {"open", "done"}
  /\ provider' = [provider EXCEPT ![s] = "closed"]
  /\ UNCHANGED <<turn, said, text, relaying, running, speaking, events, hearing>>

ProviderStep(s) ==
  SayContent(s) \/ SayReasoning(s) \/ SayDone(s) \/ SayError(s) \/ Close(s)

-----------------------------------------------------------------------------
(* The relay: fallbackTextStreamAdapter.                                   *)

Ended(s) == provider[s] = "closed" /\ text[s] = <<>>

\* mutant of NoContent: an event that fails hands over, whatever was passed on
NoContentYet(event) == event.kind \in {"err", "done"}

\* the primary has failed or finished before its first word
NoContent(event) == event.kind \in {"err", "done"} /\ ~seen

Noticed(event) == seen \/ (event.kind = "content" /\ event.words # <<>>)

\* reasoning is kept back until there is content
Skips(event) == event.kind = "reasoning" /\ ~seen

TakeText(s) == text' = [text EXCEPT ![s] = Tail(@)]

\* mutant of PassOn: the channel is not bounded
PassOnUnbounded(event) == out' = Append(out, event)
PassOn(event) == Len(out) < TextCap /\ out' = Append(out, event)

RelayHandsOver ==
  /\ relay = "primary"
  /\ \/ /\ text["primary"] # <<>> /\ NoContent(Head(text["primary"]))
        /\ TakeText("primary")
     \/ Ended("primary") /\ ~seen /\ UNCHANGED text
  /\ relay' = "notice"
  /\ UNCHANGED <<turn, provider, said, seen, out, running, speaking, events, hearing>>

RelayPrimary ==
  /\ relay = "primary" /\ text["primary"] # <<>> /\ ~NoContent(Head(text["primary"]))
  /\ LET event == Head(text["primary"]) IN
       /\ TakeText("primary")
       /\ seen' = Noticed(event)
       /\ IF Skips(event) THEN UNCHANGED out ELSE PassOn(event)
       /\ relay' = IF event.kind = "err" THEN "closed" ELSE relay
  /\ UNCHANGED <<turn, provider, said, running, speaking, events, hearing>>

\* forwardFallback
RelayNotice ==
  /\ relay = "notice"
  /\ PassOn(TextEvent("notice", <<>>))
  /\ relay' = "open"
  /\ UNCHANGED <<turn, remote, seen, running, speaking, events, hearing>>

\* the stand-in may be missing, or refuse the request
RelayOpens ==
  /\ relay = "open"
  /\ \/ /\ ~cancelled
        /\ provider' = [provider EXCEPT !["fallback"] = "open"]
        /\ relay' = "fallback"
        /\ UNCHANGED out
     \/ /\ PassOn(TextEvent("err", <<>>))
        /\ relay' = "closed"
        /\ UNCHANGED provider
  /\ UNCHANGED <<turn, said, text, seen, running, speaking, events, hearing>>

RelayFallback ==
  /\ relay = "fallback" /\ text["fallback"] # <<>>
  /\ TakeText("fallback")
  /\ PassOn(Head(text["fallback"]))
  /\ UNCHANGED <<turn, provider, said, relay, seen, running, speaking, events, hearing>>

RelayEnds ==
  /\ \/ relay = "primary" /\ Ended("primary") /\ seen
     \/ relay = "fallback" /\ Ended("fallback")
  /\ relay' = "closed"
  /\ UNCHANGED <<turn, remote, seen, out, running, speaking, events, hearing>>

\* sendTextStreamEvent sees the cancel: the event is lost.  A relay that waits
\* for an event finds out with the next one, or when its provider closes.
RelayCancelled ==
  /\ cancelled
  /\ \/ /\ relay \in {"primary", "fallback"} /\ text[relay] # <<>>
        /\ relay = "primary" => ~NoContent(Head(text[relay])) /\ ~Skips(Head(text[relay]))
        /\ TakeText(relay)
     \/ relay \in {"notice", "open"} /\ UNCHANGED text
  /\ relay' = "closed"
  /\ UNCHANGED <<turn, provider, said, seen, out, running, speaking, events, hearing>>

RelayStep ==
  \/ RelayHandsOver \/ RelayPrimary \/ RelayNotice \/ RelayOpens
  \/ RelayFallback \/ RelayEnds \/ RelayCancelled

-----------------------------------------------------------------------------
(* The runner: VoicePipelineRunner.run under RunStream.                    *)

Fails == runner' = "report" /\ err' = TRUE /\ UNCHANGED status

\* applyCancel, at one of run's checks
CancelSeen == cancelled /\ runner' = "report" /\ status' = "cancelled" /\ UNCHANGED err

GoOn(to) == runner' = to /\ UNCHANGED <<status, err>>

\* a transcript is reused or recognised; recognition does not look at the
\* cancel, only the checks before and after it do
RunnerHears ==
  /\ runner = "asr"
  /\ (~cancelled /\ GoOn("open")) \/ CancelSeen \/ Fails
  /\ UNCHANGED <<turn, remote, relaying, pending, flushing, speaking, events, hearing>>

\* the primary is asked; when it refuses or is missing the stand-in is
RunnerOpens ==
  /\ runner = "open"
  /\ \/ /\ ~cancelled /\ GoOn("read")
        /\ \/ relay' = "primary" /\ provider' = [provider EXCEPT !["primary"] = "open"]
           \/ relay' = "notice" /\ UNCHANGED provider
     \/ cancelled /\ Fails /\ UNCHANGED <<relay, provider>>
  /\ UNCHANGED <<turn, said, text, seen, out, pending, flushing, speaking, events, hearing>>

RunnerReads ==
  /\ runner = "read" /\ out # <<>>
  /\ out' = Tail(out)
  /\ LET event == Head(out) IN
     \/ CancelSeen /\ UNCHANGED pending
     \/ /\ ~cancelled
        /\ pending' = pending \o event.words
        /\ CASE event.kind = "err"  -> Fails
             [] event.kind = "done" -> GoOn("tail")
             [] OTHER               -> GoOn("cut")
  /\ UNCHANGED <<turn, remote, relay, seen, flushing, speaking, events, hearing>>

RunnerReadsEnd ==
  /\ runner = "read" /\ relay = "closed" /\ out = <<>>
  /\ GoOn("tail")
  /\ UNCHANGED <<turn, remote, relaying, pending, flushing, speaking, events, hearing>>

RunnerFlushes ==
  /\ runner = "tail"
  /\ \/ CancelSeen /\ UNCHANGED flushing
     \/ ~cancelled /\ GoOn("cut") /\ flushing' = TRUE
  /\ UNCHANGED <<turn, remote, relaying, pending, speaking, events, hearing>>

\* voicePipelineTextSegmenter: where the next sentence ends, if there is one to speak
Ends == {i \in DOMAIN pending : pending[i].ends}

\* mutant of NextEnd: what no sentence ended is never spoken
NextEndUnflushed == {i \in Ends : \A j \in Ends : i <= j}
NextEnd ==
  IF Ends = {} /\ flushing THEN {Len(pending)} \ {0}
  ELSE {i \in Ends : \A j \in Ends : i <= j}

\* mutant of Rest: flushing leaves the text where it is
RestStays(i) == IF flushing THEN pending ELSE SubSeq(pending, i + 1, Len(pending))
Rest(i) == SubSeq(pending, i + 1, Len(pending))

\* synthesizeVoicePipelineSegment; a cancelled turn's sentence is refused
RunnerSynthesizes ==
  /\ runner = "cut"
  /\ \E i \in NextEnd :
       /\ pending' = Rest(i)
       /\ \/ /\ ~cancelled /\ GoOn("speak")
             /\ voice' = SubSeq(pending, 1, i)
             /\ tts' = "open" /\ audio' = <<>>
          \/ Fails /\ UNCHANGED <<voice, tts, audio>>
  /\ UNCHANGED <<turn, remote, relaying, flushing, cut, events, hearing>>

RunnerNoSentence ==
  /\ runner = "cut" /\ NextEnd = {}
  /\ GoOn(IF flushing THEN "end" ELSE "read")
  /\ UNCHANGED <<turn, remote, relaying, pending, flushing, speaking, events, hearing>>

\* an error ends the run; a cancel ends the sentence, and the run at its next check
RunnerTakesChunk ==
  /\ runner = "speak" /\ audio # <<>>
  /\ IF Head(audio).kind = "err" THEN Fails /\ UNCHANGED audio
     ELSE \/ ~cancelled /\ GoOn("emit") /\ UNCHANGED audio
          \/ /\ cancelled /\ audio' = Tail(audio)
             /\ runner' = "cut" /\ status' = "cancelled" /\ UNCHANGED err
  /\ UNCHANGED <<turn, remote, relaying, pending, flushing, voice, tts, cut, events, hearing>>

\* the select of RunStream's emit
RunnerEmits ==
  /\ runner = "emit"
  /\ audio' = Tail(audio)
  /\ \/ /\ Len(events) < EventCap
        /\ events' = Append(events, AudioEvent(Head(audio).words))
        /\ GoOn("speak")
     \/ /\ cancelled
        /\ runner' = "cut" /\ status' = "cancelled"
        /\ UNCHANGED <<err, events>>
  /\ UNCHANGED <<turn, remote, relaying, pending, flushing, voice, tts, cut, hearing>>

RunnerSpoke ==
  /\ runner = "speak" /\ tts = "closed" /\ audio = <<>>
  /\ GoOn("cut")
  /\ UNCHANGED <<turn, remote, relaying, pending, flushing, speaking, events, hearing>>

RunnerEnds ==
  /\ runner = "end"
  /\ \/ CancelSeen
     \/ ~cancelled /\ runner' = "report" /\ status' = "completed" /\ UNCHANGED err
  /\ UNCHANGED <<turn, remote, relaying, pending, flushing, speaking, events, hearing>>

\* emitVoicePipelineStreamDone, and the channel is closed
RunnerReports ==
  /\ runner = "report"
  /\ \/ Len(events) < EventCap /\ events' = Append(events, DoneEvent(status, err))
     \/ cancelled /\ UNCHANGED events
  /\ runner' = "off"
  /\ UNCHANGED <<turn, remote, relaying, pending, flushing, status, err, speaking, hearing>>

RunnerStep ==
  \/ RunnerHears \/ RunnerOpens \/ RunnerReads \/ RunnerReadsEnd \/ RunnerFlushes
  \/ RunnerSynthesizes \/ RunnerNoSentence \/ RunnerTakesChunk \/ RunnerEmits
  \/ RunnerSpoke \/ RunnerEnds \/ RunnerReports

-----------------------------------------------------------------------------
(* One sentence's audio: the streaming TTS adapters' read loops.           *)

VoiceSpeaks ==
  /\ tts = "open" /\ voice # <<>> /\ Len(audio) < AudioCap
  /\ audio' = Append(audio, Chunk(<<Head(voice)>>))
  /\ voice' = Tail(voice)
  /\ UNCHANGED <<turn, remote, relaying, running, tts, cut, events, hearing>>

VoiceEnds ==
  /\ tts = "open" /\ voice = <<>>
  /\ tts' = "closed"
  /\ UNCHANGED <<turn, remote, relaying, running, voice, audio, cut, events, hearing>>

\* a read that fails is an error to DashScope and the end of the audio to
\* Doubao; a cancel is the end of it to both
VoiceBreaks ==
  /\ tts = "open"
  /\ tts' = "closed"
  /\ \/ audio' = Append(audio, ChunkErr) /\ Len(audio) < AudioCap /\ UNCHANGED cut
     \/ UNCHANGED audio /\ cut' = TRUE
  /\ UNCHANGED <<turn, remote, relaying, running, voice, events, hearing>>

VoiceStep == VoiceSpeaks \/ VoiceEnds \/ VoiceBreaks

-----------------------------------------------------------------------------
(* The gateway's turn: writeXiaozhiStreamingVoicePipelineAnswer.           *)

\* once the channel is closed; there is audio in the result exactly when some
\* was heard, the cancelled ones apart
Verdict ==
  IF ~final.err /\ final.status = "completed" /\ heard # <<>> THEN "completed"
  ELSE IF ShouldAbort \/ final.status = "cancelled" THEN "cancelled"
  ELSE IF heard # <<>> THEN "degraded" ELSE "local_fallback"

ConsumerAborts ==
  /\ consumer = "read" /\ events # <<>> /\ ShouldAbort
  /\ consumer' = "cancelled" /\ events' = Tail(events)
  /\ UNCHANGED <<turn, remote, relaying, running, speaking, heard, final>>

ConsumerHears ==
  /\ consumer = "read" /\ events # <<>> /\ ~ShouldAbort
  /\ events' = Tail(events)
  /\ IF Head(events).kind = "audio"
     THEN heard' = heard \o Head(events).words /\ UNCHANGED final
     ELSE final' = Head(events) /\ UNCHANGED heard
  /\ UNCHANGED <<turn, remote, relaying, running, speaking, consumer>>

\* a failed or refused write cancels the turn's context
ConsumerWriteFails ==
  /\ consumer = "read" /\ events # <<>> /\ ~ShouldAbort /\ Head(events).kind = "audio"
  /\ events' = Tail(events)
  /\ consumer' = "write_error" /\ cancelled' = TRUE
  /\ UNCHANGED <<current, remote, relaying, running, speaking, heard, final>>

ConsumerEnds ==
  /\ consumer = "read" /\ events = <<>> /\ runner = "off"
  /\ consumer' = Verdict
  /\ UNCHANGED <<turn, remote, relaying, running, speaking, events, heard, final>>

ConsumerStep == ConsumerAborts \/ ConsumerHears \/ ConsumerWriteFails \/ ConsumerEnds

-----------------------------------------------------------------------------
Returned ==
  /\ provider["primary"] \in {"off", "closed"} /\ provider["fallback"] \in {"off", "closed"}
  /\ relay \in {"off", "closed"} /\ tts \in {"off", "closed"}
  /\ runner = "off" /\ consumer # "read"

\* the answer is over for the gateway, whoever is still left
Over == consumer # "read" /\ cancelled /\ ~current /\ UNCHANGED vars

Next ==
  \/ Cancel \/ Drop
  \/ \E s \in Sources : ProviderStep(s)
  \/ RelayStep \/ RunnerStep \/ VoiceStep \/ ConsumerStep
  \/ Over

\* the goroutines go on; a provider may be silent for ever, but not once the
\* context it reads under is cancelled
Fairness ==
  /\ WF_vars(RelayStep) /\ WF_vars(RunnerStep) /\ WF_vars(ConsumerStep)
  /\ \A s \in Sources : WF_vars(cancelled /\ Close(s))
  /\ WF_vars(cancelled /\ VoiceBreaks)

Spec == Init /\ [][Next]_vars
FairSpec == Spec /\ Fairness
-----------------------------------------------------------------------------
(* Properties.                                                             *)

TypeOK ==
  /\ {cancelled, current, seen, flushing, err, cut} \subseteq BOOLEAN
  /\ provider \in [Sources -> {"off", "open", "done", "closed"}]
  /\ said \in [Sources -> 0..MaxText]
  /\ text \in [Sources -> Seq(TextEvents)] /\ \A s \in Sources : Len(text[s]) <= TextCap
  /\ out \in Seq(TextEvents) /\ Len(out) <= TextCap
  /\ relay \in {"off", "primary", "notice", "open", "fallback", "closed"}
  /\ runner \in {"asr", "open", "read", "tail", "cut", "speak", "emit", "end", "report", "off"}
  /\ pending \in Seq(Words) /\ voice \in Seq(Words) /\ heard \in Seq(Words)
  /\ status \in Statuses
  /\ tts \in {"off", "open", "closed"} /\ audio \in Seq(Chunks) /\ Len(audio) <= AudioCap
  /\ events \in Seq(StreamEvents) /\ Len(events) <= EventCap /\ final \in StreamEvents
  /\ consumer \in {"read", "completed", "cancelled", "degraded", "local_fallback", "write_error"}

\* The device never hears words of two providers in one answer: the stand-in
\* takes over before the primary's first word or not at all, although the
\* hand-over is decided two channels and a segmenter away from the audio.
OneProvider == \A i, j \in DOMAIN heard : heard[i].src = heard[j].src

\* Words are heard in the order they were said, none twice, whatever sentences
\* they are cut into and wherever the answer is broken off.  (AnswerSpec says so
\* of every step.)
SpokenInOrder == \A i, j \in DOMAIN heard : i < j => heard[i].n < heard[j].n

\* An answer reported as completed is every word its provider said, up to a
\* sentence whose audio broke off silently.
CompletedIsWhole ==
  consumer = "completed" /\ ~cut => Len(heard) = said[heard[1].src]

Answer == INSTANCE SpokenAnswer WITH ended <- consumer

\* The pipeline keeps the promises of SpokenAnswer: step by step, words reach the
\* device one at a time, after they were said and before the verdict, and the
\* provider of an answer reported as completed does not go on speaking.
AnswerSpec == Answer!Spec

\* Once the turn's context is cancelled every goroutine of the answer returns,
\* also one that waits for room in a channel nobody reads any more.
CancelReturns == cancelled ~> Returned
=============================================================================
