------------------------ MODULE VoicePipelineProofs ------------------------
(***************************************************************************)
(* Proof that the device hears one text provider in an answer, for every   *)
(* number of words and every capacity of the channels.                     *)
(*                                                                         *)
(* The argument follows the words downstream.  As long as the primary has  *)
(* shown no content nothing downstream has words, so it could be anyone's; *)
(* when it has, everything downstream is the primary's and the relay never *)
(* hands over; when the relay hands over first, everything that comes      *)
(* after is the stand-in's.                                                *)
(***************************************************************************)
EXTENDS VoicePipeline, SequenceTheorems, TLAPS

WordsOf(s)  == {w \in Words : w.src = s}
TextsOf(s)  == {e \in [kind : {"content", "reasoning", "notice", "done", "err"},
                       words : Seq(WordsOf(s))] : e.kind # "content" => e.words = <<>>}
ChunksOf(s) == [kind : {"chunk", "err"}, words : Seq(WordsOf(s))]
EventsOf(s) == [kind : {"audio", "done"}, words : Seq(WordsOf(s)), status : Statuses, err : BOOLEAN]

\* everything on its way from the relay to the device is said by s
Downstream(s) ==
  /\ out \in Seq(TextsOf(s)) /\ pending \in Seq(WordsOf(s)) /\ voice \in Seq(WordsOf(s))
  /\ audio \in Seq(ChunksOf(s)) /\ events \in Seq(EventsOf(s)) /\ heard \in Seq(WordsOf(s))

\* whose words the answer may hold
Speaker == IF seen THEN "primary" ELSE "fallback"

\* what the runner is about to pass on is still there
EmitHasChunk == runner = "emit" => audio # <<>>

\* the relay is started once
NotOpened == runner \in {"asr", "open"} => relay = "off"

SourceInv ==
  /\ EmitHasChunk /\ NotOpened
  /\ text \in [Sources -> UNION {Seq(TextsOf(s)) : s \in Sources}]
  /\ \A s \in Sources : text[s] \in Seq(TextsOf(s))
  /\ said \in [Sources -> Nat]
  /\ seen \in BOOLEAN
  /\ status \in Statuses /\ err \in BOOLEAN
  /\ Downstream(Speaker)
  /\ ~seen /\ relay \in {"off", "primary"} => Downstream("primary")
  /\ seen => relay \in {"primary", "closed"}

\* what the operations on sequences give
LEMMA SeqSteps ==
  ASSUME NEW S, NEW q \in Seq(S)
  PROVE  /\ \A e \in S : Append(q, e) \in Seq(S)
         /\ \A r \in Seq(S) : q \o r \in Seq(S)
         /\ q # <<>> => Head(q) \in S /\ Tail(q) \in Seq(S)
<1> QED BY HeadTailProperties, ConcatProperties

\* the segmenter cuts inside its text
LEMMA Cuts ==
  ASSUME NEW S, pending \in Seq(S), NEW i \in NextEnd
  PROVE  SubSeq(pending, 1, i) \in Seq(S) /\ Rest(i) \in Seq(S)
<1>1. i \in 1..Len(pending)
  BY LenProperties DEF NextEnd, Ends
<1>2. \A j \in 1..Len(pending) : pending[j] \in S
  BY ElementOfSeq
<1> QED BY <1>1, <1>2, SubSeqProperties DEF Rest

USE DEF turn, remote, relaying, running, speaking, hearing, Downstream

\* the runner hands on the words it is given and adds none
LEMMA RunnerKeeps ==
  ASSUME NEW s \in Sources, Downstream(s), EmitHasChunk, RunnerStep, status \in Statuses, err \in BOOLEAN
  PROVE  Downstream(s)' /\ status' \in Statuses /\ err' \in BOOLEAN
<1> USE DEF GoOn, Fails, CancelSeen, Statuses
<1>1. CASE RunnerHears
  BY <1>1 DEF RunnerHears
<1>2. CASE RunnerOpens
  BY <1>2 DEF RunnerOpens
<1>3. CASE RunnerReads
  <2>1. Head(out) \in TextsOf(s) /\ Tail(out) \in Seq(TextsOf(s))
    BY <1>3, SeqSteps DEF RunnerReads
  <2>2. Head(out).words \in Seq(WordsOf(s))
    BY <2>1 DEF TextsOf
  <2>3. pending \o Head(out).words \in Seq(WordsOf(s))
    BY <2>2, SeqSteps
  <2>4. /\ pending' \in Seq(WordsOf(s)) /\ out' \in Seq(TextsOf(s))
        /\ status' \in Statuses /\ err' \in BOOLEAN
    BY <1>3, <2>1, <2>3 DEF RunnerReads
  <2> QED BY <1>3, <2>4 DEF RunnerReads
<1>4. CASE RunnerReadsEnd
  BY <1>4 DEF RunnerReadsEnd
<1>5. CASE RunnerFlushes
  BY <1>5 DEF RunnerFlushes
<1>6. CASE RunnerSynthesizes
  <2>1. PICK i \in NextEnd :
          /\ pending' = Rest(i)
          /\ \/ voice' = SubSeq(pending, 1, i) /\ audio' = <<>> /\ UNCHANGED <<status, err>>
             \/ err' = TRUE /\ UNCHANGED <<status, voice, audio>>
    BY <1>6 DEF RunnerSynthesizes
  <2>2. SubSeq(pending, 1, i) \in Seq(WordsOf(s)) /\ Rest(i) \in Seq(WordsOf(s))
    <3>1. pending \in Seq(WordsOf(s))
      OBVIOUS
    <3> QED BY <3>1, Cuts
  <2>3. UNCHANGED <<out, events, heard>>
    BY <1>6 DEF RunnerSynthesizes
  <2>4. <<>> \in Seq(ChunksOf(s))
    BY EmptySeq
  <2> QED BY <2>1, <2>2, <2>3, <2>4
<1>7. CASE RunnerNoSentence
  BY <1>7 DEF RunnerNoSentence
<1>8. CASE RunnerTakesChunk
  <2>1. Tail(audio) \in Seq(ChunksOf(s))
    BY <1>8, SeqSteps DEF RunnerTakesChunk
  <2>2. audio' \in {audio, Tail(audio)} /\ status' \in Statuses /\ err' \in BOOLEAN
    BY <1>8 DEF RunnerTakesChunk
  <2>3. UNCHANGED <<out, pending, voice, events, heard>>
    BY <1>8 DEF RunnerTakesChunk
  <2> QED BY <2>1, <2>2, <2>3
<1>9. CASE RunnerEmits
  <2>1. audio # <<>> => /\ Tail(audio) \in Seq(ChunksOf(s))
                        /\ AudioEvent(Head(audio).words) \in EventsOf(s)
    <3>1. SUFFICES ASSUME audio # <<>>
                   PROVE  /\ Tail(audio) \in Seq(ChunksOf(s))
                          /\ AudioEvent(Head(audio).words) \in EventsOf(s)
      OBVIOUS
    <3>2. Head(audio) \in ChunksOf(s) /\ Tail(audio) \in Seq(ChunksOf(s))
      BY <3>1, SeqSteps
    <3>3. Head(audio).words \in Seq(WordsOf(s))
      BY <3>2 DEF ChunksOf
    <3> QED BY <3>2, <3>3 DEF AudioEvent, EventsOf
  <2>2. events' \in {events, Append(events, AudioEvent(Head(audio).words))}
    BY <1>9 DEF RunnerEmits
  <2>3. audio' = Tail(audio) /\ status' \in Statuses /\ err' \in BOOLEAN
    BY <1>9 DEF RunnerEmits
  <2>4. UNCHANGED <<out, pending, voice, heard>>
    BY <1>9 DEF RunnerEmits
  <2>5. audio # <<>>
    BY <1>9 DEF RunnerEmits, EmitHasChunk
  <2>6. Append(events, AudioEvent(Head(audio).words)) \in Seq(EventsOf(s))
    BY <2>1, <2>5, SeqSteps
  <2> QED BY <2>1, <2>2, <2>3, <2>4, <2>5, <2>6
<1>10. CASE RunnerSpoke
  BY <1>10 DEF RunnerSpoke
<1>11. CASE RunnerEnds
  BY <1>11 DEF RunnerEnds
<1>12. CASE RunnerReports
  <2>1. DoneEvent(status, err) \in EventsOf(s)
    BY EmptySeq DEF DoneEvent, EventsOf
  <2>2. Append(events, DoneEvent(status, err)) \in Seq(EventsOf(s))
    BY <2>1, SeqSteps
  <2>3. events' \in {events, Append(events, DoneEvent(status, err))}
    BY <1>12 DEF RunnerReports
  <2>4. UNCHANGED <<out, pending, voice, audio, heard, status, err>>
    BY <1>12 DEF RunnerReports
  <2> QED BY <2>2, <2>3, <2>4
<1> QED
  BY <1>1, <1>2, <1>3, <1>4, <1>5, <1>6, <1>7, <1>8, <1>9, <1>10, <1>11, <1>12 DEF RunnerStep

\* the TTS turns the words of its sentence into chunks of the same words
LEMMA VoiceKeeps ==
  ASSUME NEW s \in Sources, Downstream(s), VoiceStep
  PROVE  Downstream(s)'
<1>1. CASE VoiceSpeaks
  <2>1. Head(voice) \in WordsOf(s) /\ Tail(voice) \in Seq(WordsOf(s))
    BY <1>1, SeqSteps DEF VoiceSpeaks
  <2>2. Chunk(<<Head(voice)>>) \in ChunksOf(s)
    BY <2>1 DEF Chunk, ChunksOf
  <2>3. Append(audio, Chunk(<<Head(voice)>>)) \in Seq(ChunksOf(s))
    BY <2>2, SeqSteps
  <2> QED BY <1>1, <2>1, <2>3 DEF VoiceSpeaks
<1>2. CASE VoiceEnds
  BY <1>2 DEF VoiceEnds
<1>3. CASE VoiceBreaks
  <2>1. ChunkErr \in ChunksOf(s)
    BY EmptySeq DEF ChunkErr, ChunksOf
  <2>2. Append(audio, ChunkErr) \in Seq(ChunksOf(s))
    BY <2>1, SeqSteps
  <2> QED BY <1>3, <2>2 DEF VoiceBreaks
<1> QED BY <1>1, <1>2, <1>3 DEF VoiceStep

\* the device hears the words of the events
LEMMA ConsumerKeeps ==
  ASSUME NEW s \in Sources, Downstream(s), ConsumerStep
  PROVE  Downstream(s)'
<1>0. events # <<>> => Head(events) \in EventsOf(s) /\ Tail(events) \in Seq(EventsOf(s))
  BY SeqSteps
<1>1. CASE ConsumerAborts
  BY <1>0, <1>1 DEF ConsumerAborts
<1>2. CASE ConsumerHears
  <2>1. Head(events).words \in Seq(WordsOf(s))
    BY <1>0, <1>2 DEF ConsumerHears, EventsOf
  <2>2. heard \o Head(events).words \in Seq(WordsOf(s))
    BY <2>1, SeqSteps
  <2> QED BY <1>0, <1>2, <2>2 DEF ConsumerHears
<1>3. CASE ConsumerWriteFails
  BY <1>0, <1>3 DEF ConsumerWriteFails
<1>4. CASE ConsumerEnds
  BY <1>4 DEF ConsumerEnds
<1> QED BY <1>1, <1>2, <1>3, <1>4 DEF ConsumerStep

\* the runner's step is left only by passing on, and the audio only shrinks there
LEMMA EmitKeeps ==
  ASSUME EmitHasChunk, NEW s \in Sources, Downstream(s), Next
  PROVE  EmitHasChunk'
<1> USE DEF EmitHasChunk, GoOn, Fails, CancelSeen
<1>1. CASE RunnerStep
  BY <1>1 DEF RunnerStep, RunnerHears, RunnerOpens, RunnerReads, RunnerReadsEnd,
     RunnerFlushes, RunnerSynthesizes, RunnerNoSentence, RunnerTakesChunk, RunnerEmits,
     RunnerSpoke, RunnerEnds, RunnerReports
<1>2. CASE VoiceStep
  BY <1>2 DEF VoiceStep, VoiceSpeaks, VoiceEnds, VoiceBreaks
<1>3. CASE UNCHANGED <<runner, audio>>
  BY <1>3
<1>4. CASE RelayStep
  BY <1>3, <1>4 DEF RelayStep, RelayHandsOver, RelayPrimary, RelayNotice, RelayOpens,
     RelayFallback, RelayEnds, RelayCancelled
<1>5. CASE ConsumerStep
  BY <1>3, <1>5 DEF ConsumerStep, ConsumerAborts, ConsumerHears, ConsumerWriteFails, ConsumerEnds
<1>6. ASSUME NEW r \in Sources, ProviderStep(r) PROVE EmitHasChunk'
  BY <1>3, <1>6 DEF ProviderStep, SayContent, SayReasoning, SayDone, SayError, Close
<1> QED BY <1>1, <1>2, <1>3, <1>4, <1>5, <1>6 DEF Next, Cancel, Drop, Over, vars

\* a word that is said is counted in the range of the bound
LEMMA InRange ==
  \A k, m \in Nat : /\ k + 1 <= m => k + 1 \in 1..m
                    /\ k + 2 <= m => k + 1 \in 1..m /\ k + 2 \in 1..m
OBVIOUS

\* what a provider may say in one line is words of its own
LEMMA SaidWords ==
  ASSUME NEW r \in Sources, said[r] \in Nat, NEW words \in Texts(r), said[r] + Len(words) <= MaxText
  PROVE  words \in Seq(WordsOf(r))
<1>1. CASE words = <<>>
  BY <1>1, EmptySeq
<1>0. MaxText \in Nat /\ said[r] \in Nat
  BY CapAssumption
<1>2. ASSUME NEW e \in BOOLEAN, words = <<[src |-> r, n |-> said[r] + 1, ends |-> e]>>
      PROVE  words \in Seq(WordsOf(r))
  <2>0. Len(words) = 1
    BY <1>2
  <2>1. said[r] + 1 <= MaxText
    BY <2>0
  <2>2. said[r] + 1 \in 1..MaxText
    BY <1>0, <2>1, InRange
  <2> QED BY <1>2, <2>2 DEF WordsOf, Words
<1>3. ASSUME NEW e \in BOOLEAN \X BOOLEAN,
             words = <<[src |-> r, n |-> said[r] + 1, ends |-> e[1]],
                       [src |-> r, n |-> said[r] + 2, ends |-> e[2]]>>
      PROVE  words \in Seq(WordsOf(r))
  <2>0. Len(words) = 2
    BY <1>3
  <2>1. said[r] + 2 <= MaxText
    BY <2>0
  <2>2. said[r] + 1 \in 1..MaxText /\ said[r] + 2 \in 1..MaxText
    BY <1>0, <2>1, InRange
  <2> QED BY <1>3, <2>2 DEF WordsOf, Words
<1> QED BY <1>1, <1>2, <1>3 DEF Texts

\* what a provider says is its own, and only content has words
LEMMA ProviderKeeps ==
  ASSUME SourceInv, NEW r \in Sources, ProviderStep(r)
  PROVE  /\ text' \in [Sources -> UNION {Seq(TextsOf(s)) : s \in Sources}]
         /\ \A s \in Sources : text'[s] \in Seq(TextsOf(s))
         /\ said' \in [Sources -> Nat]
<1> USE DEF SourceInv
<1>1. ASSUME NEW e \in TextsOf(r), Says(r, e)
      PROVE  /\ text' \in [Sources -> UNION {Seq(TextsOf(s)) : s \in Sources}]
             /\ \A s \in Sources : text'[s] \in Seq(TextsOf(s))
  <2>1. Append(text[r], e) \in Seq(TextsOf(r))
    BY <1>1, SeqSteps
  <2> QED BY <1>1, <2>1 DEF Says
<1>2. \A k \in {"reasoning", "done", "err"} : TextEvent(k, <<>>) \in TextsOf(r)
  BY EmptySeq DEF TextEvent, TextsOf
<1>3. CASE SayContent(r)
  <2>1. PICK words \in Texts(r) :
          /\ said[r] + Len(words) <= MaxText
          /\ Says(r, TextEvent("content", words))
          /\ said' = [said EXCEPT ![r] = @ + Len(words)]
    BY <1>3 DEF SayContent
  <2>2. words \in Seq(WordsOf(r))
    BY <2>1, SaidWords
  <2>3. TextEvent("content", words) \in TextsOf(r)
    BY <2>2 DEF TextEvent, TextsOf
  <2>4. said' \in [Sources -> Nat]
    <3>1. Len(words) \in Nat
      BY <2>2, LenProperties
    <3>2. said \in [Sources -> Nat]
      OBVIOUS
    <3>3. said' = [said EXCEPT ![r] = @ + Len(words)]
      BY <2>1
    <3> HIDE DEF SourceInv
    <3>4. said[r] + Len(words) \in Nat
      BY <3>1, <3>2
    <3> QED BY <3>2, <3>3, <3>4
  <2> QED BY <1>1, <2>1, <2>3, <2>4
<1>4. CASE SayReasoning(r)
  BY <1>1, <1>2, <1>4 DEF SayReasoning
<1>5. CASE SayDone(r)
  BY <1>1, <1>2, <1>5 DEF SayDone
<1>6. CASE SayError(r)
  BY <1>1, <1>2, <1>6 DEF SayError
<1>7. CASE Close(r)
  BY <1>7 DEF Close
<1> QED BY <1>3, <1>4, <1>5, <1>6, <1>7 DEF ProviderStep

\* the channels of the text providers only lose their heads to the relay
LEMMA TakeKeeps ==
  ASSUME SourceInv, NEW r \in Sources, text[r] # <<>>, TakeText(r)
  PROVE  /\ Head(text[r]) \in TextsOf(r)
         /\ text' \in [Sources -> UNION {Seq(TextsOf(s)) : s \in Sources}]
         /\ \A s \in Sources : text'[s] \in Seq(TextsOf(s))
<1>1. text[r] \in Seq(TextsOf(r))
  BY DEF SourceInv
<1>2. Head(text[r]) \in TextsOf(r) /\ Tail(text[r]) \in Seq(TextsOf(r))
  BY <1>1, SeqSteps
<1> QED BY <1>1, <1>2 DEF SourceInv, TakeText

\* passing an event on keeps the source of what is downstream
LEMMA PassKeeps ==
  ASSUME NEW s \in Sources, Downstream(s), NEW e \in TextsOf(s),
         PassOn(e) \/ UNCHANGED out, UNCHANGED <<pending, voice, audio, events, heard>>
  PROVE  Downstream(s)'
<1>1. Append(out, e) \in Seq(TextsOf(s))
  BY SeqSteps
<1> QED BY <1>1 DEF PassOn

\* an event without words could be anyone's
LEMMA Wordless ==
  ASSUME NEW r \in Sources, NEW e \in TextsOf(r), e.words = <<>>, NEW s \in Sources
  PROVE  e \in TextsOf(s)
BY EmptySeq DEF TextsOf

\* the relay lets the stand-in speak only while the primary has shown no content
LEMMA RelayKeeps ==
  ASSUME SourceInv, RelayStep
  PROVE  SourceInv'
<1>0. ASSUME NEW k \in {"notice", "err"}, NEW s \in Sources
      PROVE  TextEvent(k, <<>>) \in TextsOf(s)
  BY EmptySeq DEF TextEvent, TextsOf
<1>1. UNCHANGED <<said, status, err, runner, audio, pending, voice, events, heard>>
  BY DEF RelayStep, RelayHandsOver, RelayPrimary, RelayNotice, RelayOpens, RelayFallback,
     RelayEnds, RelayCancelled
<1>2. CASE RelayHandsOver
  <2>1. /\ text' \in [Sources -> UNION {Seq(TextsOf(s)) : s \in Sources}]
        /\ \A s \in Sources : text'[s] \in Seq(TextsOf(s))
    BY <1>2, TakeKeeps DEF RelayHandsOver, SourceInv, Sources
  <2> QED BY <1>1, <1>2, <2>1 DEF RelayHandsOver, SourceInv, Speaker, EmitHasChunk, NotOpened, NoContent
<1>3. CASE RelayPrimary
  <2> DEFINE event == Head(text["primary"])
  <2>1. /\ event \in TextsOf("primary")
        /\ text' \in [Sources -> UNION {Seq(TextsOf(s)) : s \in Sources}]
        /\ \A s \in Sources : text'[s] \in Seq(TextsOf(s))
    BY <1>3, TakeKeeps DEF RelayPrimary, Sources
  <2>2. /\ relay = "primary" /\ seen' = Noticed(event)
        /\ PassOn(event) \/ UNCHANGED out
        /\ relay' \in {"primary", "closed"}
    BY <1>3 DEF RelayPrimary
  <2>3. Downstream("primary")
    BY <1>3 DEF SourceInv, Speaker, RelayPrimary
  <2>4. Downstream("primary")'
    BY <1>1, <2>1, <2>2, <2>3, PassKeeps DEF Sources
  <2>5. CASE seen'
    BY <1>1, <2>1, <2>2, <2>4, <2>5 DEF SourceInv, Speaker, EmitHasChunk, NotOpened, Noticed
  <2>6. CASE ~seen'
    <3>1. ~seen /\ event.words = <<>>
      BY <2>1, <2>2, <2>6 DEF Noticed, TextsOf
    <3>2. event \in TextsOf("fallback")
      BY <2>1, <3>1, Wordless DEF Sources
    <3>3. Downstream("fallback")
      BY <3>1 DEF SourceInv, Speaker
    <3>4. Downstream("fallback")'
      BY <1>1, <2>2, <3>2, <3>3, PassKeeps DEF Sources
    <3>5. Downstream(Speaker)'
      BY <2>6, <3>4 DEF Speaker
    <3> QED BY <1>1, <2>1, <2>2, <2>4, <2>6, <3>1, <3>5 DEF SourceInv, EmitHasChunk, NotOpened, Noticed
  <2> QED BY <2>2, <2>5, <2>6 DEF Noticed, SourceInv
<1>4. CASE RelayNotice
  <2>1. ~seen /\ Downstream("fallback")
    BY <1>4 DEF RelayNotice, SourceInv, Speaker
  <2>2. Downstream("fallback")'
    BY <1>0, <1>1, <1>4, <2>1, PassKeeps DEF RelayNotice, Sources
  <2> QED BY <1>1, <1>4, <2>1, <2>2 DEF RelayNotice, SourceInv, Speaker, EmitHasChunk, NotOpened
<1>5. CASE RelayOpens
  <2>1. ~seen /\ Downstream("fallback")
    BY <1>5 DEF RelayOpens, SourceInv, Speaker
  <2>2. Downstream("fallback")'
    BY <1>0, <1>1, <1>5, <2>1, PassKeeps DEF RelayOpens, Sources
  <2> QED BY <1>1, <1>5, <2>1, <2>2 DEF RelayOpens, SourceInv, Speaker, EmitHasChunk, NotOpened
<1>6. CASE RelayFallback
  <2>1. ~seen /\ Downstream("fallback")
    BY <1>6 DEF RelayFallback, SourceInv, Speaker
  <2>2. /\ Head(text["fallback"]) \in TextsOf("fallback")
        /\ text' \in [Sources -> UNION {Seq(TextsOf(s)) : s \in Sources}]
        /\ \A s \in Sources : text'[s] \in Seq(TextsOf(s))
    BY <1>6, TakeKeeps DEF RelayFallback, Sources
  <2>3. Downstream("fallback")'
    BY <1>1, <1>6, <2>1, <2>2, PassKeeps DEF RelayFallback, Sources
  <2> QED BY <1>1, <1>6, <2>1, <2>2, <2>3 DEF RelayFallback, SourceInv, Speaker, EmitHasChunk, NotOpened
<1>7. CASE RelayEnds
  BY <1>1, <1>7 DEF RelayEnds, SourceInv, Speaker, EmitHasChunk, NotOpened
<1>8. CASE RelayCancelled
  <2>1. /\ text' \in [Sources -> UNION {Seq(TextsOf(s)) : s \in Sources}]
        /\ \A s \in Sources : text'[s] \in Seq(TextsOf(s))
    BY <1>8, TakeKeeps DEF RelayCancelled, SourceInv, Sources
  <2> QED BY <1>1, <1>8, <2>1 DEF RelayCancelled, SourceInv, Speaker, EmitHasChunk, NotOpened
<1> QED BY <1>2, <1>3, <1>4, <1>5, <1>6, <1>7, <1>8 DEF RelayStep

\* nothing has been said when the answer starts
LEMMA InitSource == Init => SourceInv
<1> SUFFICES ASSUME Init PROVE SourceInv
  OBVIOUS
<1>1. \A S : <<>> \in Seq(S)
  BY EmptySeq
<1>2. \A s \in Sources : Downstream(s)
  BY <1>1 DEF Init
<1>3. text \in [Sources -> UNION {Seq(TextsOf(s)) : s \in Sources}]
  BY <1>1 DEF Init
<1> QED
  BY <1>1, <1>2, <1>3 DEF Init, SourceInv, Speaker, EmitHasChunk, NotOpened, Sources, Statuses

\* every step keeps the words downstream with one speaker
LEMMA NextSource == SourceInv /\ [Next]_vars => SourceInv'
<1> SUFFICES ASSUME SourceInv, Next PROVE SourceInv'
  BY DEF vars, SourceInv, Speaker, EmitHasChunk, NotOpened
<1>0. Speaker \in Sources /\ Downstream(Speaker)
  BY DEF SourceInv, Speaker, Sources
<1>1. EmitHasChunk'
  BY <1>0, EmitKeeps DEF SourceInv
<1>2. ASSUME UNCHANGED <<text, said, seen>>, relay' = relay \/ (relay = "off" /\ relay' \in {"primary", "notice"}),
             NotOpened', status' \in Statuses, err' \in BOOLEAN,
             \A s \in Sources : Downstream(s) => Downstream(s)'
      PROVE  SourceInv'
  <2>1. Downstream(Speaker)' /\ Speaker' = Speaker
    BY <1>0, <1>2 DEF Speaker
  <2>2. Downstream("primary") => Downstream("primary")'
    BY <1>2 DEF Sources
  <2> QED BY <1>1, <1>2, <2>1, <2>2 DEF SourceInv, Speaker
<1>3. CASE RunnerStep
  <2>1. \A s \in Sources : Downstream(s) => Downstream(s)' /\ status' \in Statuses /\ err' \in BOOLEAN
    BY <1>3, RunnerKeeps DEF SourceInv
  <2>2. UNCHANGED <<text, said, seen>>
    BY <1>3 DEF RunnerStep, RunnerHears, RunnerOpens, RunnerReads, RunnerReadsEnd,
       RunnerFlushes, RunnerSynthesizes, RunnerNoSentence, RunnerTakesChunk, RunnerEmits,
       RunnerSpoke, RunnerEnds, RunnerReports
  <2>3. relay' = relay \/ (RunnerOpens /\ relay' \in {"primary", "notice"})
    BY <1>3 DEF RunnerStep, RunnerHears, RunnerOpens, RunnerReads, RunnerReadsEnd,
       RunnerFlushes, RunnerSynthesizes, RunnerNoSentence, RunnerTakesChunk, RunnerEmits,
       RunnerSpoke, RunnerEnds, RunnerReports
  <2>4. RunnerOpens => relay = "off"
    BY DEF RunnerOpens, NotOpened, SourceInv
  <2>5. NotOpened'
    BY <1>3, <2>3 DEF NotOpened, SourceInv, GoOn, Fails, CancelSeen, RunnerStep, RunnerHears,
       RunnerOpens, RunnerReads, RunnerReadsEnd, RunnerFlushes, RunnerSynthesizes,
       RunnerNoSentence, RunnerTakesChunk, RunnerEmits, RunnerSpoke, RunnerEnds, RunnerReports
  <2> QED BY <1>0, <1>2, <2>1, <2>2, <2>3, <2>4, <2>5
<1>4. CASE VoiceStep
  BY <1>2, <1>4, VoiceKeeps DEF VoiceStep, VoiceSpeaks, VoiceEnds, VoiceBreaks, SourceInv, NotOpened
<1>5. CASE ConsumerStep
  BY <1>2, <1>5, ConsumerKeeps DEF ConsumerStep, ConsumerAborts, ConsumerHears,
     ConsumerWriteFails, ConsumerEnds, SourceInv, NotOpened
<1>6. CASE RelayStep
  BY <1>6, RelayKeeps
<1>7. ASSUME NEW r \in Sources, ProviderStep(r) PROVE SourceInv'
  <2>1. UNCHANGED <<relay, seen, out, runner, pending, status, err, voice, audio, events, heard>>
    BY <1>7 DEF ProviderStep, SayContent, SayReasoning, SayDone, SayError, Close
  <2> QED BY <1>1, <1>7, <2>1, ProviderKeeps DEF SourceInv, Speaker, NotOpened
<1>8. CASE Cancel \/ Drop \/ Over
  BY <1>2, <1>8 DEF Cancel, Drop, Over, vars, SourceInv, NotOpened
<1> QED BY <1>3, <1>4, <1>5, <1>6, <1>7, <1>8 DEF Next

\* What is heard is the speaker's.
LEMMA SourceImpliesOne == SourceInv => OneProvider
<1> SUFFICES ASSUME SourceInv, NEW i \in DOMAIN heard, NEW j \in DOMAIN heard
             PROVE  heard[i].src = heard[j].src
  BY DEF OneProvider
<1>1. heard \in Seq(WordsOf(Speaker))
  BY DEF SourceInv
<1>2. heard[i] \in WordsOf(Speaker) /\ heard[j] \in WordsOf(Speaker)
  BY <1>1, LenProperties, ElementOfSeq
<1> QED BY <1>2 DEF WordsOf

\* The stand-in takes over before the primary's first word or not at all: the
\* relay's contentSeen in forwardFallback's guards decides for everything that
\* run, the TTS and the gateway do with the words later.
THEOREM OneProviderHeard == Spec => []OneProvider
<1>1. Spec => []SourceInv
  BY InitSource, NextSource, PTL DEF Spec
<1> QED BY <1>1, SourceImpliesOne, PTL
=============================================================================
