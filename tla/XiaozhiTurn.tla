---------------------------- MODULE XiaozhiTurn ----------------------------
(***************************************************************************)
(* Turn ownership on one Xiaozhi voice socket (internal/gateway/server.go).*)
(*                                                                         *)
(* One reader goroutine serves the device's messages in order.  Answers    *)
(* run in goroutines of their own ("tasks"), host speech in the goroutines *)
(* of HTTP handlers ("sayers"), and the ingress worker may end a listen by *)
(* itself.  They share the session: its fields are read and written under  *)
(* session.mu, one critical section per action here, and every frame goes  *)
(* to the device under session.writeMu, which "writer" holds.              *)
(*                                                                         *)
(* A goroutine that speaks for turn t checks that t still owns the         *)
(* downlink once it holds writeMu, and only then writes; the reader may    *)
(* cancel t between the two.  An interrupt writes its stop without a check.*)
(***************************************************************************)
EXTENDS Naturals, FiniteSets

CONSTANTS
  Tasks,              \* slots for answer goroutines
  ProfessionalTasks,  \* the slots that run the professional (V21) answer
  Sayers,             \* concurrent POST /v1/xiaozhi/say handlers
  NoOne,              \* nobody holds writeMu
  MaxTurns,           \* bound: turns started in one behaviour
  MaxChunks,          \* bound: audio chunks in one answer
  Vad,                \* the ingress worker may auto-stop a listen
  Faults,             \* provider audio may be undecodable
  Rehello,            \* the device may say hello again on the same socket
  ClientLeaves        \* the HTTP client of a say may go away before it ends

Speakers == Tasks \cup Sayers
Turns    == 1..MaxTurns

ASSUME SlotAssumption ==
  /\ Tasks \cap Sayers = {}
  /\ ProfessionalTasks \subseteq Tasks
  /\ NoOne \notin Tasks \cup Sayers
ASSUME BoundAssumption == MaxTurns \in Nat /\ MaxChunks \in Nat
ASSUME SwitchAssumption == {Vad, Faults, Rehello, ClientLeaves} \subseteq BOOLEAN

VARIABLES
  \* fields of xiaozhiSession, guarded by session.mu
  hello,            \* helloReceived
  current,          \* id of currentTurn, 0 when nil
  nextTurnID,
  cancelled,        \* turns whose context is done
  reason,           \* class of each turn's cancelReason
  ttsStopSent,
  listening,
  suppressedListen, \* suppressedListenActive
  cooldown,         \* now < inputCooldownUntilMS
  lastDownlink,     \* lastDownlinkTurnID while inside the interrupt window
                    \* and not reported drained by the device, else 0
  hasSpeech,        \* voicePipelineHasSpeech
  \* the socket
  open,
  writer,           \* holder of session.writeMu between check and write
  \* the reader goroutine
  rpc,              \* its next step
  stopTurn,         \* turn named by the forced stop it is about to write
  afterStop,        \* its next step after that stop
  \* the ingress worker: one frame in flight
  frameStage, frameTurn,
  \* answer and say goroutines
  pc, turnOf, outcome, left,
  \* what the device and the HTTP client have seen
  wire,             \* last message written: its kind and its turn
  heard,            \* turn of the last guarded message written
  speaking,         \* turn whose tts start has no stop yet, 0 when none
  silenced,         \* turns a forced stop was written for
  stops             \* tts stops written per turn, counted up to two

wireVars    == <<wire, heard, speaking, silenced, stops>>
turnVars    == <<current, nextTurnID, cancelled, reason>>
readerVars  == <<rpc, stopTurn, afterStop>>
ingressVars == <<frameStage, frameTurn, hasSpeech>>
speakerVars == <<pc, turnOf, outcome, left>>
listenVars  == <<hello, listening, suppressedListen, cooldown>>
sessionVars == <<turnVars, listenVars, ttsStopSent, lastDownlink>>
socketVars  == <<wireVars, open, writer>>
inputVars   == <<readerVars, ingressVars>>
vars == <<sessionVars, socketVars, inputVars, speakerVars>>

Reasons  == {"none", "user", "other"}
Outcomes == {"none", "checking", "completed", "unavailable", "error", "aborted"}
WritePCs == {"start", "sentence", "frame"}
PCs      == {"idle", "drain", "reset", "run", "speak", "mark", "broken", "judge",
             "stop", "claim", "stopWrite", "after", "finish"} \cup WritePCs
Wires    == [kind : {"none", "answer", "stop", "cut"}, turn : 0..MaxTurns]
ReaderPCs == {"idle", "stopping", "newTurn", "listenOn", "arm", "resetStop",
              "stopListen", "abort", "closed"}

Init ==
  /\ hello = FALSE /\ current = 0 /\ nextTurnID = 0
  /\ cancelled = {} /\ reason = [t \in Turns |-> "none"]
  /\ ttsStopSent = FALSE /\ listening = FALSE
  /\ suppressedListen = FALSE /\ cooldown = FALSE /\ lastDownlink = 0
  /\ hasSpeech = FALSE /\ open = TRUE /\ writer = NoOne
  /\ rpc = "idle" /\ stopTurn = 0 /\ afterStop = "idle"
  /\ frameStage = "none" /\ frameTurn = 0
  /\ pc = [p \in Speakers |-> "idle"] /\ turnOf = [p \in Speakers |-> 0]
  /\ outcome = [p \in Speakers |-> "none"] /\ left = [p \in Speakers |-> 0]
  /\ wire = [kind |-> "none", turn |-> 0] /\ heard = 0
  /\ speaking = 0 /\ silenced = {}
  /\ stops = [t \in Turns |-> 0]

-----------------------------------------------------------------------------
(* Session helpers: each is one critical section of session.mu.            *)

\* shouldAbortXiaozhiTurn
Aborted(t) == current # t \/ t \in cancelled

\* cancelXiaozhiTurnContext: the turn stays current
CancelContext(t) ==
  /\ cancelled' = cancelled \cup {t}
  /\ reason' = [reason EXCEPT ![t] = "other"]
  /\ UNCHANGED <<current, nextTurnID>>

\* mutant of StartTurn: the nil check of the running turn is missing
StartTurnNil ==
  /\ cancelled' = cancelled \cup {current}
  /\ reason' = [t \in Turns |-> IF t = current THEN "other" ELSE reason[t]]
  /\ nextTurnID' = nextTurnID + 1
  /\ current' = nextTurnID + 1

\* startXiaozhiTurn: the running turn is cancelled, the new one owns the downlink
StartTurn ==
  /\ cancelled' = cancelled \cup ({current} \ {0})
  /\ reason' = [t \in Turns |-> IF t = current THEN "other" ELSE reason[t]]
  /\ nextTurnID' = nextTurnID + 1
  /\ current' = nextTurnID + 1

\* completeXiaozhiTurn
CompleteTurn(t) == current' = IF current = t THEN 0 ELSE current

\* a listen start that has yet to take its turn id keeps one in reserve
ListenPending == rpc = "newTurn" \/ (rpc = "stopping" /\ afterStop = "newTurn")

\* prepareXiaozhiListenStartBargeIn(why), then "next", by way of a forced
\* stop when there is a turn to stop
PrepareBargeIn(why, next) ==
  \/ /\ ttsStopSent
     /\ current' = 0
     /\ rpc' = next
     /\ UNCHANGED <<nextTurnID, cancelled, reason, stopTurn, afterStop>>
  \/ /\ ~ttsStopSent /\ current # 0
     /\ cancelled' = cancelled \cup {current}
     /\ reason' = [reason EXCEPT ![current] = why]
     /\ current' = 0
     /\ rpc' = "stopping" /\ stopTurn' = current /\ afterStop' = next
     /\ UNCHANGED nextTurnID
  \/ /\ ~ttsStopSent /\ current = 0
     /\ IF lastDownlink # 0
        THEN rpc' = "stopping" /\ stopTurn' = lastDownlink /\ afterStop' = next
        ELSE rpc' = next /\ UNCHANGED <<stopTurn, afterStop>>
     /\ UNCHANGED turnVars

IdleTasks == {q \in Tasks : pc[q] = "idle"}

\* a goroutine for turn t starts at step "at"
Spawn(q, t, at) ==
  /\ pc' = [pc EXCEPT ![q] = at]
  /\ turnOf' = [turnOf EXCEPT ![q] = t]
  /\ UNCHANGED <<outcome, left>>

-----------------------------------------------------------------------------
(* The reader goroutine.                                                   *)

Receive == open /\ rpc = "idle"

\* hello, also when the device sends it again: the current turn is kept
Hello ==
  /\ Receive
  /\ hello => Rehello
  /\ hello' = TRUE /\ listening' = FALSE /\ suppressedListen' = FALSE
  /\ ttsStopSent' = FALSE /\ hasSpeech' = FALSE
  /\ UNCHANGED <<turnVars, socketVars, readerVars, speakerVars, frameStage, frameTurn,
                 cooldown, lastDownlink>>

\* listen start inside an input cooldown: the session is only drained
ListenStartSuppressed ==
  /\ Receive /\ hello /\ cooldown
  /\ listening' = FALSE /\ suppressedListen' = TRUE /\ hasSpeech' = FALSE
  /\ UNCHANGED <<turnVars, socketVars, readerVars, speakerVars, frameStage, frameTurn,
                 hello, cooldown, ttsStopSent, lastDownlink>>

ListenStart ==
  /\ Receive /\ hello /\ ~cooldown
  /\ nextTurnID < MaxTurns
  /\ PrepareBargeIn("user", "newTurn")
  /\ UNCHANGED <<listenVars, socketVars, ingressVars, speakerVars, ttsStopSent,
                 lastDownlink>>

ListenNewTurn ==
  /\ rpc = "newTurn"
  /\ StartTurn
  /\ rpc' = "listenOn"
  /\ UNCHANGED <<listenVars, socketVars, ingressVars, speakerVars, ttsStopSent,
                 stopTurn, afterStop, lastDownlink>>

ListenOn ==
  /\ rpc = "listenOn"
  /\ listening' = TRUE
  /\ rpc' = "arm"
  /\ UNCHANGED <<turnVars, socketVars, ingressVars, speakerVars, hello,
                 suppressedListen, cooldown, ttsStopSent, stopTurn, afterStop,
                 lastDownlink>>

\* ingress reset, new queue, wake preroll attached (it may hold speech)
ListenArm ==
  /\ rpc = "arm"
  /\ hasSpeech' \in BOOLEAN
  /\ rpc' = "resetStop"
  /\ UNCHANGED <<sessionVars, socketVars, speakerVars, frameStage, frameTurn,
                 stopTurn, afterStop>>

ListenResetStop ==
  /\ rpc = "resetStop"
  /\ ttsStopSent' = FALSE
  /\ rpc' = "idle"
  /\ UNCHANGED <<turnVars, listenVars, socketVars, ingressVars, speakerVars, stopTurn,
                 afterStop, lastDownlink>>

\* listen stop: the listening flag is read here and cleared in ListenStopClear
ListenStop ==
  /\ Receive /\ hello /\ listening
  /\ IdleTasks # {}
  /\ rpc' = "stopListen"
  /\ UNCHANGED <<sessionVars, socketVars, ingressVars, speakerVars, stopTurn,
                 afterStop>>

\* mutant of ListenStopClear: the listening flag is left set
ListenStopKept ==
  /\ rpc = "stopListen"
  /\ rpc' = "idle"
  /\ IF current = 0
     THEN UNCHANGED speakerVars
     ELSE \E q \in IdleTasks : Spawn(q, current, "drain")
  /\ UNCHANGED <<turnVars, socketVars, ingressVars, hello, listening, suppressedListen,
                 cooldown, ttsStopSent, stopTurn, afterStop, lastDownlink>>

ListenStopClear ==
  /\ rpc = "stopListen"
  /\ listening' = FALSE
  /\ rpc' = "idle"
  /\ IF current = 0
     THEN UNCHANGED speakerVars
     ELSE \E q \in IdleTasks : Spawn(q, current, "drain")
  /\ UNCHANGED <<turnVars, socketVars, ingressVars, hello, suppressedListen, cooldown,
                 ttsStopSent, stopTurn, afterStop, lastDownlink>>

ListenStopIgnored ==
  /\ Receive /\ hello /\ ~listening
  /\ suppressedListen
  /\ suppressedListen' = FALSE /\ cooldown' = TRUE
  /\ UNCHANGED <<turnVars, socketVars, inputVars, speakerVars, hello, listening,
                 ttsStopSent, lastDownlink>>

Abort ==
  /\ Receive /\ hello
  /\ listening' = FALSE
  /\ rpc' = "abort"
  /\ UNCHANGED <<turnVars, socketVars, ingressVars, speakerVars, hello,
                 suppressedListen, cooldown, ttsStopSent, stopTurn, afterStop,
                 lastDownlink>>

\* an abort says why, or it is the stop button's and does not
AbortPrepare ==
  /\ rpc = "abort"
  /\ \E why \in {"user", "other"} :
       /\ PrepareBargeIn(why, "idle")
       /\ cooldown' = (cooldown \/ why = "other")
  /\ UNCHANGED <<socketVars, ingressVars, speakerVars, hello, listening,
                 suppressedListen, ttsStopSent, lastDownlink>>

TouchBargeIn ==
  /\ Receive /\ hello
  /\ PrepareBargeIn("user", "idle")
  /\ UNCHANGED <<listenVars, socketVars, ingressVars, speakerVars, ttsStopSent,
                 lastDownlink>>

\* the device reports that playback has drained
PlaybackStopDone ==
  /\ Receive /\ hello
  /\ lastDownlink # 0
  /\ lastDownlink' = 0
  /\ UNCHANGED <<turnVars, listenVars, socketVars, inputVars, speakerVars,
                 ttsStopSent>>

CountStop(t) == stops' = [stops EXCEPT ![t] = IF @ < 2 THEN @ + 1 ELSE 2]

\* mutant of ForcedStop: writeMu is not taken
ForcedStopUnlocked ==
  /\ rpc = "stopping"
  /\ IF open
     THEN /\ wire' = [kind |-> "cut", turn |-> stopTurn]
          /\ CountStop(stopTurn)
          /\ silenced' = silenced \cup {stopTurn}
          /\ speaking' = 0
     ELSE UNCHANGED <<wire, stops, silenced, speaking>>
  /\ rpc' = afterStop /\ stopTurn' = 0 /\ afterStop' = "idle"
  /\ UNCHANGED <<sessionVars, ingressVars, speakerVars, heard, open, writer>>

\* writeXiaozhiTTSStopForce: no ownership check, no claim
ForcedStop ==
  /\ rpc = "stopping" /\ writer = NoOne
  /\ IF open
     THEN /\ wire' = [kind |-> "cut", turn |-> stopTurn]
          /\ CountStop(stopTurn)
          /\ silenced' = silenced \cup {stopTurn}
          /\ speaking' = 0
     ELSE UNCHANGED <<wire, stops, silenced, speaking>>
  /\ rpc' = afterStop /\ stopTurn' = 0 /\ afterStop' = "idle"
  /\ UNCHANGED <<sessionVars, ingressVars, speakerVars, heard, open, writer>>

\* conn.Read fails and handleXiaozhiWS returns
ReaderExit ==
  /\ ~open /\ rpc = "idle"
  /\ rpc' = "closed"
  /\ UNCHANGED <<sessionVars, socketVars, ingressVars, speakerVars, stopTurn,
                 afterStop>>

ReaderStep == \/ ListenNewTurn \/ ListenOn \/ ListenArm \/ ListenResetStop
              \/ ListenStopClear \/ AbortPrepare \/ ForcedStop \/ ReaderExit

DeviceMessage == \/ Hello \/ ListenStartSuppressed \/ ListenStart \/ ListenStop
                 \/ ListenStopIgnored \/ Abort \/ TouchBargeIn \/ PlaybackStopDone

-----------------------------------------------------------------------------
(* The ingress worker.                                                     *)

\* handleXiaozhiBinary queues a frame together with the turn it belongs to
FrameQueued ==
  /\ Vad /\ Receive /\ hello /\ listening /\ frameStage = "none"
  /\ frameStage' = "queued" /\ frameTurn' = current
  /\ UNCHANGED <<sessionVars, socketVars, readerVars, speakerVars, hasSpeech>>

\* a frame whose turn was cancelled is dropped; the check is not repeated
FrameChecked ==
  /\ frameStage = "queued"
  /\ frameStage' = IF frameTurn \in cancelled THEN "none" ELSE "decoding"
  /\ frameTurn' = 0
  /\ UNCHANGED <<sessionVars, socketVars, readerVars, speakerVars, hasSpeech>>

FrameAppended ==
  /\ frameStage = "decoding"
  /\ frameStage' = "appended"
  /\ hasSpeech' \in {hasSpeech, TRUE}
  /\ UNCHANGED <<sessionVars, socketVars, readerVars, speakerVars, frameTurn>>

\* the frame ends speech (or the listen is too long): whoever is current is stopped
AutoStop ==
  /\ frameStage = "appended"
  /\ hasSpeech /\ listening /\ current # 0
  /\ \E q \in IdleTasks : Spawn(q, current, "start")
  /\ listening' = FALSE
  /\ frameStage' = "none"
  /\ UNCHANGED <<turnVars, socketVars, readerVars, frameTurn, hasSpeech, hello,
                 suppressedListen, cooldown, ttsStopSent, lastDownlink>>

NoAutoStop ==
  /\ frameStage = "appended"
  /\ frameStage' = "none"
  /\ UNCHANGED <<sessionVars, socketVars, readerVars, speakerVars, frameTurn,
                 hasSpeech>>

IngressStep == FrameChecked \/ FrameAppended \/ AutoStop \/ NoAutoStop

-----------------------------------------------------------------------------
(* Goroutines that speak for a turn.                                       *)

GoTo(p, to) == pc' = [pc EXCEPT ![p] = to]

\* the goroutine is over and its slot free
Return(p) ==
  /\ GoTo(p, "idle")
  /\ turnOf' = [turnOf EXCEPT ![p] = 0]
  /\ outcome' = [outcome EXCEPT ![p] = "none"]
  /\ left' = [left EXCEPT ![p] = 0]

\* one message on the socket; every writer but the forced stop checks first
Send(k, p) == /\ wire' = [kind |-> k, turn |-> turnOf[p]]
              /\ heard' = turnOf[p]

\* r.Context() of a say is done: its writes fail, its pacer stops waiting
RequestGone(p) == /\ p \in Sayers
                  /\ turnOf[p] \in cancelled /\ reason[turnOf[p]] = "none"

\* POST /v1/xiaozhi/say: the turn takes over whatever was running
SayBegin(h) ==
  /\ h \in Sayers /\ pc[h] = "idle"
  /\ open /\ hello
  /\ nextTurnID + (IF ListenPending THEN 1 ELSE 0) < MaxTurns
  /\ StartTurn
  /\ GoTo(h, "reset")
  /\ turnOf' = [turnOf EXCEPT ![h] = nextTurnID + 1]
  /\ \E n \in 0..MaxChunks :
       /\ left' = [left EXCEPT ![h] = n]
       /\ outcome' = [outcome EXCEPT ![h] = IF n = 0 THEN "unavailable" ELSE "completed"]
  /\ UNCHANGED <<listenVars, socketVars, inputVars, ttsStopSent, lastDownlink>>

SayResetStop(h) ==
  /\ h \in Sayers /\ pc[h] = "reset"
  /\ ttsStopSent' = FALSE
  /\ GoTo(h, "start")
  /\ UNCHANGED <<turnVars, listenVars, socketVars, inputVars, turnOf, outcome, left,
                 lastDownlink>>

\* the HTTP client goes away: the turn's parent context is done
SayClientGone(h) ==
  /\ ClientLeaves /\ h \in Sayers /\ pc[h] # "idle"
  /\ turnOf[h] \notin cancelled
  /\ cancelled' = cancelled \cup {turnOf[h]}
  /\ UNCHANGED <<listenVars, socketVars, inputVars, speakerVars, current, nextTurnID,
                 reason, ttsStopSent, lastDownlink>>

\* after the ingress drain (or its 300 ms limit) the stopped turn is answered
DrainDone(p) ==
  /\ pc[p] = "drain"
  /\ IF Aborted(turnOf[p])
     THEN Return(p)
     ELSE GoTo(p, "start") /\ UNCHANGED <<turnOf, outcome, left>>
  /\ UNCHANGED <<sessionVars, socketVars, inputVars>>

\* where a goroutine goes when a guarded write is refused or fails
AfterFailedWrite(p) == IF pc[p] = "frame" THEN "broken" ELSE "finish"
OutcomeOfFailedWrite(p) ==
  CASE pc[p] = "frame" -> "error"
    [] pc[p] = "sentence" /\ p \in Tasks ->
         IF left[p] > 0 \/ p \in ProfessionalTasks THEN "error" ELSE "none"
    [] OTHER -> IF p \in Sayers THEN "unavailable" ELSE "none"

FailWrite(p) ==
  /\ GoTo(p, AfterFailedWrite(p))
  /\ outcome' = [outcome EXCEPT ![p] = OutcomeOfFailedWrite(p)]
  /\ UNCHANGED <<turnOf, left>>

\* mutant of Acquire: ownership is not checked under writeMu
AcquireUnchecked(p) ==
  /\ pc[p] \in WritePCs \cup {"stop"}
  /\ writer = NoOne
  /\ writer' = p
  /\ IF pc[p] = "stop" THEN GoTo(p, "claim") ELSE UNCHANGED pc
  /\ UNCHANGED <<sessionVars, wireVars, inputVars, turnOf, outcome, left, open>>

\* writeMu is taken and the turn still owns the downlink
Acquire(p) ==
  /\ pc[p] \in WritePCs \cup {"stop"}
  /\ writer = NoOne /\ ~Aborted(turnOf[p])
  /\ writer' = p
  /\ IF pc[p] = "stop" THEN GoTo(p, "claim") ELSE UNCHANGED pc
  /\ UNCHANGED <<sessionVars, wireVars, inputVars, turnOf, outcome, left, open>>

\* mutant of Refused: returns without releasing writeMu
RefusedKeepsLock(p) ==
  /\ pc[p] \in WritePCs /\ writer = NoOne /\ Aborted(turnOf[p])
  /\ FailWrite(p)
  /\ writer' = p
  /\ UNCHANGED <<sessionVars, wireVars, inputVars, open>>

\* writeMu is taken, the turn does not own the downlink any more
Refused(p) ==
  /\ pc[p] \in WritePCs /\ writer = NoOne /\ Aborted(turnOf[p])
  /\ FailWrite(p)
  /\ UNCHANGED <<sessionVars, socketVars, inputVars>>

WriteFails(p) ==
  /\ pc[p] \in WritePCs /\ writer = p
  /\ ~open \/ RequestGone(p)
  /\ writer' = NoOne
  /\ FailWrite(p)
  /\ UNCHANGED <<sessionVars, wireVars, inputVars, open>>

WriteStart(p) ==
  /\ pc[p] = "start" /\ writer = p /\ open
  /\ writer' = NoOne
  /\ Send("answer", p) /\ speaking' = turnOf[p]
  /\ IF p \in ProfessionalTasks
     THEN /\ outcome' = [outcome EXCEPT ![p] = "checking"]
          /\ \E n \in 0..MaxChunks : left' = [left EXCEPT ![p] = n]
     ELSE UNCHANGED <<outcome, left>>
  /\ GoTo(p, IF p \in Tasks \ ProfessionalTasks THEN "run" ELSE "sentence")
  /\ UNCHANGED <<sessionVars, inputVars, silenced, stops, turnOf, open>>

\* the provider chain answers, or fails before or after some audio; the
\* professional chain runs after its checking phrase
RunProvider(p) ==
  /\ p \in Tasks /\ pc[p] = "run"
  /\ \/ /\ Aborted(turnOf[p])
        /\ GoTo(p, "finish")
        /\ UNCHANGED <<outcome, left>>
     \/ \E n \in 0..MaxChunks, o \in {"completed", "unavailable"} :
          /\ n = 0 /\ p \notin ProfessionalTasks => o = "unavailable"
          /\ left' = [left EXCEPT ![p] = n]
          /\ outcome' = [outcome EXCEPT ![p] = o]
          /\ GoTo(p, "sentence")
  /\ UNCHANGED <<sessionVars, socketVars, inputVars, turnOf>>

WriteSentence(p) ==
  /\ pc[p] = "sentence" /\ writer = p /\ open
  /\ writer' = NoOne
  /\ Send("answer", p)
  /\ GoTo(p, "speak")
  /\ UNCHANGED <<sessionVars, inputVars, speaking, silenced, stops, turnOf, outcome,
                 left, open>>

NextChunk(p) ==
  /\ pc[p] = "speak" /\ left[p] > 0 /\ ~Aborted(turnOf[p])
  /\ GoTo(p, "frame")
  /\ UNCHANGED <<sessionVars, socketVars, inputVars, turnOf, outcome, left>>

\* one of the checks before the pacer's send finds the turn aborted, or the
\* provider's audio cannot be encoded
ChunkLost(p) ==
  /\ pc[p] = "speak" /\ left[p] > 0
  /\ \/ Aborted(turnOf[p]) /\ outcome' = [outcome EXCEPT ![p] = "aborted"]
     \/ (Faults \/ RequestGone(p)) /\ outcome' = [outcome EXCEPT ![p] = "error"]
  /\ GoTo(p, "broken")
  /\ UNCHANGED <<sessionVars, socketVars, inputVars, turnOf, left>>

\* an answer that is between chunks, or at its end, sees the abort itself
AnswerCancelled(p) ==
  /\ p \in Tasks /\ pc[p] = "speak" /\ Aborted(turnOf[p])
  /\ GoTo(p, "finish")
  /\ outcome' = [outcome EXCEPT ![p] = "none"]
  /\ UNCHANGED <<sessionVars, socketVars, inputVars, turnOf, left>>

WriteFrame(p) ==
  /\ pc[p] = "frame" /\ writer = p /\ open
  /\ writer' = NoOne
  /\ Send("answer", p)
  /\ left' = [left EXCEPT ![p] = @ - 1]
  /\ GoTo(p, "mark")
  /\ UNCHANGED <<sessionVars, inputVars, speaking, silenced, stops, turnOf, outcome,
                 open>>

\* markXiaozhiDownlink, after writeMu is released: nothing checks the turn again
MarkDownlink(p) ==
  /\ pc[p] = "mark"
  /\ lastDownlink' = turnOf[p]
  /\ GoTo(p, "speak")
  /\ UNCHANGED <<turnVars, listenVars, socketVars, inputVars, turnOf, outcome, left,
                 ttsStopSent>>

\* mutant of SpeechEnds: an unavailable provider ends the turn without a stop
SpeechEndsSilently(p) ==
  /\ pc[p] = "speak" /\ left[p] = 0
  /\ GoTo(p, CASE outcome[p] = "checking" -> "run"
               [] outcome[p] = "unavailable" -> "finish"
               [] OTHER -> "stop")
  /\ UNCHANGED <<sessionVars, socketVars, inputVars, turnOf, outcome, left>>

SpeechEnds(p) ==
  /\ pc[p] = "speak" /\ left[p] = 0
  /\ GoTo(p, CASE outcome[p] = "checking" -> "run"
               [] p \in Sayers /\ outcome[p] = "unavailable" -> "broken"
               [] OTHER -> "stop")
  /\ UNCHANGED <<sessionVars, socketVars, inputVars, turnOf, outcome, left>>

\* the voice pipeline tries to stop before it cancels; text and WAV downlinks
\* cancel the turn's context first when the downlink failed
HandleBroken(p) ==
  /\ pc[p] = "broken"
  /\ IF outcome[p] = "error" /\ p \in Sayers \cup ProfessionalTasks
     THEN CancelContext(turnOf[p])
     ELSE UNCHANGED turnVars
  /\ GoTo(p, IF p \in Sayers THEN "judge"
             ELSE IF p \in ProfessionalTasks THEN "finish" ELSE "stop")
  /\ UNCHANGED <<listenVars, socketVars, inputVars, turnOf, outcome, left,
                 ttsStopSent, lastDownlink>>

\* handleXiaozhiSay classifies the failure by the turn's cancel reason
JudgeSay(h) ==
  /\ h \in Sayers /\ pc[h] = "judge"
  /\ IF reason[turnOf[h]] = "user"
     THEN Return(h)
     ELSE /\ GoTo(h, "stop")
          /\ outcome' = [outcome EXCEPT ![h] = "unavailable"]
          /\ UNCHANGED <<turnOf, left>>
  /\ UNCHANGED <<sessionVars, socketVars, inputVars>>

\* mutant of StopSuppressed: a suppressed stop is tried again
StopSuppressedRetries(p) ==
  /\ pc[p] = "stop" /\ writer = NoOne /\ Aborted(turnOf[p])
  /\ UNCHANGED <<sessionVars, socketVars, inputVars, turnOf, outcome, left, pc>>

\* writeXiaozhiTTSStop: suppressed when the turn is aborted ...
StopSuppressed(p) ==
  /\ pc[p] = "stop" /\ writer = NoOne /\ Aborted(turnOf[p])
  /\ GoTo(p, "finish")
  /\ UNCHANGED <<sessionVars, socketVars, inputVars, turnOf, outcome, left>>

\* ... or when a stop was claimed before
ClaimStop(p) ==
  /\ pc[p] = "claim" /\ writer = p
  /\ ttsStopSent' = TRUE
  /\ IF ttsStopSent
     THEN writer' = NoOne /\ GoTo(p, "finish")
     ELSE UNCHANGED writer /\ GoTo(p, "stopWrite")
  /\ UNCHANGED <<turnVars, listenVars, wireVars, inputVars, turnOf, outcome, left,
                 lastDownlink, open>>

WriteStop(p) ==
  /\ pc[p] = "stopWrite" /\ writer = p
  /\ writer' = NoOne
  /\ \/ /\ open
        /\ Send("stop", p) /\ CountStop(turnOf[p]) /\ speaking' = 0
        /\ GoTo(p, "after")
     \/ /\ ~open \/ RequestGone(p)
        /\ GoTo(p, "finish")
        /\ UNCHANGED <<wire, heard, stops, speaking>>
  /\ UNCHANGED <<sessionVars, inputVars, silenced, turnOf, outcome, left, open>>

\* xiaozhiShouldSuppressInputAfterTTSStop
SuppressesInput(p) == \/ outcome[p] \in {"unavailable", "error"}
                      \/ outcome[p] = "completed" /\ p \in Sayers

AfterStop(p) ==
  /\ pc[p] = "after"
  /\ cooldown' = (cooldown \/ SuppressesInput(p))
  /\ GoTo(p, "finish")
  /\ UNCHANGED <<turnVars, socketVars, inputVars, turnOf, outcome, left, hello,
                 listening, suppressedListen, ttsStopSent, lastDownlink>>

\* completeXiaozhiTurn at the end of an answer goroutine; a placeholder without
\* speech arms a cooldown of its own, even when its stop was suppressed
FinishTask(p) ==
  /\ p \in Tasks /\ pc[p] = "finish"
  /\ IF outcome[p] = "error" \/ (outcome[p] = "aborted" /\ p \notin ProfessionalTasks)
     THEN /\ cancelled' = cancelled \cup {turnOf[p]}
          /\ reason' = [reason EXCEPT ![turnOf[p]] = "other"]
     ELSE UNCHANGED <<cancelled, reason>>
  /\ IF outcome[p] = "unavailable" /\ p \notin ProfessionalTasks
     THEN cooldown' \in {cooldown, TRUE}
     ELSE UNCHANGED cooldown
  /\ CompleteTurn(turnOf[p])
  /\ Return(p)
  /\ UNCHANGED <<socketVars, inputVars, nextTurnID, hello, listening,
                 suppressedListen, ttsStopSent, lastDownlink>>

\* the HTTP handler returns, and net/http cancels the request context; a
\* delivered say arms its own cooldown on a stock physical device
FinishSay(h) ==
  /\ h \in Sayers /\ pc[h] = "finish"
  /\ IF outcome[h] = "completed"
     THEN /\ CompleteTurn(turnOf[h])
          /\ cooldown' \in {cooldown, TRUE}
     ELSE UNCHANGED <<current, cooldown>>
  /\ cancelled' = cancelled \cup {turnOf[h]}
  /\ Return(h)
  /\ UNCHANGED <<socketVars, inputVars, nextTurnID, reason, hello,
                 listening, suppressedListen, ttsStopSent, lastDownlink>>

SpeakerStep(p) ==
  \/ SayResetStop(p) \/ DrainDone(p) \/ Acquire(p) \/ Refused(p) \/ WriteFails(p)
  \/ WriteStart(p) \/ RunProvider(p) \/ WriteSentence(p) \/ NextChunk(p) \/ ChunkLost(p)
  \/ AnswerCancelled(p) \/ WriteFrame(p)
  \/ MarkDownlink(p) \/ SpeechEnds(p) \/ HandleBroken(p) \/ JudgeSay(p)
  \/ StopSuppressed(p) \/ ClaimStop(p) \/ WriteStop(p) \/ AfterStop(p)
  \/ FinishTask(p) \/ FinishSay(p)

-----------------------------------------------------------------------------
(* Environment: the clock and the network.                                 *)

CooldownExpires ==
  /\ cooldown /\ cooldown' = FALSE
  /\ UNCHANGED <<turnVars, socketVars, inputVars, speakerVars, hello, listening,
                 suppressedListen, ttsStopSent, lastDownlink>>

InterruptWindowExpires ==
  /\ lastDownlink # 0 /\ lastDownlink' = 0
  /\ UNCHANGED <<turnVars, listenVars, socketVars, inputVars, speakerVars,
                 ttsStopSent>>

SocketDies ==
  /\ open /\ open' = FALSE
  /\ UNCHANGED <<sessionVars, wireVars, inputVars, speakerVars, writer>>

\* the session is over: the reader has returned and every goroutine has ended
SessionOver ==
  /\ rpc = "closed" /\ frameStage = "none" /\ ~cooldown /\ lastDownlink = 0
  /\ \A p \in Speakers : pc[p] = "idle"
  /\ UNCHANGED vars

Next ==
  \/ DeviceMessage \/ FrameQueued \/ ReaderStep \/ IngressStep
  \/ \E p \in Speakers : SayBegin(p) \/ SayClientGone(p) \/ SpeakerStep(p)
  \/ CooldownExpires \/ InterruptWindowExpires \/ SocketDies
  \/ SessionOver

Fairness ==
  /\ WF_vars(ReaderStep)
  /\ WF_vars(IngressStep)
  /\ \A p \in Speakers : WF_vars(SpeakerStep(p))

Spec == Init /\ [][Next]_vars
FairSpec == Spec /\ Fairness
-----------------------------------------------------------------------------
(* Properties.                                                             *)

TurnTypes ==
  /\ current \in 0..MaxTurns /\ nextTurnID \in 0..MaxTurns
  /\ cancelled \subseteq Turns /\ reason \in [Turns -> Reasons]
  /\ lastDownlink \in 0..MaxTurns

FlagTypes ==
  /\ hello \in BOOLEAN /\ listening \in BOOLEAN
  /\ suppressedListen \in BOOLEAN /\ cooldown \in BOOLEAN
  /\ ttsStopSent \in BOOLEAN /\ hasSpeech \in BOOLEAN /\ open \in BOOLEAN

SocketTypes ==
  /\ wire \in Wires /\ heard \in 0..MaxTurns /\ speaking \in 0..MaxTurns
  /\ silenced \subseteq Turns /\ stops \in [Turns -> 0..2]
  /\ writer \in Speakers \cup {NoOne}

StepTypes ==
  /\ rpc \in ReaderPCs /\ stopTurn \in 0..MaxTurns
  /\ afterStop \in {"idle", "newTurn"}
  /\ frameTurn \in 0..MaxTurns
  /\ frameStage \in {"none", "queued", "decoding", "appended"}

SpeakerTypes ==
  /\ pc \in [Speakers -> PCs] /\ turnOf \in [Speakers -> 0..MaxTurns]
  /\ outcome \in [Speakers -> Outcomes] /\ left \in [Speakers -> 0..MaxChunks]

TypeOK == TurnTypes /\ FlagTypes /\ SocketTypes /\ StepTypes /\ SpeakerTypes

Wire == INSTANCE TurnWire WITH wire <- wire, heard <- heard, silenced <- silenced,
                              MaxTurns <- MaxTurns

\* The downlink follows the abstract channel: whatever barge-ins, aborts,
\* auto-stops and host speech do to each other, answers reach the device in the
\* order of their turns and a cut turn is never heard again.
WireSpec == Wire!Spec

\* A goroutine that holds writeMu past its ownership check may still write,
\* whatever the reader and the say handlers do to its turn meanwhile: the
\* turn has not been cut and no later turn has been heard.
HolderMayWrite ==
  writer # NoOne => turnOf[writer] \notin silenced /\ turnOf[writer] >= heard

\* Turn numbers handed out so far; a listen start keeps one in reserve.
NumbersBounded ==
  /\ nextTurnID <= MaxTurns /\ (ListenPending => nextTurnID < MaxTurns)
  /\ heard <= nextTurnID /\ lastDownlink <= nextTurnID
  /\ \A p \in Speakers : turnOf[p] <= nextTurnID /\ (pc[p] # "idle" => turnOf[p] > 0)

\* Only the turn started last owns the downlink, and never after its cut or
\* once the reader has set out to cut it.
OwnerIsNewest ==
  /\ current \in {0, nextTurnID}
  /\ \A t \in silenced : t # current /\ t <= nextTurnID
  /\ rpc = "stopping" => stopTurn \in 1..nextTurnID \ {current}

\* writeMu is held exactly by a goroutine between its check and its write.
HolderIsWriting ==
  writer # NoOne => pc[writer] \in WritePCs \cup {"claim", "stopWrite"}

\* A frame is only sent for a chunk that is there.
FrameHasChunk == \A p \in Speakers : pc[p] = "frame" => left[p] > 0

\* Turn ownership: with TypeOK, the inductive invariant behind WireSpec.
Ownership == /\ NumbersBounded /\ OwnerIsNewest
             /\ HolderIsWriting /\ HolderMayWrite /\ FrameHasChunk

\* A turn that was not cut is stopped at most once, however many goroutines
\* and resets of ttsStopSent there were.
OneStopPerAnswer == \A t \in Turns : t \notin silenced => stops[t] <= 1

\* No part of an answer follows a stop of its turn.
NothingAfterStop ==
  [][wire' # wire /\ wire'.kind = "answer" => stops[wire'.turn] = 0]_vars

\* Two goroutines never speak for the same turn.
OneVoicePerTurn ==
  \A p, q \in Speakers :
    p # q /\ pc[p] # "idle" /\ pc[q] # "idle" => turnOf[p] # turnOf[q]

\* PROTOCOL.md: no speech is sent while the device is listening.
NoSpeechWhileListening ==
  [][wire' # wire /\ wire'.kind = "answer" => ~listening]_vars

\* A stop written while the device speaks names the turn it is speaking for.
StopNamesSpeaker ==
  [][speaking # 0 /\ speaking' = 0 => wire'.turn = speaking]_vars

\* Every interrupt writes its stop (or finds the socket dead): the reader is
\* never starved of writeMu.
InterruptIsWritten == rpc = "stopping" ~> rpc # "stopping"

\* The device leaves Speaking for every turn, or its socket is dead.
SpeakingEnds == \A t \in Turns : speaking = t ~> (speaking # t \/ ~open)

\* Every answer goroutine and every say handler returns.
EveryVoiceEnds == \A p \in Speakers : pc[p] # "idle" ~> pc[p] = "idle"
=============================================================================
