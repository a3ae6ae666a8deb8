-------------------------- MODULE XiaozhiDownlink --------------------------
(***************************************************************************)
(* The paced downlink of one voice-pipeline turn: the streaming answer and *)
(* the fast-ack backchannel speak for the same turn through one pacer,     *)
(* while the reader may interrupt (internal/gateway/server.go,             *)
(* internal/audio/ratecontroller.go).                                      *)
(*                                                                         *)
(* XiaozhiTurn shows who may speak; this module shows how the three locks  *)
(* nest.  session.mu is held across a step only by cancelXiaozhiTurnContext*)
(* (it resets the pacer inside); every other use is one critical section,  *)
(* one action that needs the lock free.  The ownership check and the write *)
(* under writeMu are one action here; the socket stays up.                 *)
(***************************************************************************)
EXTENDS Naturals

CONSTANTS
  Interrupts,     \* bound: interrupts by the device, for each way the fast ack may
                  \* be set up: "off", "inline" (no delay), "delayed"
  Prebuffer,      \* PrebufferFrames of the pacer
  MaxChunks,      \* bound: audio chunks of the answer
  Undecodable     \* which voice's audio may be undecodable, in which set-up

Voices == {"answer", "ack"}
Free   == "free"

AckModes == DOMAIN Interrupts

ASSUME ModeAssumption  == /\ AckModes \subseteq {"off", "inline", "delayed"}
                          /\ Interrupts \in [AckModes -> Nat]
ASSUME LimitAssumption == {Prebuffer, MaxChunks} \subseteq Nat
ASSUME FaultAssumption == Undecodable \subseteq Voices \X AckModes

VARIABLES
  sessionMu, writeMu, pacerMu,   \* holder of each lock, or Free
  owned,        \* the turn is currentTurn
  cancelled,    \* its context is done
  ttsStopSent,
  downlinked,   \* lastDownlinkTurnID names the turn
  sentFrames,   \* the pacer's count ...
  started,      \* ... startedAt is set ...
  slot,         \* ... and the frame slots that passed since
  answerReady,  \* the answerReady channel is closed
  opened,       \* answerStarted
  pc, msg,      \* each voice's step and the message it is writing
  left,         \* chunks the answer still has
  reader,       \* the reader: "idle", "asked", "cut"
  asks,         \* interrupts so far
  mode,         \* how the fast ack is set up
  \* what the device has seen
  said,         \* last message
  frames,       \* audio frames
  elapsed,      \* frame slots since pacing began
  stopped       \* a stop was written

locks   == <<sessionMu, writeMu, pacerMu>>
turn    == <<owned, cancelled, ttsStopSent, downlinked>>
pacer   == <<sentFrames, started, slot>>
answer  == <<answerReady, opened, left>>
device  == <<said, frames, stopped>>
control == <<pc, msg>>
input   == <<reader, asks, mode>>
vars == <<locks, turn, pacer, answer, device, control, input, elapsed>>

Messages == {"none", "start", "ack", "sentence", "fallback", "frame", "stop"}
Steps == {"idle", "lock", "put", "await", "timer", "late", "event", "check", "pacer",
          "slot", "recheck", "send", "mark", "failed", "aborted", "cancel", "reset",
          "complete", "done"}

Init ==
  /\ sessionMu = Free /\ writeMu = Free /\ pacerMu = Free
  /\ owned = TRUE /\ cancelled = FALSE /\ ttsStopSent = FALSE /\ downlinked = FALSE
  /\ sentFrames = 0 /\ started = FALSE /\ slot = 0
  /\ answerReady = FALSE /\ opened = FALSE /\ left \in 0..MaxChunks
  /\ pc = [answer |-> "lock", ack |-> "idle"]
  /\ msg = [answer |-> "start", ack |-> "none"]
  /\ reader = "idle" /\ asks = 0 /\ mode \in AckModes
  /\ said = "none" /\ frames = 0 /\ elapsed = 0 /\ stopped = FALSE

-----------------------------------------------------------------------------
Aborted == ~owned \/ cancelled
GoTo(v, to) == pc' = [pc EXCEPT ![v] = to]

\* the voice goes on to write message m
Write(v, m) == GoTo(v, "lock") /\ msg' = [msg EXCEPT ![v] = m]

Faulty(v) == <<v, mode>> \in Undecodable

Put(m) == /\ said' = m
          /\ frames' = frames + (IF m = "frame" THEN 1 ELSE 0)
          /\ stopped' = (stopped \/ m = "stop")

-----------------------------------------------------------------------------
(* Messages: writeXiaozhiJSON, writeXiaozhiBinary, writeXiaozhiTTSStop.    *)

Lock(v) ==
  /\ pc[v] = "lock" /\ writeMu = Free
  /\ writeMu' = v
  /\ GoTo(v, "put")
  /\ UNCHANGED <<sessionMu, pacerMu, turn, pacer, answer, device, msg, input, elapsed>>

\* tts start is out: the fast ack begins, inline or behind its timer
PutStart ==
  /\ msg["answer"] = "start" /\ ~Aborted
  /\ Put("start")
  /\ \/ mode = "off"     /\ pc' = [answer |-> "event", ack |-> "done"]
     \/ mode = "inline"  /\ pc' = [answer |-> "await", ack |-> "late"]
     \/ mode = "delayed" /\ pc' = [answer |-> "event", ack |-> "timer"]
  /\ UNCHANGED ttsStopSent

PutPhrase(v) ==
  /\ msg[v] \in {"sentence", "ack", "fallback"} /\ ~Aborted
  /\ Put(msg[v])
  /\ IF msg[v] = "fallback" THEN Write(v, "stop") ELSE GoTo(v, "check") /\ UNCHANGED msg
  /\ UNCHANGED ttsStopSent

PutFrame(v) ==
  /\ msg[v] = "frame" /\ ~Aborted
  /\ Put("frame")
  /\ GoTo(v, "mark")
  /\ UNCHANGED ttsStopSent

\* after its stop a voice is over; an answer that broke off cancels its turn
AfterStop(v) == CASE v = "ack" -> "done"
                  [] v = "answer" /\ opened /\ left > 0 -> "cancel"
                  [] OTHER -> "complete"

\* the stop is suppressed for a lost turn, and claimed by the first that writes it
PutStop(v) ==
  /\ msg[v] = "stop"
  /\ IF Aborted \/ ttsStopSent
     THEN UNCHANGED <<said, frames, stopped>>
     ELSE Put("stop")
  /\ ttsStopSent' = (ttsStopSent \/ ~Aborted)
  /\ GoTo(v, AfterStop(v))

\* the turn is lost: the write is refused
Refuse(v) ==
  /\ msg[v] # "stop" /\ Aborted
  /\ GoTo(v, CASE msg[v] = "frame" -> "failed"
               [] msg[v] = "sentence" -> "cancel"
               [] msg[v] = "ack" -> "done"
               [] OTHER -> "complete")
  /\ UNCHANGED <<ttsStopSent, said, frames, stopped>>

PutMessage(v) ==
  /\ pc[v] = "put" /\ sessionMu = Free
  /\ \/ v = "answer" /\ PutStart /\ UNCHANGED msg
     \/ PutPhrase(v)
     \/ (PutFrame(v) \/ PutStop(v) \/ Refuse(v)) /\ UNCHANGED msg
  /\ writeMu' = Free
  /\ pacerMu' = IF pc'[v] = "failed" THEN Free ELSE pacerMu
  /\ UNCHANGED <<sessionMu, owned, cancelled, downlinked, pacer, answer, input, elapsed>>

-----------------------------------------------------------------------------
(* The fast ack: startXiaozhiFastAckBackchannel, writeXiaozhiFastAckDownlink. *)

\* the timer, the answer and the turn's context race; any that is ready may win
AckTimer ==
  /\ pc["ack"] = "timer"
  /\ \/ (cancelled \/ answerReady) /\ GoTo("ack", "done")
     \/ GoTo("ack", "late")
  /\ UNCHANGED <<locks, turn, pacer, answer, device, msg, input, elapsed>>

\* an adapter without audio ends the fast ack after its phrase
AckBegins ==
  /\ pc["ack"] = "late" /\ sessionMu = Free
  /\ IF Aborted THEN GoTo("ack", "done") /\ UNCHANGED msg ELSE Write("ack", "ack")
  /\ UNCHANGED <<locks, turn, pacer, answer, device, input, elapsed>>

AckUnavailable ==
  /\ pc["ack"] = "check"
  /\ GoTo("ack", "done")
  /\ UNCHANGED <<locks, turn, pacer, answer, device, msg, input, elapsed>>

\* an inline fast ack runs in the answer's goroutine
AckAwaited ==
  /\ pc["answer"] = "await" /\ pc["ack"] = "done"
  /\ GoTo("answer", "event")
  /\ UNCHANGED <<locks, turn, pacer, answer, device, msg, input, elapsed>>

-----------------------------------------------------------------------------
(* The answer: writeXiaozhiStreamingVoicePipelineAnswer.                   *)

\* mutant of AnswerEvent: the completed answer forgets its stop
AnswerEventSilent ==
  /\ pc["answer"] = "event" /\ sessionMu = Free
  /\ answerReady' = TRUE
  /\ IF Aborted \/ (left = 0 /\ opened)
     THEN GoTo("answer", "complete") /\ UNCHANGED <<msg, opened>>
     ELSE /\ opened' = (opened \/ left > 0)
          /\ \/ left > 0 /\ Write("answer", "sentence")
             \/ left > 0 /\ opened /\ GoTo("answer", "check") /\ UNCHANGED msg
             \/ left = 0 /\ Write("answer", "fallback")
  /\ UNCHANGED <<locks, turn, pacer, left, device, input, elapsed>>

AnswerEvent ==
  /\ pc["answer"] = "event" /\ sessionMu = Free
  /\ answerReady' = TRUE
  /\ IF Aborted
     THEN GoTo("answer", "complete") /\ UNCHANGED <<msg, opened>>
     ELSE /\ opened' = (opened \/ left > 0)
          /\ \/ left > 0 /\ Write("answer", "sentence")
             \/ left > 0 /\ opened /\ GoTo("answer", "check") /\ UNCHANGED msg
             \/ left = 0 /\ Write("answer", IF opened THEN "stop" ELSE "fallback")
  /\ UNCHANGED <<locks, turn, pacer, left, device, input, elapsed>>

\* completeXiaozhiTurn
AnswerComplete ==
  /\ pc["answer"] = "complete" /\ sessionMu = Free
  /\ owned' = FALSE
  /\ answerReady' = TRUE
  /\ GoTo("answer", "done")
  /\ UNCHANGED <<locks, cancelled, ttsStopSent, downlinked, pacer, opened, left, device,
                 msg, input, elapsed>>

\* cancelXiaozhiTurnContext: session.mu first, the pacer's lock inside
CancelLocks ==
  /\ pc["answer"] = "cancel" /\ sessionMu = Free
  /\ sessionMu' = "answer"
  /\ cancelled' = TRUE
  /\ GoTo("answer", "reset")
  /\ UNCHANGED <<writeMu, pacerMu, owned, ttsStopSent, downlinked, pacer, answer, device,
                 msg, input, elapsed>>

CancelResets ==
  /\ pc["answer"] = "reset" /\ pacerMu = Free
  /\ sessionMu' = Free
  /\ sentFrames' = 0 /\ started' = FALSE /\ slot' = 0
  /\ GoTo("answer", "complete")
  /\ UNCHANGED <<writeMu, pacerMu, turn, answer, device, msg, input, elapsed>>

-----------------------------------------------------------------------------
(* One chunk: writeXiaozhiOpusDownlink and AudioRateController.Send.       *)

Check(v) ==
  /\ pc[v] = "check" /\ sessionMu = Free
  /\ \/ Aborted /\ GoTo(v, "aborted")
     \/ ~Aborted /\ Faulty(v) /\ GoTo(v, "failed")
     \/ ~Aborted /\ GoTo(v, "pacer")
  /\ UNCHANGED <<locks, turn, pacer, answer, device, msg, input, elapsed>>

LockPacer(v) ==
  /\ pc[v] = "pacer" /\ pacerMu = Free
  /\ pacerMu' = v
  /\ GoTo(v, IF sentFrames >= Prebuffer THEN "slot" ELSE "send")
  /\ UNCHANGED <<sessionMu, writeMu, turn, pacer, answer, device, msg, input, elapsed>>

\* mutant of FrameIndex: an off-by-one in the slot
FrameIndexEarly == sentFrames - Prebuffer
\* frameIndex of waitForSlot: the slot the next frame waits for
FrameIndex == sentFrames - Prebuffer + 1

\* waitForSlot: the first frame that has to wait sets the clock
StartClock(v) ==
  /\ pc[v] = "slot" /\ ~started
  /\ started' = TRUE /\ slot' = 0
  /\ UNCHANGED <<locks, turn, sentFrames, answer, device, control, input, elapsed>>

SlotReached(v) ==
  /\ pc[v] = "slot" /\ started
  /\ slot >= FrameIndex
  /\ GoTo(v, "recheck")
  /\ UNCHANGED <<locks, turn, pacer, answer, device, msg, input, elapsed>>

\* mutant of Recheck: an abort returns with the pacer locked
RecheckKeepsLock(v) ==
  /\ pc[v] = "recheck" /\ sessionMu = Free
  /\ GoTo(v, IF Aborted THEN "aborted" ELSE "send")
  /\ UNCHANGED <<locks, turn, pacer, answer, device, msg, input, elapsed>>

Recheck(v) ==
  /\ pc[v] = "recheck" /\ sessionMu = Free
  /\ IF Aborted
     THEN GoTo(v, "aborted") /\ pacerMu' = Free
     ELSE GoTo(v, "send") /\ UNCHANGED pacerMu
  /\ UNCHANGED <<sessionMu, writeMu, turn, pacer, answer, device, msg, input, elapsed>>

\* the send callback's own check fails the send
SendFrame(v) ==
  /\ pc[v] = "send" /\ sessionMu = Free
  /\ IF Aborted
     THEN GoTo(v, "failed") /\ pacerMu' = Free /\ UNCHANGED msg
     ELSE Write(v, "frame") /\ UNCHANGED pacerMu
  /\ UNCHANGED <<sessionMu, writeMu, turn, pacer, answer, device, input, elapsed>>

\* mutant of Mark: Send returns with the pacer locked
MarkKeepsLock(v) ==
  /\ pc[v] = "mark" /\ sessionMu = Free
  /\ downlinked' = TRUE
  /\ sentFrames' = sentFrames + 1
  /\ GoTo(v, IF v = "answer" THEN "event" ELSE "done")
  /\ left' = IF v = "answer" THEN left - 1 ELSE left
  /\ UNCHANGED <<locks, owned, cancelled, ttsStopSent, started, slot,
                 answerReady, opened, device, msg, input, elapsed>>

\* mutant of Mark: the frame is counted by its callback and again by Send
MarkTwice(v) ==
  /\ pc[v] = "mark" /\ sessionMu = Free
  /\ downlinked' = TRUE
  /\ sentFrames' = sentFrames + 2
  /\ pacerMu' = Free
  /\ GoTo(v, IF v = "answer" THEN "event" ELSE "done")
  /\ left' = IF v = "answer" THEN left - 1 ELSE left
  /\ UNCHANGED <<sessionMu, writeMu, owned, cancelled, ttsStopSent, started, slot,
                 answerReady, opened, device, msg, input, elapsed>>

\* markXiaozhiDownlink, still under the pacer's lock; then the frame counts
Mark(v) ==
  /\ pc[v] = "mark" /\ sessionMu = Free
  /\ downlinked' = TRUE
  /\ sentFrames' = sentFrames + 1
  /\ pacerMu' = Free
  /\ GoTo(v, IF v = "answer" THEN "event" ELSE "done")
  /\ left' = IF v = "answer" THEN left - 1 ELSE left
  /\ UNCHANGED <<sessionMu, writeMu, owned, cancelled, ttsStopSent, started, slot,
                 answerReady, opened, device, msg, input, elapsed>>

\* a broken answer tries to stop and then cancels; so does a broken fast ack
ChunkFailed(v) ==
  /\ pc[v] = "failed" \/ (pc[v] = "aborted" /\ v = "answer")
  /\ Write(v, "stop")
  /\ UNCHANGED <<locks, turn, pacer, answer, device, input, elapsed>>

AckAborted ==
  /\ pc["ack"] = "aborted"
  /\ GoTo("ack", "done")
  /\ UNCHANGED <<locks, turn, pacer, answer, device, msg, input, elapsed>>

-----------------------------------------------------------------------------
(* The reader: an abort or a touch barge-in.                               *)

Ask ==
  /\ reader = "idle" /\ asks < Interrupts[mode]
  /\ reader' = "asked" /\ asks' = asks + 1
  /\ UNCHANGED <<locks, turn, pacer, answer, device, control, mode, elapsed>>

\* what a barge-in does next: nothing after a claimed stop; a turn that is gone
\* is still cut while it may be playing
AfterPrepare ==
  CASE ttsStopSent -> {"idle"}
    [] ~ttsStopSent /\ owned -> {"cut"}
    [] ~ttsStopSent /\ ~owned -> {"idle"} \cup (IF downlinked THEN {"cut"} ELSE {})

\* mutant of Prepare: the barge-in leaves the turn current and its context alive
PrepareKeepsTurn ==
  /\ reader = "asked" /\ sessionMu = Free
  /\ reader' \in AfterPrepare
  /\ UNCHANGED <<locks, turn, pacer, answer, device, control, asks, mode, elapsed>>

\* prepareXiaozhiListenStartBargeIn
Prepare ==
  /\ reader = "asked" /\ sessionMu = Free
  /\ owned' = FALSE
  /\ cancelled' = (cancelled \/ (owned /\ ~ttsStopSent))
  /\ reader' \in AfterPrepare
  /\ UNCHANGED <<locks, ttsStopSent, downlinked, pacer, answer, device, control, asks, mode,
                 elapsed>>

\* writeXiaozhiTTSStopForce
Cut ==
  /\ reader = "cut" /\ writeMu = Free
  /\ Put("stop")
  /\ reader' = "idle"
  /\ UNCHANGED <<locks, turn, pacer, answer, control, asks, mode, elapsed>>

\* time passes, also when every goroutine waits; both counts stop at Late
Late == MaxChunks + 1
Tick ==
  /\ slot'    = IF started /\ slot < Late THEN slot + 1 ELSE slot
  /\ elapsed' = IF started /\ elapsed < Late THEN elapsed + 1 ELSE elapsed
  /\ UNCHANGED <<locks, turn, sentFrames, started, answer, device, control, input>>

VoiceStep(v) ==
  \/ Lock(v) \/ PutMessage(v) \/ Check(v) \/ LockPacer(v) \/ StartClock(v)
  \/ SlotReached(v) \/ Recheck(v) \/ SendFrame(v) \/ Mark(v) \/ ChunkFailed(v)

AnswerStep == \/ VoiceStep("answer") \/ AckAwaited \/ AnswerEvent \/ AnswerComplete
              \/ CancelLocks \/ CancelResets
AckStep    == VoiceStep("ack") \/ AckTimer \/ AckBegins \/ AckUnavailable \/ AckAborted
ReaderStep == Prepare \/ Cut

Next == AnswerStep \/ AckStep \/ Ask \/ ReaderStep \/ Tick

Fairness == /\ WF_vars(AnswerStep) /\ WF_vars(AckStep)
            /\ WF_vars(ReaderStep) /\ WF_vars(Tick)

Spec == Init /\ [][Next]_vars
FairSpec == Spec /\ Fairness
-----------------------------------------------------------------------------
(* Properties.                                                             *)

TypeOK ==
  /\ {sessionMu, writeMu, pacerMu} \subseteq Voices \cup {Free}
  /\ {owned, cancelled, ttsStopSent, downlinked} \subseteq BOOLEAN
  /\ sentFrames \in 0..Late /\ started \in BOOLEAN /\ slot \in 0..Late
  /\ {answerReady, opened} \subseteq BOOLEAN /\ left \in 0..MaxChunks
  /\ pc \in [Voices -> Steps] /\ msg \in [Voices -> Messages]
  /\ reader \in {"idle", "asked", "cut"} /\ mode \in AckModes /\ asks \in 0..Interrupts[mode]
  /\ said \in Messages /\ frames \in 0..Late
  /\ elapsed \in 0..Late /\ stopped \in BOOLEAN

\* The device never gets more than Prebuffer frames ahead of real time, with
\* two voices on one pacer and resets in between.
Paced == frames <= Prebuffer + elapsed

\* a frame is on its way to the device
SendingFrame(v) == pc[v] \in {"recheck", "send"}
                     \/ (pc[v] \in {"lock", "put"} /\ msg[v] = "frame")

\* the voice is inside AudioRateController.Send
InSend(v) == pc[v] \in {"slot", "mark"} \/ SendingFrame(v)

PacerTypes ==
  /\ {sentFrames, frames, slot, elapsed} \subseteq Nat /\ slot <= elapsed
  /\ pc \in [Voices -> Steps] /\ msg \in [Voices -> Messages]

\* Send is a critical section of the pacer's lock, from its first wait to the count.
SendHoldsPacer == \A v \in Voices : InSend(v) => pacerMu = v

\* The fast ack begins only after the start of the answer.
StartComesFirst ==
  pc["answer"] \in {"lock", "put"} /\ msg["answer"] = "start" => pc["ack"] = "idle"

\* The pacer is reset only for a cancelled turn.
ResetIsCancelled == pc["answer"] = "reset" => cancelled

\* The pacer has counted what the device got, but for a frame still to be marked.
CountIsTrue ==
  ~cancelled => frames = sentFrames + (IF \E v \in Voices : pc[v] = "mark" THEN 1 ELSE 0)

\* A frame is on its way only when its slot has come.
FrameIsDue ==
  \A v \in Voices : SendingFrame(v) =>
     sentFrames < Prebuffer \/ sentFrames + 1 <= Prebuffer + slot

\* Why the downlink is paced: the inductive invariant behind Paced.
PacingInv == /\ PacerTypes /\ SendHoldsPacer /\ StartComesFirst /\ ResetIsCancelled
             /\ CountIsTrue /\ FrameIsDue /\ Paced

\* While one goroutine at a time speaks for the turn, no phrase and no frame
\* follows its stop, though an interrupt may write the stop at any step.  (Once
\* the fast ack has a timer, its phrase may follow the answer's stop; and where
\* an inline fast ack may be undecodable, the answer follows the stop of that.)
NothingAfterStop ==
  [][mode # "delayed" /\ (said' # said \/ frames' # frames)
       => said' = "stop" \/ ~stopped]_vars

\* Every interrupt is carried out: no set of goroutines keeps the reader from
\* session.mu and writeMu for ever.
InterruptHeard == reader # "idle" ~> reader = "idle"

\* Speech that was started is stopped.
SpeechStops == said = "start" ~> stopped

\* Both goroutines of the turn return.
VoicesEnd == <>[](pc["answer"] = "done" /\ pc["ack"] \in {"idle", "done"})
=============================================================================
