----------------------- MODULE XiaozhiDownlinkProofs -----------------------
(***************************************************************************)
(* Proofs about the paced downlink, for every length of the answer, number *)
(* of interrupts and mode of the fast ack: two voices and a resetting      *)
(* cancel never get the device more than Prebuffer frames ahead.           *)
(***************************************************************************)
EXTENDS XiaozhiDownlink, TLAPS

USE LimitAssumption
    DEF PacingInv, PacerTypes, SendHoldsPacer, InSend, SendingFrame, StartComesFirst,
        ResetIsCancelled, CountIsTrue, FrameIsDue, Paced, Voices, Free
USE DEF vars, locks, turn, pacer, answer, device, control, input, GoTo, Write

\* the invariant holds at the start
LEMMA InitPaced == Init => PacingInv
BY DEF Init, Steps, Messages

\* writing a message; the answer's start lets the fast ack begin
LEMMA PutKeeps ==
  ASSUME PacingInv, NEW v \in Voices, PutMessage(v)
  PROVE  PacingInv'
<1>1. CASE v = "answer" /\ PutStart /\ UNCHANGED msg
  BY <1>1 DEF PutMessage, PutStart, Put, Steps
<1>2. CASE PutPhrase(v)
  BY <1>2 DEF PutMessage, PutPhrase, Put, Steps, Messages
<1>3. CASE PutFrame(v) /\ UNCHANGED msg
  BY <1>3 DEF PutMessage, PutFrame, Put, Aborted, Steps
<1>4. CASE PutStop(v) /\ UNCHANGED msg
  BY <1>4 DEF PutMessage, PutStop, AfterStop, Put, Steps
<1>5. CASE Refuse(v) /\ UNCHANGED msg
  BY <1>5 DEF PutMessage, Refuse, Steps
<1> QED BY <1>1, <1>2, <1>3, <1>4, <1>5 DEF PutMessage

\* one step of a voice
LEMMA VoiceKeeps ==
  ASSUME PacingInv, NEW v \in Voices, VoiceStep(v)
  PROVE  PacingInv'
<1>1. CASE Lock(v)
  BY <1>1 DEF Lock, Steps
<1>2. CASE PutMessage(v)
  BY <1>2, PutKeeps
<1>3. CASE Check(v)
  BY <1>3 DEF Check, Steps
<1>4. CASE LockPacer(v)
  BY <1>4 DEF LockPacer, Steps
<1>5. CASE StartClock(v)
  BY <1>5 DEF StartClock, Steps
<1>6. CASE SlotReached(v)
  BY <1>6 DEF SlotReached, FrameIndex, Steps
<1>7. CASE Recheck(v)
  BY <1>7 DEF Recheck, Steps
<1>8. CASE SendFrame(v)
  BY <1>8 DEF SendFrame, Steps, Messages
<1>9. CASE Mark(v)
  BY <1>9 DEF Mark, Steps
<1>10. CASE ChunkFailed(v)
  BY <1>10 DEF ChunkFailed, Steps, Messages
<1> QED
  BY <1>1, <1>2, <1>3, <1>4, <1>5, <1>6, <1>7, <1>8, <1>9, <1>10 DEF VoiceStep

\* the answer's own steps; only the cancel touches the pacer
LEMMA AnswerKeeps ==
  ASSUME PacingInv, AnswerStep
  PROVE  PacingInv'
<1>1. CASE VoiceStep("answer")
  BY <1>1, VoiceKeeps
<1>2. CASE AckAwaited
  BY <1>2 DEF AckAwaited, Steps
<1>3. CASE AnswerEvent
  BY <1>3 DEF AnswerEvent, Steps, Messages
<1>4. CASE AnswerComplete
  BY <1>4 DEF AnswerComplete, Steps
<1>5. CASE CancelLocks
  BY <1>5 DEF CancelLocks, Steps
<1>6. CASE CancelResets
  BY <1>6 DEF CancelResets, Steps
<1> QED BY <1>1, <1>2, <1>3, <1>4, <1>5, <1>6 DEF AnswerStep

\* the fast ack's own steps
LEMMA AckKeeps ==
  ASSUME PacingInv, AckStep
  PROVE  PacingInv'
<1>1. CASE VoiceStep("ack")
  BY <1>1, VoiceKeeps
<1>2. CASE AckTimer
  BY <1>2 DEF AckTimer, Steps
<1>3. CASE AckBegins
  BY <1>3 DEF AckBegins, Steps, Messages
<1>4. CASE AckUnavailable
  BY <1>4 DEF AckUnavailable, Steps
<1>5. CASE AckAborted
  BY <1>5 DEF AckAborted, Steps
<1> QED BY <1>1, <1>2, <1>3, <1>4, <1>5 DEF AckStep

\* the reader and the clock
LEMMA OthersKeep ==
  ASSUME PacingInv, Ask \/ ReaderStep \/ Tick
  PROVE  PacingInv'
<1>1. CASE Ask
  BY <1>1 DEF Ask
<1>2. CASE Prepare
  BY <1>2 DEF Prepare
<1>3. CASE Cut
  BY <1>3 DEF Cut, Put
<1>4. CASE Tick
  BY <1>4 DEF Tick, Late
<1> QED BY <1>1, <1>2, <1>3, <1>4 DEF ReaderStep

\* The pacer's lock is held through every Send, its count is true until a cancel
\* resets it, and no frame is under way before its slot: AudioRateController.Send
\* and cancelXiaozhiTurnContext, with any mode of the fast ack.
THEOREM PacingInvHolds == Spec => []PacingInv
<1>1. PacingInv /\ [Next]_vars => PacingInv'
  <2> SUFFICES ASSUME PacingInv, [Next]_vars PROVE PacingInv'
    OBVIOUS
  <2>1. CASE UNCHANGED vars
    BY <2>1
  <2> QED BY <2>1, AnswerKeeps, AckKeeps, OthersKeep DEF Next
<1> QED BY InitPaced, <1>1, PTL DEF Spec

\* The device never gets more than Prebuffer frames ahead of real time, whatever
\* the answer, the fast ack, the interrupts and the resets of the pacer do.
THEOREM DownlinkPaced == Spec => []Paced
<1>1. PacingInv => Paced
  BY DEF PacingInv
<1> QED BY <1>1, PacingInvHolds, PTL

-----------------------------------------------------------------------------
(* Types: every count stays within the length of the answer. *)

\* an answer that goes on to a chunk has one
ChunkLeft ==
  pc["answer"] \in {"check", "pacer", "slot", "recheck", "send", "mark"}
    \/ (pc["answer"] \in {"lock", "put"} /\ msg["answer"] \in {"sentence", "frame"})
  => left > 0

\* the device got the chunks that were taken off, and one frame of the fast ack
FramesBounded ==
  frames + left <= MaxChunks + (IF pc["answer"] = "mark" THEN 1 ELSE 0)
                             + (IF pc["ack"] \in {"mark", "done"} THEN 1 ELSE 0)

\* the pacer never counts a frame the device did not get
CountBelow == sentFrames + (IF \E v \in Voices : pc[v] = "mark" THEN 1 ELSE 0) <= frames

\* each voice has messages of its own
OwnMessages == /\ msg["answer"] # "ack"
               /\ msg["ack"] \in {"none", "ack", "frame", "stop"}

BoundInv == TypeOK /\ OwnMessages /\ ChunkLeft /\ FramesBounded /\ CountBelow

\* the invariants of this part, each used as a whole where it is not at stake
BothInv == PacingInv /\ BoundInv

USE ModeAssumption
    DEF BoundInv, TypeOK, OwnMessages, ChunkLeft, FramesBounded, CountBelow, Late, AckModes

\* the bounds hold at the start
LEMMA InitBounded == Init => BoundInv
<1> SUFFICES ASSUME Init PROVE BoundInv
  OBVIOUS
<1> USE DEF Init
<1>1. {owned, cancelled, ttsStopSent, downlinked, started, answerReady, opened, stopped}
        \subseteq BOOLEAN
  OBVIOUS
<1>2. /\ pc \in [Voices -> Steps] /\ msg \in [Voices -> Messages] /\ said \in Messages
      /\ OwnMessages /\ ChunkLeft
  BY DEF Steps, Messages
<1>3. asks \in 0..Interrupts[mode] /\ left \in 0..MaxChunks
  OBVIOUS
<1>4. FramesBounded /\ CountBelow
  OBVIOUS
<1>5. {sentFrames, slot, frames, elapsed} \subseteq 0..Late
  OBVIOUS
<1> QED BY <1>1, <1>2, <1>3, <1>4, <1>5

\* a message that is put counts as a frame at most once
LEMMA PutBounded ==
  ASSUME BothInv, NEW v \in Voices, PutMessage(v)
  PROVE  BoundInv'
<1> USE DEF BothInv
<1>1. CASE v = "answer" /\ PutStart /\ UNCHANGED msg
  BY <1>1 DEF PutMessage, PutStart, Put, Steps, Messages
<1>2. CASE PutPhrase(v)
  BY <1>2 DEF PutMessage, PutPhrase, Put, Steps, Messages
<1>3. CASE PutFrame(v) /\ UNCHANGED msg
  BY <1>3 DEF PutMessage, PutFrame, Put, Aborted, Steps, Messages
<1>4. CASE PutStop(v) /\ UNCHANGED msg
  <2>1. /\ pc' = [pc EXCEPT ![v] = AfterStop(v)] /\ frames' = frames
        /\ said' \in {said, "stop"}
    BY <1>4 DEF PutMessage, PutStop, Put
  <2>2. AfterStop(v) \in {"done", "cancel", "complete"} /\ (v = "ack" => AfterStop(v) = "done")
    BY DEF AfterStop
  <2>3. /\ pacerMu' \in {pacerMu, Free} /\ writeMu' = Free /\ msg' = msg
        /\ UNCHANGED <<sessionMu, owned, cancelled, downlinked, pacer, answer, input, elapsed>>
    BY <1>4 DEF PutMessage
  <2>4. {ttsStopSent', stopped'} \subseteq BOOLEAN
    BY <1>4 DEF PutMessage, PutStop, Put, Aborted
  <2>5. pc[v] = "put"
    BY <1>4 DEF PutMessage
  <2>6. pc' \in [Voices -> Steps] /\ said' \in Messages
    BY <2>1, <2>2 DEF Steps, Messages
  <2>7. ChunkLeft' /\ FramesBounded' /\ CountBelow'
    BY <2>1, <2>2, <2>3, <2>5
  <2> QED BY <2>1, <2>3, <2>4, <2>6, <2>7
<1>5. CASE Refuse(v) /\ UNCHANGED msg
  BY <1>5 DEF PutMessage, Refuse, Steps, Messages
<1> QED BY <1>1, <1>2, <1>3, <1>4, <1>5 DEF PutMessage

\* one step of a voice
LEMMA VoiceBounded ==
  ASSUME BothInv, NEW v \in Voices, VoiceStep(v)
  PROVE  BoundInv'
<1> USE DEF BothInv
<1>1. CASE Lock(v)
  BY <1>1 DEF Lock, Steps
<1>2. CASE PutMessage(v)
  BY <1>2, PutBounded
<1>3. CASE Check(v)
  BY <1>3 DEF Check, Steps
<1>4. CASE LockPacer(v)
  BY <1>4 DEF LockPacer, Steps
<1>5. CASE StartClock(v)
  BY <1>5 DEF StartClock, Steps
<1>6. CASE SlotReached(v)
  BY <1>6 DEF SlotReached, FrameIndex, Steps
<1>7. CASE Recheck(v)
  BY <1>7 DEF Recheck, Steps
<1>8. CASE SendFrame(v)
  BY <1>8 DEF SendFrame, Steps, Messages
<1>9. CASE Mark(v)
  BY <1>9 DEF Mark, Steps
<1>10. CASE ChunkFailed(v)
  BY <1>10 DEF ChunkFailed, Steps, Messages
<1> QED
  BY <1>1, <1>2, <1>3, <1>4, <1>5, <1>6, <1>7, <1>8, <1>9, <1>10 DEF VoiceStep

\* the answer's own steps
LEMMA AnswerBounded ==
  ASSUME BothInv, AnswerStep
  PROVE  BoundInv'
<1> USE DEF BothInv
<1>1. CASE VoiceStep("answer")
  BY <1>1, VoiceBounded
<1>2. CASE AckAwaited
  BY <1>2 DEF AckAwaited, Steps
<1>3. CASE AnswerEvent
  <2>1. {answerReady', opened'} \subseteq BOOLEAN
    BY <1>3 DEF AnswerEvent
  <2>2. /\ pc' \in [Voices -> Steps] /\ msg' \in [Voices -> Messages] /\ OwnMessages'
        /\ ChunkLeft'
    BY <1>3 DEF AnswerEvent, Steps, Messages
  <2>3. FramesBounded' /\ CountBelow'
    BY <1>3 DEF AnswerEvent
  <2> QED BY <1>3, <2>1, <2>2, <2>3 DEF AnswerEvent
<1>4. CASE AnswerComplete
  BY <1>4 DEF AnswerComplete, Steps
<1>5. CASE CancelLocks
  BY <1>5 DEF CancelLocks, Steps
<1>6. CASE CancelResets
  <2>1. \A v \in Voices : pc[v] # "mark" /\ pc'[v] # "mark"
    BY <1>6 DEF CancelResets
  <2>2. CountBelow' /\ FramesBounded'
    BY <1>6, <2>1 DEF CancelResets
  <2>3. pc' \in [Voices -> Steps]
    BY <1>6 DEF CancelResets, Steps
  <2>0. sentFrames' = 0 /\ slot' = 0 /\ started' = FALSE
    BY <1>6 DEF CancelResets
  <2>4. {sentFrames', slot'} \subseteq 0..Late
    BY <2>0
  <2>8. started' \in BOOLEAN
    BY <2>0, Zenon
  <2>5. sessionMu' \in Voices \cup {Free} /\ UNCHANGED <<writeMu, pacerMu, turn, answer>>
    BY <1>6 DEF CancelResets
  <2>6. UNCHANGED <<device, msg, input, elapsed>>
    BY <1>6 DEF CancelResets
  <2>7. OwnMessages' /\ ChunkLeft'
    BY <1>6 DEF CancelResets
  <2> QED BY <2>2, <2>3, <2>4, <2>5, <2>6, <2>7, <2>8
<1> QED BY <1>1, <1>2, <1>3, <1>4, <1>5, <1>6 DEF AnswerStep

\* the fast ack's own steps
LEMMA AckBounded ==
  ASSUME BothInv, AckStep
  PROVE  BoundInv'
<1> USE DEF BothInv
<1>1. CASE VoiceStep("ack")
  BY <1>1, VoiceBounded
<1>2. CASE AckTimer
  BY <1>2 DEF AckTimer, Steps
<1>3. CASE AckBegins
  BY <1>3 DEF AckBegins, Steps, Messages
<1>4. CASE AckUnavailable
  BY <1>4 DEF AckUnavailable, Steps
<1>5. CASE AckAborted
  BY <1>5 DEF AckAborted, Steps
<1> QED BY <1>1, <1>2, <1>3, <1>4, <1>5 DEF AckStep

\* the reader and the clock
LEMMA OthersBounded ==
  ASSUME BothInv, Ask \/ ReaderStep \/ Tick
  PROVE  BoundInv'
<1> USE DEF BothInv
<1>1. CASE Ask
  BY <1>1 DEF Ask
<1>2. CASE Prepare
  BY <1>2 DEF Prepare, AfterPrepare
<1>3. CASE Cut
  BY <1>3 DEF Cut, Put, Messages
<1>4. CASE Tick
  BY <1>4 DEF Tick
<1> QED BY <1>1, <1>2, <1>3, <1>4 DEF ReaderStep

\* The bounds of the counts, of the chunks that are left and of what each voice
\* writes hold together at every step: writeXiaozhiOpusDownlink under refusals,
\* resets and interrupts.
THEOREM BoundInvHolds == Spec => []BoundInv
<1>1. BothInv /\ [Next]_vars => BoundInv'
  <2> SUFFICES ASSUME BothInv, [Next]_vars PROVE BoundInv'
    OBVIOUS
  <2>1. CASE UNCHANGED vars
    BY <2>1 DEF BothInv
  <2> QED BY <2>1, AnswerBounded, AckBounded, OthersBounded DEF Next
<1>2. PacingInv /\ BoundInv /\ [Next]_vars => BoundInv'
  BY <1>1 DEF BothInv
<1> QED BY InitBounded, <1>2, PacingInvHolds, PTL DEF Spec

\* The types of the downlink's state, for every answer and every set-up of the
\* fast ack: the device gets at most one frame more than the answer has chunks,
\* whatever refuses, resets and interrupts do to writeXiaozhiOpusDownlink.
THEOREM DownlinkTypes == Spec => []TypeOK
<1>1. BoundInv => TypeOK
  BY DEF BoundInv
<1> QED BY <1>1, BoundInvHolds, PTL

-----------------------------------------------------------------------------
(* The stop is the turn's last word while one goroutine at a time speaks. *)

\* the answer has written its last message
AnswerOver == pc["answer"] \in {"complete", "cancel", "reset", "done"}

OneSpeaks == mode # "delayed"

\* the fast ack speaks only while the answer waits for it
AckIsOver ==
  /\ mode = "off" => pc["ack"] \in {"idle", "done"}
  /\ OneSpeaks /\ pc["ack"] \notin {"idle", "done"} => pc["answer"] = "await"

\* a fast ack that breaks off has lost its turn
AckStopIsLost == OneSpeaks /\ (pc["ack"] = "failed" \/ msg["ack"] = "stop") => Aborted

\* an interrupt cuts a turn that is gone
CutIsLost == reader = "cut" => ~owned

\* after a stop the turn is lost or its answer over
StopIsLast == OneSpeaks /\ stopped => Aborted \/ AnswerOver

StopInv == AckIsOver /\ AckStopIsLost /\ CutIsLost /\ StopIsLast

HIDE DEF PacingInv, PacerTypes, SendHoldsPacer, InSend, SendingFrame, StartComesFirst,
         ResetIsCancelled, CountIsTrue, FrameIsDue, Paced, BoundInv, TypeOK, OwnMessages,
         ChunkLeft, FramesBounded, CountBelow, Late

\* the part of the types the argument needs
SpeakTypes == /\ pc \in [Voices -> Steps] /\ msg \in [Voices -> Messages]
              /\ mode \in {"off", "inline", "delayed"}
              /\ stopped \in BOOLEAN /\ frames \in Nat
              /\ msg["ack"] # "fallback"

\* a fast ack that is spoken in line has audio that decodes
AckDecodes == <<"ack", "inline">> \notin Undecodable

USE DEF StopInv, AckIsOver, AckStopIsLost, CutIsLost, StopIsLast, AnswerOver, OneSpeaks,
        Aborted, SpeakTypes

\* one step of a voice keeps the stop last
LEMMA VoiceStops ==
  ASSUME AckDecodes, SpeakTypes, StopInv, NEW v \in Voices, VoiceStep(v)
  PROVE  StopInv'
<1>1. CASE Lock(v)
  BY <1>1 DEF Lock
<1>2. CASE PutMessage(v)
  <2>1. CASE v = "answer" /\ PutStart /\ UNCHANGED msg
    BY <1>2, <2>1 DEF PutMessage, PutStart, Put
  <2>2. CASE PutPhrase(v)
    BY <1>2, <2>2 DEF PutMessage, PutPhrase, Put
  <2>3. CASE PutFrame(v) /\ UNCHANGED msg
    BY <1>2, <2>3 DEF PutMessage, PutFrame, Put
  <2>4. CASE PutStop(v) /\ UNCHANGED msg
    BY <1>2, <2>4 DEF PutMessage, PutStop, AfterStop, Put
  <2>5. CASE Refuse(v) /\ UNCHANGED msg
    BY <1>2, <2>5 DEF PutMessage, Refuse
  <2> QED BY <1>2, <2>1, <2>2, <2>3, <2>4, <2>5 DEF PutMessage
<1>3. CASE Check(v)
  BY <1>3 DEF Check, Faulty, AckDecodes
<1>4. CASE LockPacer(v)
  BY <1>4 DEF LockPacer
<1>5. CASE StartClock(v)
  BY <1>5 DEF StartClock
<1>6. CASE SlotReached(v)
  BY <1>6 DEF SlotReached
<1>7. CASE Recheck(v)
  BY <1>7 DEF Recheck
<1>8. CASE SendFrame(v)
  BY <1>8 DEF SendFrame
<1>9. CASE Mark(v)
  BY <1>9 DEF Mark
<1>10. CASE ChunkFailed(v)
  BY <1>10 DEF ChunkFailed
<1> QED
  BY <1>1, <1>2, <1>3, <1>4, <1>5, <1>6, <1>7, <1>8, <1>9, <1>10 DEF VoiceStep

\* so does every step
LEMMA StepStops ==
  ASSUME AckDecodes, SpeakTypes, StopInv, Next
  PROVE  StopInv'
<1>1. CASE VoiceStep("answer") \/ VoiceStep("ack")
  BY <1>1, VoiceStops
<1>2. CASE AckAwaited \/ AnswerEvent \/ AnswerComplete
  BY <1>2 DEF AckAwaited, AnswerEvent, AnswerComplete
<1>3. CASE CancelLocks \/ CancelResets
  BY <1>3 DEF CancelLocks, CancelResets
<1>4. CASE AckTimer \/ AckBegins \/ AckUnavailable \/ AckAborted
  BY <1>4 DEF AckTimer, AckBegins, AckUnavailable, AckAborted
<1>5. CASE Ask
  BY <1>5 DEF Ask
<1>6. CASE Prepare
  BY <1>6 DEF Prepare, AfterPrepare
<1>7. CASE Cut
  BY <1>7 DEF Cut, Put
<1>8. CASE Tick
  BY <1>8 DEF Tick
<1> QED
  BY <1>1, <1>2, <1>3, <1>4, <1>5, <1>6, <1>7, <1>8 DEF Next, AnswerStep, AckStep, ReaderStep

\* what a step may write after the stop is a stop
LEMMA StepIsSilent ==
  ASSUME SpeakTypes, StopInv, Next, OneSpeaks, stopped
  PROVE  UNCHANGED <<said, frames>> \/ (said' = "stop" /\ frames' = frames)
<1>1. CASE UNCHANGED <<said, frames>>
  BY <1>1
<1>2. CASE Cut
  BY <1>2 DEF Cut, Put
<1>3. ASSUME NEW v \in Voices, PutMessage(v)
      PROVE  UNCHANGED <<said, frames>> \/ (said' = "stop" /\ frames' = frames)
  <2>1. CASE PutStop(v)
    <3>1. UNCHANGED <<said, frames>> \/ Put("stop")
      BY <2>1 DEF PutStop
    <3>2. Put("stop") => said' = "stop" /\ frames' = frames
      BY DEF Put
    <3> QED BY <3>1, <3>2
  <2>2. CASE Refuse(v)
    BY <2>2 DEF Refuse
  <2>3. ASSUME ~Aborted PROVE FALSE
    <3>1. AnswerOver /\ pc[v] = "put"
      BY <1>3, <2>3 DEF PutMessage
    <3>2. v = "ack"
      BY <3>1
    <3> QED BY <3>1, <3>2
  <2>4. PutStart \/ PutPhrase(v) \/ PutFrame(v) => ~Aborted
    BY DEF PutStart, PutPhrase, PutFrame
  <2> QED BY <1>3, <2>1, <2>2, <2>3, <2>4 DEF PutMessage
<1>4. ASSUME NEW v \in Voices, VoiceStep(v), ~PutMessage(v)
      PROVE  UNCHANGED <<said, frames>>
  BY <1>4 DEF VoiceStep, Lock, Check, LockPacer, StartClock, SlotReached, Recheck,
     SendFrame, Mark, ChunkFailed
<1>5. CASE AckAwaited \/ AnswerEvent \/ AnswerComplete \/ CancelLocks \/ CancelResets
  BY <1>5 DEF AckAwaited, AnswerEvent, AnswerComplete, CancelLocks, CancelResets
<1>6. CASE AckTimer \/ AckBegins \/ AckUnavailable \/ AckAborted \/ Ask \/ Prepare \/ Tick
  BY <1>6 DEF AckTimer, AckBegins, AckUnavailable, AckAborted, Ask, Prepare, Tick
<1> QED
  BY <1>2, <1>3, <1>4, <1>5, <1>6 DEF Next, AnswerStep, AckStep, ReaderStep

\* While one goroutine at a time speaks for the turn nothing follows its stop but
\* another stop, for every answer and any number of interrupts, as long as an
\* inline fast ack decodes: writeXiaozhiFastAckDownlink writes the turn's stop
\* when it does not, and the answer goes on after it.
THEOREM NothingFollowsStop ==
  ASSUME AckDecodes
  PROVE  Spec => NothingAfterStop
<1>1. Init => StopInv
  BY DEF Init
<1>2. BoundInv => SpeakTypes
  BY DEF BoundInv, OwnMessages, TypeOK, SpeakTypes, Late
<1>3. BoundInv /\ StopInv /\ [Next]_vars => StopInv'
  <2> SUFFICES ASSUME SpeakTypes, StopInv, [Next]_vars PROVE StopInv'
    BY <1>2
  <2>1. CASE UNCHANGED vars
    BY <2>1
  <2> QED BY <2>1, StepStops
<1>4. BoundInv /\ StopInv /\ [Next]_vars
        => [OneSpeaks /\ (said' # said \/ frames' # frames) => said' = "stop" \/ ~stopped]_vars
  BY <1>2, StepIsSilent
<1> QED
  BY <1>1, <1>3, <1>4, BoundInvHolds, PTL DEF Spec, NothingAfterStop
=============================================================================
