------------------------- MODULE XiaozhiTurnProofs -------------------------
(***************************************************************************)
(* Proofs about turn ownership, for every number of answer goroutines, say *)
(* handlers and turns: the types, the ownership invariant, and that the    *)
(* session implements the channel of TurnWire.                             *)
(***************************************************************************)
EXTENDS XiaozhiTurn, TLAPS

(* The invariant is inductive as it stands: TypeOK carries what Ownership needs. *)
IInv == TypeOK /\ Ownership

\* the types that are not Booleans (those go to another prover)
SafeTypes == TurnTypes /\ SocketTypes /\ StepTypes /\ SpeakerTypes

\* counting a stop stays within 0..2
LEMMA CountStopTypes ==
  ASSUME SocketTypes, NEW t \in Turns, CountStop(t) PROVE stops' \in [Turns -> 0..2]
<1>1. stops[t] \in 0..2
  BY DEF SocketTypes
<1>2. (IF stops[t] < 2 THEN stops[t] + 1 ELSE 2) \in 0..2
  BY <1>1
<1> QED BY <1>2 DEF SocketTypes, CountStop

\* a goroutine that is not idle has a turn
LEMMA SpeakerHasTurn ==
  ASSUME IInv, NEW p \in Speakers, pc[p] # "idle" PROVE turnOf[p] \in Turns
BY BoundAssumption
   DEF IInv, TypeOK, SpeakerTypes, TurnTypes, Ownership, NumbersBounded, Turns

\* cancelXiaozhiTurnContext keeps the turn types
LEMMA CancelTypes ==
  ASSUME TurnTypes, NEW t \in Turns, CancelContext(t), UNCHANGED lastDownlink
  PROVE  TurnTypes'
BY DEF TurnTypes, CancelContext, Reasons

\* prepareXiaozhiListenStartBargeIn keeps the turn types
LEMMA PrepareTypes ==
  ASSUME TypeOK, NEW why \in {"user", "other"}, NEW next, PrepareBargeIn(why, next),
         UNCHANGED lastDownlink
  PROVE  TurnTypes'
<1>1. CASE ttsStopSent
  BY <1>1, BoundAssumption DEF PrepareBargeIn, TypeOK, TurnTypes
<1>2. CASE ~ttsStopSent /\ current # 0
  <2>1. current \in Turns
    BY <1>2, BoundAssumption DEF TypeOK, TurnTypes, Turns
  <2>2. reason' \in [Turns -> Reasons]
    BY <1>2, <2>1 DEF PrepareBargeIn, TypeOK, TurnTypes, Reasons
  <2>3. cancelled' \subseteq Turns
    BY <1>2, <2>1 DEF PrepareBargeIn, TypeOK, TurnTypes
  <2> QED
    BY <1>2, <2>2, <2>3, BoundAssumption DEF PrepareBargeIn, TypeOK, TurnTypes
<1>3. CASE ~ttsStopSent /\ current = 0
  BY <1>3, BoundAssumption DEF PrepareBargeIn, TypeOK, TurnTypes, turnVars
<1> QED BY <1>1, <1>2, <1>3

\* a control step of a goroutine
LEMMA GoToTypes ==
  ASSUME SpeakerTypes, NEW p \in Speakers, NEW to \in PCs, GoTo(p, to)
  PROVE  pc' \in [Speakers -> PCs]
BY DEF SpeakerTypes, GoTo

\* a new answer goroutine
LEMMA SpawnTypes ==
  ASSUME SpeakerTypes, NEW q \in Tasks, NEW t \in 0..MaxTurns, NEW at \in PCs,
         Spawn(q, t, at)
  PROVE  SpeakerTypes'
BY DEF SpeakerTypes, Spawn, Speakers

\* a goroutine that returns
LEMMA ReturnTypes ==
  ASSUME SpeakerTypes, NEW p \in Speakers, Return(p) PROVE SpeakerTypes'
BY BoundAssumption DEF SpeakerTypes, Return, GoTo, PCs, Outcomes, WritePCs

-----------------------------------------------------------------------------
(* Every action keeps the invariant, one step per action.                  *)

USE SlotAssumption, BoundAssumption
    DEF IInv, SafeTypes, TypeOK, Ownership, TurnTypes, FlagTypes, SocketTypes,
       StepTypes, SpeakerTypes, NumbersBounded, OwnerIsNewest, HolderIsWriting,
       HolderMayWrite, FrameHasChunk, Turns, Reasons, Wires, Speakers,
       ReaderPCs, PCs, Outcomes, ListenPending, WritePCs
USE DEF vars, sessionVars, socketVars, inputVars, speakerVars, wireVars,
   turnVars, readerVars, ingressVars, listenVars

\* messages of the device
LEMMA DeviceKeeps ==
  ASSUME IInv, DeviceMessage
  PROVE  IInv'
<1>1. CASE Hello
  <2>1. FlagTypes'
    BY <1>1, Zenon DEF Hello, Receive
  <2>2. (SafeTypes /\ Ownership)'
    BY <1>1, SMTT(20) DEF Hello, Receive
  <2> QED BY <2>1, <2>2
<1>2. CASE ListenStartSuppressed
  <2>1. FlagTypes'
    BY <1>2, Zenon DEF ListenStartSuppressed, Receive
  <2>2. (SafeTypes /\ Ownership)'
    BY <1>2, SMTT(20) DEF ListenStartSuppressed, Receive
  <2> QED BY <2>1, <2>2
<1>3. CASE ListenStart
  <2>1. FlagTypes'
    BY <1>3, Zenon DEF ListenStart, Receive, PrepareBargeIn
  <2>2. TurnTypes'
    BY <1>3, PrepareTypes DEF ListenStart
  <2>3. (SocketTypes /\ StepTypes /\ SpeakerTypes /\ Ownership)'
    BY <1>3, SMTT(20) DEF ListenStart, Receive, PrepareBargeIn
  <2> QED BY <2>1, <2>2, <2>3
<1>4. CASE ListenStop
  BY <1>4, SMTT(20) DEF ListenStop, Receive, IdleTasks
<1>5. CASE ListenStopIgnored
  <2>1. FlagTypes'
    BY <1>5, Zenon DEF ListenStopIgnored, Receive
  <2>2. (SafeTypes /\ Ownership)'
    BY <1>5, SMTT(20) DEF ListenStopIgnored, Receive
  <2> QED BY <2>1, <2>2
<1>6. CASE Abort
  <2>1. FlagTypes'
    BY <1>6, Zenon DEF Abort, Receive
  <2>2. (SafeTypes /\ Ownership)'
    BY <1>6, SMTT(20) DEF Abort, Receive
  <2> QED BY <2>1, <2>2
<1>7. CASE TouchBargeIn
  <2>1. FlagTypes'
    BY <1>7, Zenon DEF TouchBargeIn, Receive, PrepareBargeIn
  <2>2. TurnTypes'
    BY <1>7, PrepareTypes DEF TouchBargeIn
  <2>3. (SocketTypes /\ StepTypes /\ SpeakerTypes /\ Ownership)'
    BY <1>7, SMTT(20) DEF TouchBargeIn, Receive, PrepareBargeIn
  <2> QED BY <2>1, <2>2, <2>3
<1>8. CASE PlaybackStopDone
  BY <1>8, SMTT(20) DEF PlaybackStopDone, Receive
<1> QED
  BY <1>1, <1>2, <1>3, <1>4, <1>5, <1>6, <1>7, <1>8 DEF DeviceMessage

\* steps of the reader goroutine
LEMMA ReaderKeeps ==
  ASSUME IInv, ReaderStep
  PROVE  IInv'
<1>1. CASE ListenNewTurn
  BY <1>1, SMTT(20) DEF ListenNewTurn, StartTurn
<1>2. CASE ListenOn
  BY <1>2, SMTT(20) DEF ListenOn
<1>3. CASE ListenArm
  BY <1>3, SMTT(20) DEF ListenArm
<1>4. CASE ListenResetStop
  <2>1. FlagTypes'
    BY <1>4, Zenon DEF ListenResetStop
  <2>2. (SafeTypes /\ Ownership)'
    BY <1>4, SMTT(20) DEF ListenResetStop
  <2> QED BY <2>1, <2>2
<1>5. CASE ListenStopClear
  <2>1. FlagTypes'
    BY <1>5, Zenon DEF ListenStopClear, IdleTasks, Spawn
  <2>2. CASE current = 0
    BY <1>5, <2>1, <2>2, SMTT(20) DEF ListenStopClear
  <2>3. CASE current # 0
    <3>1. PICK q \in IdleTasks : Spawn(q, current, "drain")
      BY <1>5, <2>3 DEF ListenStopClear
    <3>2. q \in Tasks /\ pc[q] = "idle"
      BY <3>1 DEF IdleTasks
    <3>3. SpeakerTypes'
      BY <3>1, <3>2, SpawnTypes
    <3> QED
      BY <1>5, <2>1, <2>3, <3>1, <3>2, <3>3, SMTT(20) DEF ListenStopClear, Spawn
  <2> QED BY <2>1, <2>2, <2>3
<1>6. CASE AbortPrepare
  <2>1. FlagTypes'
    BY <1>6, Zenon DEF AbortPrepare, PrepareBargeIn
  <2>2. TurnTypes'
    <3>1. PICK why \in {"user", "other"} : PrepareBargeIn(why, "idle")
      BY <1>6 DEF AbortPrepare
    <3> QED BY <1>6, <3>1, PrepareTypes DEF AbortPrepare
  <2>3. (SocketTypes /\ StepTypes /\ SpeakerTypes /\ Ownership)'
    BY <1>6, SMTT(20) DEF AbortPrepare, PrepareBargeIn
  <2> QED BY <2>1, <2>2, <2>3
<1>7. CASE ForcedStop
  <2>1. FlagTypes'
    BY <1>7, Zenon DEF ForcedStop
  <2>2. stopTurn \in 1..nextTurnID \ {current} /\ stopTurn \in Turns
    BY <1>7 DEF ForcedStop
  <2>3. rpc' # "stopping"
    BY <1>7 DEF ForcedStop
  <2>4. UNCHANGED <<current, nextTurnID, heard, writer, lastDownlink, turnOf, pc, left>>
    BY <1>7 DEF ForcedStop
  <2>5. silenced' \subseteq silenced \cup {stopTurn} /\ writer = NoOne
    BY <1>7 DEF ForcedStop
  <2>6. OwnerIsNewest'
    BY <2>2, <2>3, <2>4, <2>5
  <2>7. wire' \in Wires
    BY <1>7, <2>2 DEF ForcedStop
  <2>8. stops' \in [Turns -> 0..2]
    BY <1>7, <2>2, CountStopTypes DEF ForcedStop
  <2>9. SocketTypes'
    BY <1>7, <2>2, <2>4, <2>5, <2>7, <2>8 DEF ForcedStop
  <2>10. (TurnTypes /\ StepTypes /\ SpeakerTypes)'
    BY <1>7, SMTT(20) DEF ForcedStop
  <2>11. (NumbersBounded /\ HolderIsWriting /\ HolderMayWrite /\ FrameHasChunk)'
    BY <1>7, <2>3, <2>4, <2>5, SMTT(20) DEF ForcedStop
  <2> QED BY <2>1, <2>6, <2>9, <2>10, <2>11
<1>8. CASE ReaderExit
  BY <1>8, SMTT(20) DEF ReaderExit
<1> QED
  BY <1>1, <1>2, <1>3, <1>4, <1>5, <1>6, <1>7, <1>8 DEF ReaderStep

\* steps of the ingress worker
LEMMA IngressKeeps ==
  ASSUME IInv, FrameQueued \/ IngressStep
  PROVE  IInv'
<1>1. CASE FrameQueued
  BY <1>1, SMTT(20) DEF FrameQueued, Receive
<1>2. CASE FrameChecked
  BY <1>2, SMTT(20) DEF FrameChecked
<1>3. CASE FrameAppended
  <2>1. FlagTypes'
    BY <1>3, Zenon DEF FrameAppended
  <2>2. (SafeTypes /\ Ownership)'
    BY <1>3, SMTT(20) DEF FrameAppended
  <2> QED BY <2>1, <2>2
<1>4. CASE AutoStop
  <2>1. FlagTypes'
    BY <1>4, Zenon DEF AutoStop, IdleTasks, Spawn
  <2>2. (SafeTypes /\ Ownership)'
    BY <1>4, SMTT(20) DEF AutoStop, IdleTasks, Spawn
  <2> QED BY <2>1, <2>2
<1>5. CASE NoAutoStop
  BY <1>5, SMTT(20) DEF NoAutoStop
<1> QED
  BY <1>1, <1>2, <1>3, <1>4, <1>5 DEF IngressStep

\* a say begins, or its client goes away
LEMMA SayKeeps ==
  ASSUME NEW p \in Speakers, IInv, SayBegin(p) \/ SayClientGone(p)
  PROVE  IInv'
<1>1. CASE SayBegin(p)
  BY <1>1, SMTT(20) DEF SayBegin, StartTurn, GoTo
<1>2. CASE SayClientGone(p)
  <2>1. FlagTypes'
    BY <1>2, Zenon DEF SayClientGone
  <2>2. turnOf[p] \in Turns
    BY <1>2, SpeakerHasTurn DEF SayClientGone
  <2>3. TurnTypes'
    BY <1>2, <2>2 DEF SayClientGone
  <2>4. (SocketTypes /\ StepTypes /\ SpeakerTypes /\ Ownership)'
    BY <1>2, SMTT(20) DEF SayClientGone
  <2> QED BY <2>1, <2>3, <2>4
<1> QED
  BY <1>1, <1>2

\* steps of answer and say goroutines
LEMMA SpeakerKeeps ==
  ASSUME NEW p \in Speakers, IInv, SpeakerStep(p)
  PROVE  IInv'
<1>1. CASE SayResetStop(p)
  <2>1. FlagTypes'
    BY <1>1, Zenon DEF SayResetStop, GoTo
  <2>2. (SafeTypes /\ Ownership)'
    BY <1>1, SMTT(20) DEF SayResetStop, GoTo
  <2> QED BY <2>1, <2>2
<1>2. CASE DrainDone(p)
  <2>1. FlagTypes'
    BY <1>2, Zenon DEF DrainDone, Aborted, Return, GoTo
  <2>2. writer # p
    BY <1>2 DEF DrainDone
  <2>3. CASE Aborted(turnOf[p])
    <3>1. Return(p)
      BY <1>2, <2>3 DEF DrainDone
    <3>2. SpeakerTypes'
      BY <3>1, ReturnTypes
    <3> QED
      BY <1>2, <2>1, <2>2, <3>1, <3>2, SMTT(20) DEF DrainDone, Return, GoTo
  <2>4. CASE ~Aborted(turnOf[p])
    <3>1. SpeakerTypes'
      BY <1>2, <2>4, GoToTypes DEF DrainDone
    <3>2. (TurnTypes /\ SocketTypes /\ StepTypes)'
      BY <1>2, <2>4 DEF DrainDone
    <3>3. Ownership'
      BY <1>2, <2>2, <2>4, SMTT(20) DEF DrainDone, GoTo
    <3> QED BY <2>1, <3>1, <3>2, <3>3
  <2> QED BY <2>3, <2>4
<1>3. CASE Acquire(p)
  <2>1. FlagTypes'
    BY <1>3, Zenon DEF Acquire, Aborted, GoTo
  <2>2. SpeakerTypes'
    BY <1>3, GoToTypes DEF Acquire
  <2>3. (TurnTypes /\ SocketTypes /\ StepTypes /\ Ownership)'
    BY <1>3, SMTT(20) DEF Acquire, Aborted, GoTo
  <2> QED BY <2>1, <2>2, <2>3
<1>4. CASE Refused(p)
  BY <1>4, SMTT(20) DEF Refused, Aborted, FailWrite, GoTo, AfterFailedWrite,
     OutcomeOfFailedWrite
<1>5. CASE WriteFails(p)
  BY <1>5, SMTT(20) DEF WriteFails, RequestGone, FailWrite, GoTo,
     AfterFailedWrite, OutcomeOfFailedWrite
<1>6. CASE WriteStart(p)
  <2>1. FlagTypes'
    BY <1>6, Zenon DEF WriteStart, Send, GoTo
  <2>2. outcome' \in [Speakers -> Outcomes] /\ left' \in [Speakers -> 0..MaxChunks]
    <3>1. CASE p \in ProfessionalTasks
      <4>1. outcome' \in [Speakers -> Outcomes]
        BY <1>6, <3>1 DEF WriteStart
      <4>2. left' \in [Speakers -> 0..MaxChunks]
        BY <1>6, <3>1 DEF WriteStart
      <4> QED BY <4>1, <4>2
    <3>2. CASE p \notin ProfessionalTasks
      BY <1>6, <3>2 DEF WriteStart
    <3> QED BY <3>1, <3>2
  <2>3. pc' \in [Speakers -> PCs]
    BY <1>6, GoToTypes DEF WriteStart
  <2>4. (TurnTypes /\ SocketTypes /\ StepTypes /\ Ownership)'
    BY <1>6, SMTT(20) DEF WriteStart, Send, GoTo
  <2> QED BY <1>6, <2>1, <2>2, <2>3, <2>4 DEF WriteStart
<1>7. CASE RunProvider(p)
  <2>1. FlagTypes'
    BY <1>7, Zenon DEF RunProvider, Aborted, GoTo
  <2>2. pc' \in [Speakers -> PCs] /\ UNCHANGED turnOf
    BY <1>7, GoToTypes DEF RunProvider
  <2>3. outcome' \in [Speakers -> Outcomes]
    <3>1. \/ UNCHANGED outcome
          \/ \E o \in {"completed", "unavailable"} : outcome' = [outcome EXCEPT ![p] = o]
      BY <1>7 DEF RunProvider
    <3> QED BY <3>1
  <2>4. left' \in [Speakers -> 0..MaxChunks]
    <3>1. \/ UNCHANGED left
          \/ \E n \in 0..MaxChunks : left' = [left EXCEPT ![p] = n]
      BY <1>7 DEF RunProvider
    <3> QED BY <3>1
  <2>5. SpeakerTypes'
    BY <2>2, <2>3, <2>4
  <2>6. writer # p
    BY <1>7 DEF RunProvider
  <2>7. \A s \in Speakers : pc'[s] # "idle" <=> pc[s] # "idle"
    BY <1>7 DEF RunProvider, GoTo
  <2>8. \A s \in Speakers : s # p => pc'[s] = pc[s] /\ left'[s] = left[s]
    BY <1>7, SMTT(20) DEF RunProvider, GoTo
  <2>9. pc'[p] # "frame"
    BY <1>7 DEF RunProvider, GoTo
  <2>10. (TurnTypes /\ SocketTypes /\ StepTypes)'
    BY <1>7, SMTT(20) DEF RunProvider
  <2>11. Ownership'
    BY <1>7, <2>2, <2>6, <2>7, <2>8, <2>9, SMTT(20) DEF RunProvider
  <2> QED BY <2>1, <2>5, <2>10, <2>11
<1>8. CASE WriteSentence(p)
  BY <1>8, SMTT(20) DEF WriteSentence, Send, GoTo
<1>9. CASE NextChunk(p)
  BY <1>9, SMTT(20) DEF NextChunk, Aborted, GoTo
<1>10. CASE ChunkLost(p)
  <2>1. FlagTypes'
    BY <1>10, Zenon DEF ChunkLost, Aborted, RequestGone, GoTo
  <2>2. outcome' \in [Speakers -> Outcomes] /\ UNCHANGED <<turnOf, left>>
    BY <1>10 DEF ChunkLost
  <2>3. pc' \in [Speakers -> PCs]
    BY <1>10, GoToTypes DEF ChunkLost
  <2>4. SafeTypes'
    BY <1>10, <2>2, <2>3 DEF ChunkLost
  <2>5. Ownership'
    BY <1>10, <2>2, SMTT(20) DEF ChunkLost, GoTo
  <2> QED BY <2>1, <2>4, <2>5
<1>11. CASE AnswerCancelled(p)
  BY <1>11, SMTT(20) DEF AnswerCancelled, Aborted, GoTo
<1>12. CASE WriteFrame(p)
  BY <1>12, SMTT(20) DEF WriteFrame, Send, GoTo
<1>13. CASE MarkDownlink(p)
  BY <1>13, SMTT(20) DEF MarkDownlink, GoTo
<1>14. CASE SpeechEnds(p)
  BY <1>14, SMTT(20) DEF SpeechEnds, GoTo
<1>15. CASE HandleBroken(p)
  <2>1. FlagTypes'
    BY <1>15, Zenon DEF HandleBroken, CancelContext, GoTo
  <2>2. turnOf[p] \in Turns
    BY <1>15, SpeakerHasTurn DEF HandleBroken
  <2>3. TurnTypes'
    BY <1>15, <2>2, CancelTypes DEF HandleBroken
  <2>4. (SocketTypes /\ StepTypes /\ SpeakerTypes /\ Ownership)'
    BY <1>15, SMTT(20) DEF HandleBroken, CancelContext, GoTo
  <2> QED BY <2>1, <2>3, <2>4
<1>16. CASE JudgeSay(p)
  <2>1. FlagTypes'
    BY <1>16, Zenon DEF JudgeSay, Return, GoTo
  <2>2. writer # p
    BY <1>16 DEF JudgeSay
  <2>3. CASE reason[turnOf[p]] = "user"
    <3>1. Return(p)
      BY <1>16, <2>3 DEF JudgeSay
    <3>2. SpeakerTypes'
      BY <3>1, ReturnTypes
    <3> QED
      BY <1>16, <2>1, <2>2, <3>1, <3>2, SMTT(20) DEF JudgeSay, Return, GoTo
  <2>4. CASE reason[turnOf[p]] # "user"
    <3>1. pc' \in [Speakers -> PCs]
      BY <1>16, <2>4, GoToTypes DEF JudgeSay
    <3>2. outcome' \in [Speakers -> Outcomes]
      BY <1>16, <2>4 DEF JudgeSay
    <3>3. SafeTypes'
      BY <1>16, <2>4, <3>1, <3>2 DEF JudgeSay
    <3>4. Ownership'
      BY <1>16, <2>2, <2>4, SMTT(20) DEF JudgeSay, GoTo
    <3> QED BY <2>1, <3>3, <3>4
  <2> QED BY <2>3, <2>4
<1>17. CASE StopSuppressed(p)
  BY <1>17, SMTT(20) DEF StopSuppressed, Aborted, GoTo
<1>18. CASE ClaimStop(p)
  <2>1. FlagTypes'
    BY <1>18, Zenon DEF ClaimStop, GoTo
  <2>2. /\ pc' \in [Speakers -> PCs] /\ writer' \in {p, NoOne}
        /\ writer' = p => pc'[p] = "stopWrite"
        /\ \A s \in Speakers : s # p => pc'[s] = pc[s]
    <3>1. CASE ttsStopSent
      BY <1>18, <3>1 DEF ClaimStop, GoTo
    <3>2. CASE ~ttsStopSent
      BY <1>18, <3>2 DEF ClaimStop, GoTo
    <3> QED BY <3>1, <3>2
  <2>3. SafeTypes'
    BY <1>18, <2>2 DEF ClaimStop
  <2>4. pc'[p] # "frame" /\ pc[p] # "idle"
    BY <1>18 DEF ClaimStop, GoTo
  <2>5. Ownership'
    BY <1>18, <2>2, <2>4, SMTT(20) DEF ClaimStop
  <2> QED BY <2>1, <2>3, <2>5
<1>19. CASE WriteStop(p)
  <2>1. FlagTypes'
    BY <1>19, Zenon DEF WriteStop, Send, GoTo, RequestGone
  <2>2. turnOf[p] \in Turns
    BY <1>19, SpeakerHasTurn DEF WriteStop
  <2>3. stops' \in [Turns -> 0..2]
    BY <1>19, <2>2, CountStopTypes DEF WriteStop
  <2>4. wire' \in Wires
    BY <1>19, <2>2 DEF WriteStop, Send
  <2>5. SocketTypes'
    BY <1>19, <2>2, <2>3, <2>4 DEF WriteStop, Send
  <2>6. pc' \in [Speakers -> PCs]
    BY <1>19, GoToTypes DEF WriteStop
  <2>7. (TurnTypes /\ StepTypes /\ SpeakerTypes)'
    BY <1>19, <2>6 DEF WriteStop
  <2>8. Ownership'
    BY <1>19, SMTT(20) DEF WriteStop, Send, GoTo
  <2> QED BY <2>1, <2>5, <2>7, <2>8
<1>20. CASE AfterStop(p)
  BY <1>20, SMTT(20) DEF AfterStop, SuppressesInput, GoTo
<1>21. CASE FinishTask(p)
  <2>1. FlagTypes'
    BY <1>21, Zenon DEF FinishTask, CompleteTurn, Return, GoTo
  <2>2. turnOf[p] \in Turns
    BY <1>21, SpeakerHasTurn DEF FinishTask
  <2>3. current' \in {0, current} /\ UNCHANGED <<nextTurnID, lastDownlink>>
    BY <1>21 DEF FinishTask, CompleteTurn
  <2>4. cancelled' \subseteq Turns /\ reason' \in [Turns -> Reasons]
    <3>1. cancelled' \subseteq cancelled \cup {turnOf[p]}
      BY <1>21 DEF FinishTask
    <3>2. reason' = reason \/ reason' = [reason EXCEPT ![turnOf[p]] = "other"]
      BY <1>21 DEF FinishTask
    <3> QED BY <2>2, <3>1, <3>2
  <2>5. TurnTypes'
    BY <2>3, <2>4
  <2>6. OwnerIsNewest'
    BY <1>21, <2>3 DEF FinishTask
  <2>7. (SocketTypes /\ StepTypes /\ SpeakerTypes /\ NumbersBounded
           /\ HolderIsWriting /\ HolderMayWrite /\ FrameHasChunk)'
    BY <1>21, SMTT(20) DEF FinishTask, Return, GoTo
  <2> QED BY <2>1, <2>5, <2>6, <2>7
<1>22. CASE FinishSay(p)
  <2>1. FlagTypes'
    BY <1>22, Zenon DEF FinishSay, CompleteTurn, Return, GoTo
  <2>2. turnOf[p] \in Turns
    BY <1>22, SpeakerHasTurn DEF FinishSay
  <2>3. current' \in {0, current} /\ UNCHANGED <<nextTurnID, lastDownlink>>
    BY <1>22 DEF FinishSay, CompleteTurn
  <2>4. cancelled' \subseteq Turns /\ reason' \in [Turns -> Reasons]
    <3>1. cancelled' \subseteq cancelled \cup {turnOf[p]}
      BY <1>22 DEF FinishSay
    <3>2. reason' = reason \/ reason' = [reason EXCEPT ![turnOf[p]] = "other"]
      BY <1>22 DEF FinishSay
    <3> QED BY <2>2, <3>1, <3>2
  <2>5. TurnTypes'
    BY <2>3, <2>4
  <2>6. OwnerIsNewest'
    BY <1>22, <2>3 DEF FinishSay
  <2>7. (SocketTypes /\ StepTypes /\ SpeakerTypes /\ NumbersBounded
           /\ HolderIsWriting /\ HolderMayWrite /\ FrameHasChunk)'
    BY <1>22, SMTT(20) DEF FinishSay, Return, GoTo
  <2> QED BY <2>1, <2>5, <2>6, <2>7
<1> QED
  BY <1>1, <1>2, <1>3, <1>4, <1>5, <1>6, <1>7, <1>8, <1>9, <1>10, <1>11, <1>12,
     <1>13, <1>14, <1>15, <1>16, <1>17, <1>18, <1>19, <1>20, <1>21, <1>22 DEF
     SpeakerStep

\* the clock and the network
LEMMA EnvironmentKeeps ==
  ASSUME IInv, CooldownExpires \/ InterruptWindowExpires \/ SocketDies \/ SessionOver
  PROVE  IInv'
<1>1. CASE CooldownExpires
  <2>1. FlagTypes'
    BY <1>1, Zenon DEF CooldownExpires
  <2>2. (SafeTypes /\ Ownership)'
    BY <1>1, SMTT(20) DEF CooldownExpires
  <2> QED BY <2>1, <2>2
<1>2. CASE InterruptWindowExpires
  BY <1>2, SMTT(20) DEF InterruptWindowExpires
<1>3. CASE SocketDies
  <2>1. FlagTypes'
    BY <1>3, Zenon DEF SocketDies
  <2>2. (SafeTypes /\ Ownership)'
    BY <1>3, SMTT(20) DEF SocketDies
  <2> QED BY <2>1, <2>2
<1>4. CASE SessionOver
  BY <1>4, SMTT(20) DEF SessionOver
<1> QED
  BY <1>1, <1>2, <1>3, <1>4

HIDE DEF vars, sessionVars, socketVars, inputVars, speakerVars, wireVars, turnVars,
  readerVars, ingressVars, listenVars
-----------------------------------------------------------------------------
(* Theorems.                                                               *)

\* the invariant holds initially
LEMMA InitEstablishes == Init => IInv
<1> SUFFICES ASSUME Init PROVE IInv
  OBVIOUS
<1>1. TurnTypes /\ StepTypes /\ SpeakerTypes
  BY DEF Init
<1>2. FlagTypes
  BY Zenon DEF Init
<1>3. SocketTypes
  BY DEF Init
<1>4. Ownership
  BY DEF Init
<1> QED BY <1>1, <1>2, <1>3, <1>4

\* and under stuttering
LEMMA StutterKeeps == ASSUME IInv, UNCHANGED vars PROVE IInv'
<1>1. FlagTypes'
  BY Zenon DEF vars, sessionVars, listenVars, inputVars, ingressVars, socketVars
<1>2. (SafeTypes /\ Ownership)'
  BY DEF vars, sessionVars, socketVars, inputVars, speakerVars, wireVars, turnVars,
     readerVars, ingressVars, listenVars
<1> QED BY <1>1, <1>2

HIDE DEF IInv, TypeOK, Ownership

\* the invariant is inductive
LEMMA NextKeeps == IInv /\ [Next]_vars => IInv'
<1> SUFFICES ASSUME IInv, [Next]_vars PROVE IInv'
  OBVIOUS
<1>1. CASE DeviceMessage BY <1>1, DeviceKeeps
<1>2. CASE ReaderStep BY <1>2, ReaderKeeps
<1>3. CASE FrameQueued \/ IngressStep BY <1>3, IngressKeeps
<1>4. CASE \E p \in Speakers : SayBegin(p) \/ SayClientGone(p) BY <1>4, SayKeeps
<1>5. CASE \E p \in Speakers : SpeakerStep(p) BY <1>5, SpeakerKeeps
<1>6. CASE CooldownExpires \/ InterruptWindowExpires \/ SocketDies \/ SessionOver
  BY <1>6, EnvironmentKeeps
<1>7. CASE UNCHANGED vars BY <1>7, StutterKeeps
<1> QED BY <1>1, <1>2, <1>3, <1>4, <1>5, <1>6, <1>7 DEF Next

\* The inductive invariant holds in every reachable state of a session.
THEOREM Inductive == Spec => []IInv
<1> QED BY InitEstablishes, NextKeeps, PTL DEF Spec

\* Every variable of the session keeps its type (internal/gateway/server.go,
\* xiaozhiSession): turn ids, steps and frame counts never leave their ranges.
THEOREM TypeCorrect == Spec => []TypeOK
<1>1. IInv => TypeOK BY DEF IInv
<1> QED BY <1>1, Inductive, PTL

\* A goroutine that passed its ownership check under writeMu may still write
\* when it gets to it, whatever the others did to its turn in between.
THEOREM WriteMuSafe == Spec => []HolderMayWrite
<1>1. IInv => HolderMayWrite BY DEF IInv, Ownership
<1> QED BY <1>1, Inductive, PTL

\* Only the newest turn owns the downlink, and never once it has been cut.
THEOREM OwnershipHolds == Spec => []Ownership
<1>1. IInv => Ownership BY DEF IInv
<1> QED BY <1>1, Inductive, PTL

-----------------------------------------------------------------------------
(* The session implements TurnWire.                                        *)

\* a guarded message maps to Answer, a failed one to a stutter
LEMMA AnswerRefines ==
  ASSUME IInv, NEW p \in Speakers,
         WriteStart(p) \/ WriteSentence(p) \/ WriteFrame(p) \/ WriteStop(p)
  PROVE  [Wire!Next]_(Wire!vars)
<1>1. turnOf[p] \in 1..MaxTurns
  BY SpeakerHasTurn DEF WriteStart, WriteSentence, WriteFrame, WriteStop
<1>2. turnOf[p] \notin silenced /\ turnOf[p] >= heard
  BY DEF IInv, Ownership, WriteStart, WriteSentence, WriteFrame, WriteStop
<1>3. CASE \E k \in {"answer", "stop"} : Send(k, p) /\ UNCHANGED silenced
  <2>1. Wire!Answer(turnOf[p])
    BY <1>2, <1>3 DEF Send, Wire!Answer, Wire!Parts
  <2> QED BY <1>1, <2>1 DEF Wire!Next
<1>4. CASE UNCHANGED <<wire, heard, silenced>>
  BY <1>4 DEF Wire!vars
<1> QED BY <1>3, <1>4 DEF WriteStart, WriteSentence, WriteFrame, WriteStop

\* a forced stop maps to Cut, or to a stutter on a dead socket
LEMMA CutRefines == ASSUME IInv, ForcedStop PROVE [Wire!Next]_(Wire!vars)
<1>1. stopTurn \in 1..MaxTurns
  BY DEF IInv, TypeOK, Ownership, ForcedStop
<1>2. CASE open
  <2>1. Wire!Cut(stopTurn)
    BY <1>2 DEF ForcedStop, Wire!Cut
  <2> QED BY <1>1, <2>1 DEF Wire!Next
<1>3. CASE ~open
  BY <1>3 DEF ForcedStop, Wire!vars
<1> QED BY <1>2, <1>3

\* every step of the session is a step of TurnWire or a stutter
LEMMA StepRefines == IInv /\ [Next]_vars => [Wire!Next]_(Wire!vars)
<1> SUFFICES ASSUME IInv, [Next]_vars PROVE [Wire!Next]_(Wire!vars)
  OBVIOUS
<1> USE DEF Wire!vars, vars, sessionVars, socketVars, inputVars, speakerVars, wireVars
<1>1. CASE DeviceMessage
  BY <1>1 DEF DeviceMessage, Hello, ListenStartSuppressed, ListenStart, ListenStop,
     ListenStopIgnored, Abort, TouchBargeIn, PlaybackStopDone
<1>2. CASE ReaderStep
  BY <1>2, CutRefines DEF ReaderStep, ListenNewTurn, ListenOn, ListenArm,
     ListenResetStop, ListenStopClear, AbortPrepare, ReaderExit
<1>3. CASE FrameQueued \/ IngressStep
  BY <1>3 DEF FrameQueued, IngressStep, FrameChecked, FrameAppended, AutoStop, NoAutoStop
<1>4. ASSUME NEW p \in Speakers, SayBegin(p) \/ SayClientGone(p)
      PROVE [Wire!Next]_(Wire!vars)
  BY <1>4 DEF SayBegin, SayClientGone
<1>5. ASSUME NEW p \in Speakers, SpeakerStep(p) PROVE [Wire!Next]_(Wire!vars)
  BY <1>5, AnswerRefines DEF SpeakerStep, SayResetStop, DrainDone, Acquire, Refused,
     WriteFails, RunProvider, NextChunk, ChunkLost, AnswerCancelled, MarkDownlink,
     SpeechEnds, HandleBroken, JudgeSay, StopSuppressed, ClaimStop, AfterStop,
     FinishTask, FinishSay
<1>6. CASE CooldownExpires \/ InterruptWindowExpires \/ SocketDies \/ SessionOver
  BY <1>6 DEF CooldownExpires, InterruptWindowExpires, SocketDies, SessionOver
<1>7. CASE UNCHANGED vars
  BY <1>7
<1> QED BY <1>1, <1>2, <1>3, <1>4, <1>5, <1>6, <1>7 DEF Next

\* The socket keeps the promises of TurnWire: answers arrive in the order of
\* their turns, and nothing of a turn follows its cut.
THEOREM ImplementsTurnWire == Spec => WireSpec
<1>1. Init => Wire!Init
  BY DEF Init, Wire!Init
<1> QED BY <1>1, Inductive, StepRefines, PTL DEF Spec, WireSpec, Wire!Spec

HIDE DEF SafeTypes, TurnTypes, FlagTypes, SocketTypes, StepTypes, SpeakerTypes,
  NumbersBounded, OwnerIsNewest, HolderIsWriting, HolderMayWrite, FrameHasChunk, Turns,
  Reasons, Wires, Speakers, ReaderPCs, PCs, Outcomes, ListenPending, WritePCs

-----------------------------------------------------------------------------
(* The device alone: no host speech and no auto-stop, so that the reader is *)
(* the only one to start turns and to hand them to answer goroutines.       *)

\* the goroutines that may still write for their turn
Voices == {p \in Speakers : pc[p] \notin {"idle", "after", "finish"}}

\* the current turn has nobody who answers it and was never stopped
Fresh == /\ \A p \in Speakers : pc[p] # "idle" => turnOf[p] # current
         /\ current # 0 => stops[current] = 0

\* what the reader knows between the steps of a listen
ListenSteps ==
  /\ frameStage = "none"
  /\ rpc \in {"arm", "resetStop", "stopListen"} => listening
  /\ rpc \in {"newTurn", "stopping"} => current = 0
  /\ listening \/ rpc = "listenOn" => Fresh

\* a turn that was stopped has no more voices, unless it was cut
StopIsLast ==
  \A t \in Turns : stops[t] > 0 =>
    /\ t <= nextTurnID
    /\ t \notin silenced => stops[t] = 1 /\ \A p \in Voices : turnOf[p] # t

\* the stop of a turn that is being answered, or listened to, is still to claim
StopUnclaimed ==
  /\ \A p \in Voices : turnOf[p] = current /\ pc[p] # "stopWrite" => ~ttsStopSent
  /\ listening /\ rpc \notin {"arm", "resetStop"} => ~ttsStopSent

\* writeMu is held for the current turn, or for one the reader is about to cut
HolderIsCurrent ==
  writer # NoOne /\ pc[writer] # "stopWrite" =>
    /\ ~listening
    /\ turnOf[writer] = current \/ (rpc = "stopping" /\ stopTurn = turnOf[writer])

\* a stop is claimed and written under one hold of writeMu
ClaimHolds == \A p \in Speakers : pc[p] \in {"claim", "stopWrite"} => writer = p

Alone == /\ OneVoicePerTurn /\ ListenSteps /\ StopIsLast /\ StopUnclaimed
         /\ HolderIsCurrent /\ ClaimHolds

(* The inductive invariant of a session that only the device drives. *)
DeviceAlone == IInv /\ Alone /\ ~Vad /\ Sayers = {}

\* what the proofs below use of the invariant and of the types
LEMMA AloneTypes ==
  ASSUME DeviceAlone
  PROVE  /\ Speakers = Tasks /\ NoOne \notin Speakers /\ ~Vad /\ Sayers = {}
         /\ pc \in [Speakers -> PCs] /\ turnOf \in [Speakers -> 0..MaxTurns]
         /\ stops \in [Turns -> 0..2] /\ silenced \subseteq Turns
         /\ nextTurnID \in Nat /\ current \in {0, nextTurnID}
         /\ current # 0 => current \in Turns
         /\ \A p \in Speakers : turnOf[p] \in Nat /\ turnOf[p] <= nextTurnID
         /\ \A p \in Speakers : pc[p] # "idle" => turnOf[p] \in Turns /\ turnOf[p] # 0
         /\ \A t \in silenced : t # current /\ t <= nextTurnID
         /\ writer # NoOne => /\ writer \in Speakers
                              /\ pc[writer] \in WritePCs \cup {"claim", "stopWrite"}
                              /\ turnOf[writer] \notin silenced
         /\ rpc = "stopping" => /\ stopTurn \in Turns /\ stopTurn # current
                                /\ stopTurn <= nextTurnID
         /\ OneVoicePerTurn /\ ListenSteps /\ StopIsLast /\ StopUnclaimed
         /\ HolderIsCurrent /\ ClaimHolds
<1>1. TypeOK /\ Ownership /\ Alone /\ ~Vad /\ Sayers = {}
  BY DEF DeviceAlone, IInv
<1>2. Speakers = Tasks /\ NoOne \notin Speakers
  BY <1>1, SlotAssumption DEF Speakers
<1>3. /\ pc \in [Speakers -> PCs] /\ turnOf \in [Speakers -> 0..MaxTurns]
      /\ stops \in [Turns -> 0..2] /\ silenced \subseteq Turns
      /\ nextTurnID \in 0..MaxTurns /\ current \in {0, nextTurnID}
      /\ writer \in Speakers \cup {NoOne}
  BY <1>1 DEF TypeOK, SpeakerTypes, SocketTypes, TurnTypes, Ownership, OwnerIsNewest
<1>4. nextTurnID \in Nat /\ (current # 0 => current \in Turns)
  BY <1>3, BoundAssumption DEF Turns
<1>5. \A p \in Speakers : turnOf[p] \in Nat /\ turnOf[p] <= nextTurnID
  BY <1>1, <1>3, BoundAssumption DEF Ownership, NumbersBounded
<1>6. \A p \in Speakers : pc[p] # "idle" => turnOf[p] \in Turns /\ turnOf[p] # 0
  BY <1>1, <1>3, BoundAssumption DEF Ownership, NumbersBounded, Turns
<1>7. /\ \A t \in silenced : t # current /\ t <= nextTurnID
      /\ rpc = "stopping" => stopTurn \in 1..nextTurnID \ {current}
  BY <1>1 DEF Ownership, OwnerIsNewest
<1>8. rpc = "stopping" => stopTurn \in Turns /\ stopTurn # current /\ stopTurn <= nextTurnID
  BY <1>3, <1>7, BoundAssumption DEF Turns
<1>9. writer # NoOne => /\ writer \in Speakers
                        /\ pc[writer] \in WritePCs \cup {"claim", "stopWrite"}
                        /\ turnOf[writer] \notin silenced
  BY <1>1, <1>3 DEF Ownership, HolderIsWriting, HolderMayWrite
<1> QED BY <1>1, <1>2, <1>3, <1>4, <1>5, <1>6, <1>7, <1>8, <1>9 DEF Alone

\* a step of a goroutine that stops nothing and takes nothing
Moves(p) ==
  /\ pc[p] # "idle" /\ pc'[p] \notin {"claim", "stopWrite"}
  /\ \A q \in Speakers \ {p} : pc'[q] = pc[q] /\ turnOf'[q] = turnOf[q]
  /\ turnOf'[p] = turnOf[p] \/ pc'[p] = "idle"
  /\ pc'[p] \in {"idle", "after", "finish"} \/ (p \in Voices /\ pc[p] # "stopWrite")
  /\ current' = current \/ (current' = 0 /\ current = turnOf[p] /\ pc'[p] = "idle")
  /\ (writer' = NoOne /\ writer = p) \/ (writer' = writer /\ writer # p)
  /\ UNCHANGED <<nextTurnID, stops, silenced, ttsStopSent, listening, rpc, stopTurn,
                 frameStage>>

\* such a step keeps the invariant
LEMMA MovesAlone ==
  ASSUME DeviceAlone, NEW p \in Speakers, Moves(p) PROVE Alone'
<1>1. \A q \in Speakers : pc'[q] # "idle" => pc[q] # "idle" /\ turnOf'[q] = turnOf[q]
  BY DEF Moves
<1>2. \A q \in Voices' : /\ q \in Voices /\ turnOf'[q] = turnOf[q] /\ q \in Speakers
                         /\ pc'[q] # "stopWrite" => pc[q] # "stopWrite"
  BY DEF Moves, Voices
<1>3. \A q \in Speakers : q # p /\ pc[q] # "idle" /\ turnOf[q] = current => current' = current
  BY AloneTypes DEF Moves, OneVoicePerTurn
<1>4. OneVoicePerTurn'
  BY <1>1, AloneTypes DEF OneVoicePerTurn
<1>5. ListenSteps'
  <2>1. Fresh => Fresh'
    BY <1>1, AloneTypes DEF Moves, Fresh
  <2>2. rpc \in {"newTurn", "stopping"} => current' = 0
    BY AloneTypes DEF Moves, ListenSteps
  <2> QED BY <2>1, <2>2, AloneTypes DEF Moves, ListenSteps
<1>6. StopIsLast'
  BY <1>2, AloneTypes DEF Moves, StopIsLast
<1>7. StopUnclaimed'
  <2>1. \A q \in Voices' : turnOf'[q] = current' => current' = current
    BY <1>2, AloneTypes DEF Moves, Voices
  <2> QED BY <1>2, <2>1, AloneTypes DEF Moves, StopUnclaimed
<1>8. HolderIsCurrent'
  <2>1. writer' # NoOne => writer' = writer /\ writer # p /\ writer \in Speakers
    BY AloneTypes DEF Moves
  <2>2. writer' # NoOne => pc'[writer] = pc[writer] /\ turnOf'[writer] = turnOf[writer]
                             /\ pc[writer] # "idle"
    BY <2>1, AloneTypes DEF Moves, WritePCs
  <2> QED BY <1>3, <2>1, <2>2, AloneTypes DEF Moves, HolderIsCurrent
<1>9. ClaimHolds'
  BY AloneTypes DEF Moves, ClaimHolds
<1> QED BY <1>4, <1>5, <1>6, <1>7, <1>8, <1>9 DEF Alone

\* most steps of an answer are of that kind
LEMMA AnswerMoves ==
  ASSUME DeviceAlone, NEW p \in Speakers,
         \/ DrainDone(p) \/ Refused(p) \/ WriteFails(p) \/ WriteStart(p) \/ RunProvider(p)
         \/ WriteSentence(p) \/ NextChunk(p) \/ ChunkLost(p) \/ AnswerCancelled(p)
         \/ WriteFrame(p) \/ MarkDownlink(p) \/ SpeechEnds(p) \/ HandleBroken(p)
         \/ StopSuppressed(p) \/ AfterStop(p) \/ FinishTask(p)
  PROVE  Moves(p)
<1> USE AloneTypes DEF Moves, Voices, GoTo, Return, WritePCs, sessionVars, socketVars,
        inputVars, wireVars, turnVars, readerVars, ingressVars, listenVars
<1>1. CASE DrainDone(p)
  BY <1>1 DEF DrainDone
<1>2. CASE Refused(p) \/ WriteFails(p)
  BY <1>2 DEF Refused, WriteFails, FailWrite, AfterFailedWrite
<1>3. CASE WriteStart(p)
  BY <1>3 DEF WriteStart
<1>4. CASE RunProvider(p)
  BY <1>4 DEF RunProvider
<1>5. CASE WriteSentence(p) \/ WriteFrame(p)
  BY <1>5 DEF WriteSentence, WriteFrame
<1>6. CASE NextChunk(p) \/ ChunkLost(p) \/ AnswerCancelled(p)
  BY <1>6 DEF NextChunk, ChunkLost, AnswerCancelled
<1>7. CASE MarkDownlink(p) \/ AfterStop(p)
  BY <1>7 DEF MarkDownlink, AfterStop
<1>8. CASE SpeechEnds(p) \/ StopSuppressed(p)
  BY <1>8 DEF SpeechEnds, StopSuppressed
<1>9. CASE HandleBroken(p)
  BY <1>9 DEF HandleBroken, CancelContext
<1>10. CASE FinishTask(p)
  BY <1>10 DEF FinishTask, CompleteTurn
<1> QED BY <1>1, <1>2, <1>3, <1>4, <1>5, <1>6, <1>7, <1>8, <1>9, <1>10

\* writeMu is only taken for the current turn, which is not being listened to
LEMMA AcquireAlone ==
  ASSUME DeviceAlone, NEW p \in Speakers, Acquire(p) PROVE Alone'
<1> USE DEF sessionVars, wireVars, inputVars, turnVars, readerVars, ingressVars, listenVars
<1>1. /\ pc[p] \in WritePCs \cup {"stop"} /\ writer = NoOne /\ writer' = p
      /\ current = turnOf[p] /\ p \in Voices /\ p \in Voices'
      /\ pc'[p] = pc[p] \/ (pc[p] = "stop" /\ pc'[p] = "claim")
      /\ \A q \in Speakers \ {p} : pc'[q] = pc[q]
      /\ UNCHANGED <<turnOf, current, nextTurnID, stops, silenced, ttsStopSent, listening,
                     rpc, stopTurn, frameStage>>
  BY AloneTypes DEF Acquire, Aborted, GoTo, Voices, WritePCs
<1>2. ~Fresh
  BY <1>1, AloneTypes DEF Fresh, WritePCs
<1>3. ~listening /\ rpc # "listenOn"
  BY <1>2, AloneTypes DEF ListenSteps
<1>4. Voices' = Voices
  BY <1>1, AloneTypes DEF Voices, WritePCs
<1>5. \A q \in Speakers : pc'[q] = "stopWrite" <=> pc[q] = "stopWrite"
  BY <1>1, AloneTypes DEF WritePCs
<1>6. OneVoicePerTurn'
  BY <1>1, AloneTypes DEF OneVoicePerTurn, WritePCs
<1>7. ListenSteps'
  BY <1>1, <1>3, AloneTypes DEF ListenSteps
<1>8. StopIsLast'
  BY <1>1, <1>4, AloneTypes DEF StopIsLast
<1>9. StopUnclaimed'
  BY <1>1, <1>4, <1>5, AloneTypes DEF StopUnclaimed, Voices
<1>10. HolderIsCurrent' /\ ClaimHolds'
  BY <1>1, <1>3, AloneTypes DEF HolderIsCurrent, ClaimHolds, WritePCs
<1> QED BY <1>6, <1>7, <1>8, <1>9, <1>10 DEF Alone

\* ttsStopSent is claimed once: it was clear, or the turn has just been cut
LEMMA ClaimAlone ==
  ASSUME DeviceAlone, NEW p \in Speakers, ClaimStop(p) PROVE Alone'
<1> USE DEF wireVars, inputVars, turnVars, readerVars, ingressVars, listenVars, GoTo
<1>1. /\ pc[p] = "claim" /\ writer = p /\ ttsStopSent' = TRUE
      /\ \/ pc'[p] = "finish" /\ writer' = NoOne
         \/ pc'[p] = "stopWrite" /\ writer' = p
      /\ \A q \in Speakers \ {p} : pc'[q] = pc[q]
      /\ UNCHANGED <<turnOf, current, nextTurnID, stops, silenced, listening, rpc, stopTurn,
                     frameStage>>
  BY AloneTypes DEF ClaimStop
<1>2. ~listening /\ (turnOf[p] = current \/ (rpc = "stopping" /\ stopTurn = turnOf[p]))
  BY <1>1, AloneTypes DEF HolderIsCurrent
<1>3. rpc # "listenOn"
  BY <1>1, <1>2, AloneTypes DEF ListenSteps, Fresh
<1>4. Voices' \subseteq Voices
  BY <1>1, AloneTypes DEF Voices
<1>5. OneVoicePerTurn'
  BY <1>1, AloneTypes DEF OneVoicePerTurn
<1>6. ListenSteps'
  BY <1>1, <1>2, <1>3, AloneTypes DEF ListenSteps
<1>7. StopIsLast'
  BY <1>1, <1>4, AloneTypes DEF StopIsLast
<1>8. StopUnclaimed'
  <2>1. ASSUME NEW q \in Voices', turnOf'[q] = current', pc'[q] # "stopWrite" PROVE FALSE
    <3>1. q \in Speakers /\ q # p /\ turnOf[q] = current
      BY <1>1, <2>1, AloneTypes DEF Voices
    <3>2. current # 0 /\ pc[q] # "idle" /\ turnOf[q] # turnOf[p]
      BY <1>1, <2>1, <3>1, AloneTypes DEF Voices, OneVoicePerTurn
    <3>3. rpc = "stopping"
      BY <1>2, <3>1, <3>2
    <3> QED BY <3>2, <3>3, AloneTypes DEF ListenSteps
  <2> QED BY <1>1, <1>2, <2>1 DEF StopUnclaimed
<1>9. HolderIsCurrent' /\ ClaimHolds'
  BY <1>1, <1>2, AloneTypes DEF HolderIsCurrent, ClaimHolds
<1> QED BY <1>5, <1>6, <1>7, <1>8, <1>9 DEF Alone

\* the stop is the first of its turn, and its turn's only voice has written it
LEMMA WriteStopAlone ==
  ASSUME DeviceAlone, NEW p \in Speakers, WriteStop(p) PROVE Alone'
<1> USE DEF sessionVars, wireVars, inputVars, turnVars, readerVars, ingressVars, listenVars,
        GoTo
<1>1. /\ pc[p] = "stopWrite" /\ writer = p /\ writer' = NoOne
      /\ pc'[p] \in {"after", "finish"}
      /\ \A q \in Speakers \ {p} : pc'[q] = pc[q]
      /\ \/ stops' = stops
         \/ stops' = [stops EXCEPT ![turnOf[p]] = IF @ < 2 THEN @ + 1 ELSE 2]
      /\ UNCHANGED <<turnOf, current, nextTurnID, silenced, ttsStopSent, listening, rpc,
                     stopTurn, frameStage>>
  BY AloneTypes DEF WriteStop, CountStop
<1>2. /\ turnOf[p] \in Turns /\ turnOf[p] \notin silenced /\ turnOf[p] # 0
      /\ turnOf[p] <= nextTurnID
  BY <1>1, AloneTypes
<1>3. p \in Voices /\ p \notin Voices' /\ Voices' = Voices \ {p}
  BY <1>1, AloneTypes DEF Voices
<1>4. stops[turnOf[p]] = 0
  BY <1>2, <1>3, AloneTypes DEF StopIsLast
<1>5. \A t \in Turns : t # turnOf[p] => stops'[t] = stops[t]
  BY <1>1, AloneTypes
<1>6. stops'[turnOf[p]] \in {0, 1}
  BY <1>1, <1>2, <1>4, AloneTypes
<1>7. OneVoicePerTurn'
  BY <1>1, AloneTypes DEF OneVoicePerTurn
<1>8. ListenSteps'
  <2>1. Fresh => Fresh'
    BY <1>1, <1>2, <1>5, AloneTypes DEF Fresh
  <2> QED BY <1>1, <2>1, AloneTypes DEF ListenSteps
<1>9. StopIsLast'
  <2>1. ASSUME NEW t \in Turns, stops'[t] > 0, t # turnOf[p]
        PROVE  t <= nextTurnID /\ (t \notin silenced =>
                 stops'[t] = 1 /\ \A q \in Voices' : turnOf[q] # t)
    BY <1>3, <1>5, <2>1, AloneTypes DEF StopIsLast
  <2>2. \A q \in Voices' : turnOf[q] # turnOf[p]
    BY <1>1, <1>3, AloneTypes DEF Voices, OneVoicePerTurn
  <2>3. stops'[turnOf[p]] > 0 => stops'[turnOf[p]] = 1
    BY <1>6
  <2> QED BY <1>1, <1>2, <2>1, <2>2, <2>3 DEF StopIsLast
<1>10. StopUnclaimed'
  BY <1>1, <1>3, AloneTypes DEF StopUnclaimed, Voices
<1>11. HolderIsCurrent' /\ ClaimHolds'
  BY <1>1, AloneTypes DEF HolderIsCurrent, ClaimHolds
<1> QED BY <1>7, <1>8, <1>9, <1>10, <1>11 DEF Alone

\* an interrupt leaves no current turn, and the stop it names stays the holder's
LEMMA PrepareAlone ==
  ASSUME DeviceAlone, NEW why, NEW next \in {"idle", "newTurn"}, PrepareBargeIn(why, next),
         rpc \in {"idle", "abort"},
         listening' = listening \/ listening' = FALSE,
         UNCHANGED <<pc, turnOf, stops, silenced, ttsStopSent, writer, frameStage>>
  PROVE  Alone'
<1> USE DEF turnVars
<1>1. /\ current' = 0 /\ nextTurnID' = nextTurnID
      /\ \/ rpc' = "stopping" /\ stopTurn' = current /\ current # 0
         \/ rpc' \in {"stopping", next} /\ current = 0
         \/ rpc' = next /\ ttsStopSent
  BY AloneTypes DEF PrepareBargeIn
<1>2. listening' => listening
  <2>1. CASE listening' = listening
    BY <2>1, Zenon
  <2>2. CASE listening' = FALSE
    BY <2>2
  <2> QED BY <2>1, <2>2
<1>3. \A p \in Speakers : pc[p] # "idle" => turnOf[p] # 0
  BY AloneTypes
<1>4. rpc' \notin {"arm", "resetStop", "stopListen", "listenOn"}
  BY <1>1
<1>5. Voices' = Voices
  BY DEF Voices
<1>6. OneVoicePerTurn'
  BY AloneTypes DEF OneVoicePerTurn
<1>7. ListenSteps'
  BY <1>1, <1>2, <1>3, <1>4, AloneTypes DEF ListenSteps, Fresh
<1>8. StopIsLast'
  BY <1>1, <1>5, AloneTypes DEF StopIsLast
<1>9. StopUnclaimed'
  <2>1. \A p \in Voices' : turnOf'[p] # current'
    BY <1>1, <1>3, <1>5 DEF Voices
  <2>2. listening' => ~ttsStopSent'
    BY <1>2, AloneTypes DEF StopUnclaimed
  <2> QED BY <2>1, <2>2 DEF StopUnclaimed
<1>10. HolderIsCurrent'
  <2>1. SUFFICES ASSUME writer # NoOne, pc[writer] # "stopWrite"
                 PROVE  ~listening' /\ rpc' = "stopping" /\ stopTurn' = turnOf[writer]
    BY DEF HolderIsCurrent
  <2>2. ~listening /\ turnOf[writer] = current /\ writer \in Voices
    BY <2>1, AloneTypes DEF HolderIsCurrent, Voices, WritePCs
  <2>3. current # 0 /\ ~ttsStopSent
    BY <2>1, <2>2, AloneTypes DEF StopUnclaimed, Voices
  <2> QED BY <1>1, <1>2, <2>2, <2>3
<1>11. ClaimHolds'
  BY AloneTypes DEF ClaimHolds
<1> QED BY <1>6, <1>7, <1>8, <1>9, <1>10, <1>11 DEF Alone

\* a step that starts no turn, answers none and writes nothing
LEMMA SameAlone ==
  ASSUME DeviceAlone, UNCHANGED <<pc, turnOf, current, nextTurnID, stops, silenced, writer,
                                  stopTurn, frameStage>>,
         listening' => listening, ttsStopSent' => ttsStopSent,
         \/ rpc' = rpc
         \/ rpc = "idle" /\ rpc' \in {"abort", "closed"}
         \/ rpc = "idle" /\ rpc' = "stopListen" /\ listening'
         \/ rpc = "arm" /\ rpc' = "resetStop"
         \/ rpc = "resetStop" /\ rpc' = "idle" /\ ~ttsStopSent',
         rpc \in {"arm", "resetStop", "stopListen"} => (listening => listening')
  PROVE  Alone'
<1>1. Voices' = Voices /\ (Fresh => Fresh')
  BY DEF Voices, Fresh
<1>2. OneVoicePerTurn'
  BY AloneTypes DEF OneVoicePerTurn
<1>3. ListenSteps'
  BY <1>1, AloneTypes DEF ListenSteps
<1>4. StopIsLast'
  BY <1>1, AloneTypes DEF StopIsLast
<1>5. StopUnclaimed'
  <2>1. \A p \in Voices : turnOf[p] = current /\ pc[p] # "stopWrite" => ~ttsStopSent'
    BY AloneTypes DEF StopUnclaimed
  <2>2. listening' /\ rpc' \notin {"arm", "resetStop"} => ~ttsStopSent'
    BY AloneTypes DEF StopUnclaimed
  <2> QED BY <1>1, <2>1, <2>2 DEF StopUnclaimed
<1>6. HolderIsCurrent'
  BY AloneTypes DEF HolderIsCurrent
<1>7. ClaimHolds'
  BY AloneTypes DEF ClaimHolds
<1> QED BY <1>2, <1>3, <1>4, <1>5, <1>6, <1>7 DEF Alone

\* messages of the device
LEMMA MessageAlone ==
  ASSUME DeviceAlone, DeviceMessage PROVE Alone'
<1> USE DEF Receive, sessionVars, socketVars, inputVars, speakerVars, wireVars, turnVars,
        readerVars, ingressVars, listenVars
<1>1. CASE Hello
  BY <1>1, SameAlone DEF Hello
<1>2. CASE ListenStartSuppressed
  <2>1. ttsStopSent' => ttsStopSent
    BY <1>2, Zenon DEF ListenStartSuppressed
  <2> QED BY <1>2, <2>1, SameAlone DEF ListenStartSuppressed
<1>3. CASE ListenStart
  <2>1. listening' = listening
    BY <1>3, Zenon DEF ListenStart
  <2>2. UNCHANGED <<pc, turnOf, stops, silenced, ttsStopSent, writer, frameStage>>
    BY <1>3, Zenon DEF ListenStart
  <2> QED BY <1>3, <2>1, <2>2, PrepareAlone DEF ListenStart
<1>4. CASE ListenStop
  <2>1. (ttsStopSent' => ttsStopSent) /\ listening' = listening /\ listening
    BY <1>4, Zenon DEF ListenStop
  <2>2. listening' /\ listening
    BY <2>1, Zenon
  <2> QED BY <1>4, <2>1, <2>2, SameAlone DEF ListenStop
<1>5. CASE ListenStopIgnored
  <2>1. (ttsStopSent' => ttsStopSent) /\ (listening' => listening)
    BY <1>5, Zenon DEF ListenStopIgnored
  <2> QED BY <1>5, <2>1, SameAlone DEF ListenStopIgnored
<1>6. CASE Abort
  <2>1. (ttsStopSent' => ttsStopSent)
    BY <1>6, Zenon DEF Abort
  <2> QED BY <1>6, <2>1, SameAlone DEF Abort
<1>7. CASE TouchBargeIn
  <2>1. listening' = listening
    BY <1>7, Zenon DEF TouchBargeIn
  <2>2. UNCHANGED <<pc, turnOf, stops, silenced, ttsStopSent, writer, frameStage>>
    BY <1>7, Zenon DEF TouchBargeIn
  <2> QED BY <1>7, <2>1, <2>2, PrepareAlone DEF TouchBargeIn
<1>8. CASE PlaybackStopDone
  <2>1. (ttsStopSent' => ttsStopSent) /\ (listening' => listening)
    BY <1>8, Zenon DEF PlaybackStopDone
  <2> QED BY <1>8, <2>1, SameAlone DEF PlaybackStopDone
<1> QED BY <1>1, <1>2, <1>3, <1>4, <1>5, <1>6, <1>7, <1>8 DEF DeviceMessage

\* a forced stop cuts a turn that is not the current one
LEMMA ForcedAlone ==
  ASSUME DeviceAlone, ForcedStop PROVE Alone'
<1> USE DEF sessionVars, ingressVars, speakerVars, turnVars, listenVars
<1>1. /\ rpc = "stopping" /\ writer = NoOne /\ rpc' = afterStop
      /\ stopTurn \in Turns /\ stopTurn <= nextTurnID /\ stopTurn # current
      /\ UNCHANGED <<pc, turnOf, current, nextTurnID, writer, frameStage, ttsStopSent,
                     listening>>
  <2>1. UNCHANGED <<pc, turnOf, current, nextTurnID, writer, frameStage, ttsStopSent,
                    listening>>
    BY Zenon DEF ForcedStop
  <2> QED BY <2>1, AloneTypes DEF ForcedStop
<1>2. afterStop \in {"idle", "newTurn"}
  BY DEF DeviceAlone, IInv, TypeOK, StepTypes
<1>3. /\ \A t \in Turns : t # stopTurn => stops'[t] = stops[t]
      /\ silenced \subseteq silenced'
      /\ stopTurn \in silenced' \/ stops' = stops
  BY <1>1, AloneTypes DEF ForcedStop, CountStop
<1>4. Voices' = Voices
  BY <1>1 DEF Voices
<1>5. listening' = listening /\ ttsStopSent' = ttsStopSent
  BY <1>1, Zenon
<1>6. OneVoicePerTurn'
  BY <1>1, AloneTypes DEF OneVoicePerTurn
<1>7. ListenSteps'
  BY <1>1, <1>2, <1>5, AloneTypes DEF ListenSteps, Fresh
<1>8. StopIsLast'
  BY <1>1, <1>3, <1>4, AloneTypes DEF StopIsLast
<1>9. StopUnclaimed'
  BY <1>1, <1>4, <1>5, AloneTypes DEF StopUnclaimed
<1>10. HolderIsCurrent' /\ ClaimHolds'
  BY <1>1, AloneTypes DEF HolderIsCurrent, ClaimHolds
<1> QED BY <1>6, <1>7, <1>8, <1>9, <1>10 DEF Alone

\* startXiaozhiTurn for a listen: nobody has the new turn, nothing was stopped for it
LEMMA NewTurnAlone ==
  ASSUME DeviceAlone, ListenNewTurn PROVE Alone'
<1> USE DEF listenVars, socketVars, ingressVars, speakerVars, wireVars
<1>1. UNCHANGED <<pc, turnOf, stops, silenced, writer, frameStage, ttsStopSent, listening>>
  BY Zenon DEF ListenNewTurn
<1>2. /\ rpc = "newTurn" /\ rpc' = "listenOn" /\ current = 0
      /\ nextTurnID' = nextTurnID + 1 /\ current' = nextTurnID + 1
  BY AloneTypes DEF ListenNewTurn, StartTurn, ListenSteps
<1>3. current' \in Turns
  <2>1. nextTurnID < MaxTurns
    BY <1>2 DEF DeviceAlone, IInv, Ownership, NumbersBounded, ListenPending
  <2> QED BY <1>2, <2>1, AloneTypes DEF Turns
<1>4. Voices' = Voices
  BY <1>1 DEF Voices
<1>5. \A p \in Speakers : turnOf'[p] # current'
  BY <1>1, <1>2, AloneTypes
<1>6. stops'[current'] = 0
  BY <1>1, <1>2, <1>3, AloneTypes DEF StopIsLast
<1>7. listening' = listening /\ ttsStopSent' = ttsStopSent
  BY <1>1, Zenon
<1>8. OneVoicePerTurn'
  BY <1>1, AloneTypes DEF OneVoicePerTurn
<1>9. ListenSteps'
  BY <1>1, <1>2, <1>5, <1>6, AloneTypes DEF ListenSteps, Fresh
<1>10. StopIsLast'
  <2>1. \A t \in Turns : t <= nextTurnID => t <= nextTurnID'
    BY <1>2, AloneTypes DEF Turns
  <2> QED BY <1>1, <1>4, <2>1, AloneTypes DEF StopIsLast
<1>11. StopUnclaimed'
  <2>1. \A p \in Voices' : turnOf'[p] # current'
    BY <1>5 DEF Voices
  <2>2. listening' => ~ttsStopSent'
    BY <1>2, <1>7, AloneTypes DEF StopUnclaimed
  <2> QED BY <2>1, <2>2 DEF StopUnclaimed
<1>12. HolderIsCurrent'
  <2>1. writer # NoOne /\ pc[writer] # "stopWrite" => turnOf[writer] = 0
    BY <1>2, AloneTypes DEF HolderIsCurrent
  <2> QED BY <1>1, <2>1, AloneTypes DEF HolderIsCurrent, WritePCs
<1>13. ClaimHolds'
  BY <1>1, AloneTypes DEF ClaimHolds
<1> QED BY <1>8, <1>9, <1>10, <1>11, <1>12, <1>13 DEF Alone

\* the device listens to a turn nobody answers, and its stop hands it to one goroutine
LEMMA ListenAlone ==
  ASSUME DeviceAlone, ListenOn \/ ListenStopClear PROVE Alone'
<1> USE DEF turnVars, socketVars, ingressVars, speakerVars, wireVars
<1>1. Fresh
  BY AloneTypes DEF ListenOn, ListenStopClear, ListenSteps
<1>2. writer # NoOne => pc[writer] = "stopWrite"
  <2>1. CASE ListenOn
    BY <1>1, <2>1, AloneTypes DEF ListenOn, HolderIsCurrent, Fresh, WritePCs
  <2>2. CASE ListenStopClear
    BY <2>2, AloneTypes DEF ListenStopClear, HolderIsCurrent, ListenSteps
  <2> QED BY <2>1, <2>2
<1>3. /\ UNCHANGED <<current, nextTurnID, stops, silenced, writer, frameStage, ttsStopSent>>
      /\ ttsStopSent' = ttsStopSent
  BY Zenon DEF ListenOn, ListenStopClear
<1>4. CASE UNCHANGED <<pc, turnOf>> /\ ListenOn
  <2>1. Voices' = Voices /\ Fresh'
    BY <1>1, <1>3, <1>4 DEF Voices, Fresh
  <2>2. listening' /\ rpc' = "arm"
    BY <1>4 DEF ListenOn
  <2>3. OneVoicePerTurn' /\ ClaimHolds'
    BY <1>3, <1>4, AloneTypes DEF OneVoicePerTurn, ClaimHolds
  <2>4. ListenSteps'
    BY <1>3, <2>1, <2>2, AloneTypes DEF ListenSteps
  <2>5. StopIsLast'
    BY <1>3, <1>4, <2>1, AloneTypes DEF StopIsLast
  <2>6. StopUnclaimed'
    BY <1>3, <1>4, <2>1, <2>2, AloneTypes DEF StopUnclaimed
  <2>7. HolderIsCurrent'
    BY <1>2, <1>3, <1>4 DEF HolderIsCurrent
  <2> QED BY <2>3, <2>4, <2>5, <2>6, <2>7 DEF Alone
<1>5. CASE UNCHANGED <<pc, turnOf>> /\ ListenStopClear
  <2>1. Voices' = Voices
    BY <1>5 DEF Voices
  <2>2. listening' = FALSE /\ rpc' = "idle"
    BY <1>5 DEF ListenStopClear
  <2>3. OneVoicePerTurn' /\ ClaimHolds'
    BY <1>3, <1>5, AloneTypes DEF OneVoicePerTurn, ClaimHolds
  <2>4. ListenSteps'
    BY <1>3, <2>2, AloneTypes DEF ListenSteps
  <2>5. StopIsLast'
    BY <1>3, <1>5, <2>1, AloneTypes DEF StopIsLast
  <2>6. StopUnclaimed'
    BY <1>3, <1>5, <2>1, <2>2, AloneTypes DEF StopUnclaimed
  <2>7. HolderIsCurrent'
    BY <1>2, <1>3, <1>5 DEF HolderIsCurrent
  <2> QED BY <2>3, <2>4, <2>5, <2>6, <2>7 DEF Alone
<1>6. CASE current # 0 /\ ListenStopClear
  <2>1. listening' = FALSE /\ rpc' = "idle" /\ rpc = "stopListen" /\ ~ttsStopSent
    BY <1>6, AloneTypes DEF ListenStopClear, ListenSteps, StopUnclaimed
  <2>2. PICK q \in IdleTasks : Spawn(q, current, "drain")
    BY <1>6 DEF ListenStopClear
  <2>3. /\ q \in Speakers /\ pc[q] = "idle" /\ pc'[q] = "drain" /\ turnOf'[q] = current
        /\ \A p \in Speakers \ {q} : pc'[p] = pc[p] /\ turnOf'[p] = turnOf[p]
    BY <2>2, AloneTypes DEF IdleTasks, Spawn
  <2>4. Voices' = Voices \cup {q}
    BY <2>3 DEF Voices
  <2>5. OneVoicePerTurn'
    BY <1>1, <2>3, AloneTypes DEF OneVoicePerTurn, Fresh
  <2>6. ListenSteps'
    BY <1>3, <2>1, AloneTypes DEF ListenSteps
  <2>7. StopIsLast'
    <3>1. stops[current] = 0
      BY <1>1, <1>6 DEF Fresh
    <3>2. \A p \in Voices : p # q
      BY <2>3 DEF Voices
    <3> QED BY <1>3, <2>3, <2>4, <3>1, <3>2, AloneTypes DEF StopIsLast, Voices
  <2>8. StopUnclaimed'
    BY <1>3, <2>1 DEF StopUnclaimed
  <2>9. HolderIsCurrent' /\ ClaimHolds'
    BY <1>2, <1>3, <2>3, AloneTypes DEF HolderIsCurrent, ClaimHolds
  <2> QED BY <2>5, <2>6, <2>7, <2>8, <2>9 DEF Alone
<1>7. UNCHANGED <<pc, turnOf>> \/ (current # 0 /\ ListenStopClear)
  BY DEF ListenOn, ListenStopClear
<1> QED BY <1>4, <1>5, <1>6, <1>7

\* steps of the reader goroutine
LEMMA ReaderAlone ==
  ASSUME DeviceAlone, ReaderStep PROVE Alone'
<1> USE DEF sessionVars, socketVars, speakerVars, wireVars, turnVars, ingressVars, listenVars
<1>1. CASE ListenNewTurn \/ ListenOn \/ ListenStopClear \/ ForcedStop
  BY <1>1, NewTurnAlone, ListenAlone, ForcedAlone
<1>2. CASE ListenArm
  <2>1. (ttsStopSent' => ttsStopSent) /\ (listening' => listening) /\ (listening => listening')
    BY <1>2, Zenon DEF ListenArm
  <2> QED BY <1>2, <2>1, SameAlone DEF ListenArm
<1>3. CASE ListenResetStop
  <2>1. (listening' => listening) /\ (listening => listening')
    BY <1>3, Zenon DEF ListenResetStop
  <2> QED BY <1>3, <2>1, SameAlone DEF ListenResetStop
<1>4. CASE AbortPrepare
  <2>1. listening' = listening
    BY <1>4, Zenon DEF AbortPrepare
  <2>2. UNCHANGED <<pc, turnOf, stops, silenced, ttsStopSent, writer, frameStage>>
    BY <1>4, Zenon DEF AbortPrepare
  <2> QED BY <1>4, <2>1, <2>2, PrepareAlone DEF AbortPrepare
<1>5. CASE ReaderExit
  <2>1. (ttsStopSent' => ttsStopSent) /\ (listening' => listening)
    BY <1>5, Zenon DEF ReaderExit
  <2> QED BY <1>5, <2>1, SameAlone DEF ReaderExit
<1> QED BY <1>1, <1>2, <1>3, <1>4, <1>5 DEF ReaderStep

\* steps of an answer; there is nobody else to speak
LEMMA VoiceAlone ==
  ASSUME DeviceAlone, NEW p \in Speakers, SayBegin(p) \/ SayClientGone(p) \/ SpeakerStep(p)
  PROVE  Alone'
<1>1. Sayers = {}
  BY AloneTypes
<1>2. ~(SayBegin(p) \/ SayClientGone(p) \/ SayResetStop(p) \/ JudgeSay(p) \/ FinishSay(p))
  BY <1>1 DEF SayBegin, SayClientGone, SayResetStop, JudgeSay, FinishSay
<1> QED
  BY <1>2, AnswerMoves, MovesAlone, AcquireAlone, ClaimAlone, WriteStopAlone DEF SpeakerStep

\* the ingress worker, the clock, the network, and stuttering
LEMMA OthersAlone ==
  ASSUME DeviceAlone,
         \/ FrameQueued \/ IngressStep \/ CooldownExpires \/ InterruptWindowExpires
         \/ SocketDies \/ SessionOver \/ UNCHANGED vars
  PROVE  Alone'
<1>1. ~Vad /\ frameStage = "none"
  BY AloneTypes DEF ListenSteps
<1>2. ~(FrameQueued \/ IngressStep)
  BY <1>1 DEF FrameQueued, IngressStep, FrameChecked, FrameAppended, AutoStop, NoAutoStop
<1> USE DEF vars, sessionVars, socketVars, inputVars, speakerVars, wireVars, turnVars,
        readerVars, ingressVars, listenVars
<1>3. /\ UNCHANGED <<pc, turnOf, current, nextTurnID, stops, silenced, writer, stopTurn,
                     frameStage, rpc>>
      /\ UNCHANGED <<listening, ttsStopSent>>
  <2>1. CASE CooldownExpires
    BY <2>1, Zenon DEF CooldownExpires
  <2>2. CASE InterruptWindowExpires
    BY <2>2, Zenon DEF InterruptWindowExpires
  <2>3. CASE SocketDies
    BY <2>3, Zenon DEF SocketDies
  <2>4. CASE SessionOver \/ UNCHANGED vars
    BY <2>4, Zenon DEF SessionOver
  <2> QED BY <1>2, <2>1, <2>2, <2>3, <2>4
<1>4. /\ (listening' => listening) /\ (listening => listening')
      /\ ttsStopSent' => ttsStopSent
  BY <1>3, Zenon
<1> QED BY <1>3, <1>4, SameAlone

\* the invariant is inductive
LEMMA NextAlone == DeviceAlone /\ [Next]_vars => DeviceAlone'
<1> SUFFICES ASSUME DeviceAlone, [Next]_vars PROVE DeviceAlone'
  OBVIOUS
<1>1. IInv'
  BY NextKeeps DEF DeviceAlone
<1>2. Alone'
  BY MessageAlone, ReaderAlone, VoiceAlone, OthersAlone DEF Next
<1> QED BY <1>1, <1>2 DEF DeviceAlone

\* it holds before hello
LEMMA InitAlone ==
  ASSUME Init, Vad = FALSE, Sayers = {} PROVE DeviceAlone
<1>1. IInv
  BY InitEstablishes
<1>2. OneVoicePerTurn /\ ClaimHolds /\ HolderIsCurrent
  BY DEF Init, OneVoicePerTurn, ClaimHolds, HolderIsCurrent
<1>3. ListenSteps
  BY DEF Init, ListenSteps
<1>4. StopIsLast
  BY DEF Init, StopIsLast
<1>5. StopUnclaimed
  BY DEF Init, StopUnclaimed
<1> QED BY <1>1, <1>2, <1>3, <1>4, <1>5 DEF DeviceAlone, Alone

\* only the guarded messages and the forced stop reach the device
LEMMA Writers ==
  ASSUME [Next]_vars
  PROVE  \/ UNCHANGED <<wire, heard, speaking>>
         \/ ForcedStop
         \/ \E p \in Speakers :
              WriteStart(p) \/ WriteSentence(p) \/ WriteFrame(p) \/ WriteStop(p)
<1> USE DEF vars, sessionVars, socketVars, inputVars, speakerVars, wireVars
<1>1. CASE DeviceMessage
  BY <1>1 DEF DeviceMessage, Hello, ListenStartSuppressed, ListenStart, ListenStop,
     ListenStopIgnored, Abort, TouchBargeIn, PlaybackStopDone
<1>2. CASE ReaderStep
  BY <1>2 DEF ReaderStep, ListenNewTurn, ListenOn, ListenArm, ListenResetStop,
     ListenStopClear, AbortPrepare, ReaderExit
<1>3. CASE FrameQueued \/ IngressStep
  BY <1>3 DEF FrameQueued, IngressStep, FrameChecked, FrameAppended, AutoStop, NoAutoStop
<1>4. ASSUME NEW p \in Speakers, SayBegin(p) \/ SayClientGone(p)
      PROVE  UNCHANGED <<wire, heard, speaking>>
  BY <1>4 DEF SayBegin, SayClientGone
<1>5. ASSUME NEW p \in Speakers, SpeakerStep(p)
      PROVE  \/ UNCHANGED <<wire, heard, speaking>>
             \/ WriteStart(p) \/ WriteSentence(p) \/ WriteFrame(p) \/ WriteStop(p)
  BY <1>5 DEF SpeakerStep, SayResetStop, DrainDone, Acquire, Refused, WriteFails,
     RunProvider, NextChunk, ChunkLost, AnswerCancelled, MarkDownlink, SpeechEnds,
     HandleBroken, JudgeSay, StopSuppressed, ClaimStop, AfterStop, FinishTask, FinishSay
<1>6. CASE CooldownExpires \/ InterruptWindowExpires \/ SocketDies \/ SessionOver
  BY <1>6 DEF CooldownExpires, InterruptWindowExpires, SocketDies, SessionOver
<1>7. CASE UNCHANGED vars
  BY <1>7
<1> QED BY <1>1, <1>2, <1>3, <1>4, <1>5, <1>6, <1>7 DEF Next

\* a part of an answer is written by the goroutine that holds writeMu
LEMMA AnswerWriter ==
  ASSUME [Next]_vars, wire' # wire, wire'.kind = "answer"
  PROVE  \E p \in Speakers : writer = p /\ pc[p] \in WritePCs /\ wire'.turn = turnOf[p]
<1>1. ~ForcedStop
  BY DEF ForcedStop
<1>2. \A p \in Speakers : ~WriteStop(p)
  BY DEF WriteStop, Send
<1>3. PICK p \in Speakers : WriteStart(p) \/ WriteSentence(p) \/ WriteFrame(p)
  BY <1>1, <1>2, Writers
<1>4. writer = p /\ pc[p] \in WritePCs /\ wire'.turn = turnOf[p]
  BY <1>3 DEF WriteStart, WriteSentence, WriteFrame, Send, WritePCs
<1> QED BY <1>4

\* The invariant holds as long as only the device drives the session.
THEOREM AloneInductive == ASSUME Vad = FALSE, Sayers = {} PROVE Spec => []DeviceAlone
<1>1. Init => DeviceAlone
  BY InitAlone
<1> QED BY <1>1, NextAlone, PTL DEF Spec

\* Two goroutines never speak for one turn: a listen stop hands the turn to a
\* goroutine only while no other has it (handleXiaozhiListenStop).
THEOREM OneVoice == ASSUME Vad = FALSE, Sayers = {} PROVE Spec => []OneVoicePerTurn
<1>1. DeviceAlone => OneVoicePerTurn
  BY DEF DeviceAlone, Alone
<1> QED BY <1>1, AloneInductive, PTL

\* A turn that was not cut is stopped at most once, whatever hellos and new
\* listens do to ttsStopSent in between (writeXiaozhiTTSStop).
THEOREM OneStop == ASSUME Vad = FALSE, Sayers = {} PROVE Spec => []OneStopPerAnswer
<1>1. DeviceAlone => OneStopPerAnswer
  BY AloneTypes DEF StopIsLast, OneStopPerAnswer
<1> QED BY <1>1, AloneInductive, PTL

\* No part of an answer follows a stop of its turn on the socket.
THEOREM StopEndsTheAnswer ==
  ASSUME Vad = FALSE, Sayers = {} PROVE Spec => NothingAfterStop
<1>1. ASSUME DeviceAlone, [Next]_vars, wire' # wire, wire'.kind = "answer"
      PROVE  stops[wire'.turn] = 0
  <2>1. PICK p \in Speakers : writer = p /\ pc[p] \in WritePCs /\ wire'.turn = turnOf[p]
    BY <1>1, AnswerWriter
  <2>2. /\ p \in Voices /\ turnOf[p] \in Turns /\ turnOf[p] \notin silenced
        /\ stops[turnOf[p]] \in 0..2
    BY <1>1, <2>1, AloneTypes DEF Voices, WritePCs
  <2>3. ~(stops[turnOf[p]] > 0)
    BY <1>1, <2>2, AloneTypes DEF StopIsLast
  <2> QED BY <2>1, <2>2, <2>3
<1>2. DeviceAlone /\ [Next]_vars
        => [wire' # wire /\ wire'.kind = "answer" => stops[wire'.turn] = 0]_vars
  BY <1>1
<1> QED BY <1>2, AloneInductive, PTL DEF Spec, NothingAfterStop

\* PROTOCOL.md's promise: no speech is sent while the device is listening.
\* Whoever holds writeMu for a part of an answer got it for a turn that the
\* device does not listen for any more.
THEOREM SilentWhileListening ==
  ASSUME Vad = FALSE, Sayers = {} PROVE Spec => NoSpeechWhileListening
<1>1. ASSUME DeviceAlone, [Next]_vars, wire' # wire, wire'.kind = "answer"
      PROVE  ~listening
  <2>1. PICK p \in Speakers : writer = p /\ pc[p] \in WritePCs
    BY <1>1, AnswerWriter
  <2> QED BY <1>1, <2>1, AloneTypes DEF HolderIsCurrent, WritePCs
<1>2. DeviceAlone /\ [Next]_vars
        => [wire' # wire /\ wire'.kind = "answer" => ~listening]_vars
  BY <1>1
<1> QED BY <1>2, AloneInductive, PTL DEF Spec, NoSpeechWhileListening

(* Which turn a stop names.  A professional answer cancels its own turn and *)
(* ends without a stop when its audio is broken, so there is none here.      *)

\* the voices whose start has been written
Started == {p \in Voices : pc[p] \notin {"drain", "reset", "start"}}

\* the device speaks for the turn heard last, and no started voice for a later one
SpeakerHeard == speaking \in {0, heard} /\ \A p \in Started : turnOf[p] <= heard

\* the turn the device speaks for has somebody who is going to stop it
SpeakingIsStopped ==
  speaking # 0 /\ open =>
    \/ speaking = current /\ \E p \in Started : turnOf[p] = speaking
    \/ rpc = "stopping" /\ stopTurn = speaking
    \/ \E p \in Speakers : pc[p] = "stopWrite" /\ turnOf[p] = speaking

\* the context of the current turn is not done
CurrentLives == current \notin cancelled /\ \A t \in cancelled : t <= nextTurnID

Speech == SpeakerHeard /\ SpeakingIsStopped /\ CurrentLives

(* The inductive invariant of a device-driven session without a professional. *)
SpeechInv == DeviceAlone /\ ProfessionalTasks = {} /\ Speech

\* what the proofs below use of the invariant and of the types
LEMMA SpeechTypes ==
  ASSUME SpeechInv
  PROVE  /\ DeviceAlone /\ ProfessionalTasks = {}
         /\ SpeakerHeard /\ SpeakingIsStopped /\ CurrentLives
         /\ cancelled \subseteq Turns /\ 0 \notin cancelled
         /\ heard \in Nat /\ speaking \in Nat
         /\ Started \subseteq Speakers
         /\ \A p \in Started : pc[p] # "idle"
         /\ writer # NoOne => turnOf[writer] >= heard
<1>1. DeviceAlone /\ ProfessionalTasks = {} /\ Speech /\ TypeOK /\ Ownership
  BY DEF SpeechInv, DeviceAlone, IInv
<1>2. cancelled \subseteq Turns /\ 0 \notin cancelled
  BY <1>1 DEF TypeOK, TurnTypes, Turns
<1>3. heard \in Nat /\ speaking \in Nat
  BY <1>1 DEF TypeOK, SocketTypes
<1>4. writer # NoOne => turnOf[writer] >= heard
  BY <1>1 DEF Ownership, HolderMayWrite
<1>5. Started \subseteq Speakers /\ \A p \in Started : pc[p] # "idle"
  BY DEF Started, Voices
<1> QED BY <1>1, <1>2, <1>3, <1>4, <1>5 DEF Speech

\* a step that leaves the turns and their goroutines alone
LEMMA SameSpeech ==
  ASSUME SpeechInv,
         UNCHANGED <<pc, turnOf, current, cancelled, nextTurnID, speaking, heard, stopTurn>>,
         open' => open, rpc' = rpc \/ rpc # "stopping"
  PROVE  Speech'
<1>1. Started' = Started
  BY DEF Started, Voices
<1>2. SpeakerHeard' /\ CurrentLives'
  BY <1>1, SpeechTypes DEF SpeakerHeard, CurrentLives
<1>3. SpeakingIsStopped'
  BY <1>1, SpeechTypes DEF SpeakingIsStopped
<1> QED BY <1>2, <1>3 DEF Speech

\* a step of a goroutine that keeps speaking for its turn if that is the current one
LEMMA MoveSpeech ==
  ASSUME SpeechInv, NEW p \in Speakers, pc[p] # "stopWrite",
         \A q \in Speakers \ {p} : pc'[q] = pc[q],
         UNCHANGED <<turnOf, current, cancelled, nextTurnID, rpc, stopTurn, open>>,
         p \in Started /\ turnOf[p] = current /\ open => p \in Started',
         \/ UNCHANGED <<speaking, heard>> /\ (p \in Started' => p \in Started)
         \/ WriteStart(p)
         \/ WriteSentence(p) \/ WriteFrame(p)
  PROVE  Speech'
<1>1. \A q \in Speakers \ {p} : q \in Started' <=> q \in Started
  BY DEF Started, Voices
<1>2. Started' \subseteq Speakers /\ Started \subseteq Speakers
  BY DEF Started, Voices
<1>3. CurrentLives'
  BY SpeechTypes DEF CurrentLives
<1>4. \A q \in Speakers : pc[q] = "stopWrite" => pc'[q] = "stopWrite"
  OBVIOUS
<1>5. ASSUME UNCHANGED <<speaking, heard>>, p \in Started' => p \in Started PROVE Speech'
  <2>1. SpeakerHeard'
    BY <1>1, <1>2, <1>5, SpeechTypes DEF SpeakerHeard
  <2>2. SpeakingIsStopped'
    <3>1. SUFFICES ASSUME speaking # 0, open PROVE SpeakingIsStopped'
      BY <1>5 DEF SpeakingIsStopped
    <3>2. CASE speaking = current /\ \E q \in Started : turnOf[q] = speaking
      BY <1>1, <1>2, <1>5, <3>1, <3>2 DEF SpeakingIsStopped
    <3>3. CASE rpc = "stopping" /\ stopTurn = speaking
      BY <1>5, <3>3 DEF SpeakingIsStopped
    <3>4. CASE \E q \in Speakers : pc[q] = "stopWrite" /\ turnOf[q] = speaking
      BY <1>4, <1>5, <3>4 DEF SpeakingIsStopped
    <3> QED BY <3>1, <3>2, <3>3, <3>4, SpeechTypes DEF SpeakingIsStopped
  <2> QED BY <1>3, <2>1, <2>2 DEF Speech
<1>6. CASE WriteStart(p)
  <2>1. /\ speaking' = turnOf[p] /\ heard' = turnOf[p] /\ writer = p /\ p # NoOne
        /\ pc[p] = "start"
    BY <1>6, SpeechTypes, AloneTypes DEF WriteStart, Send
  <2>2. turnOf[p] >= heard /\ turnOf[p] \in Nat /\ \A q \in Speakers : turnOf[q] \in Nat
    BY <2>1, SpeechTypes, AloneTypes
  <2>3. turnOf[p] = current \/ (rpc = "stopping" /\ stopTurn = turnOf[p])
    BY <2>1, SpeechTypes, AloneTypes DEF HolderIsCurrent
  <2>4. p \in Started'
    BY <1>6, <2>1, SpeechTypes, AloneTypes DEF WriteStart, GoTo, Started, Voices
  <2>5. SpeakerHeard'
    BY <1>1, <1>2, <2>1, <2>2, SpeechTypes DEF SpeakerHeard
  <2>6. SpeakingIsStopped'
    BY <2>1, <2>3, <2>4 DEF SpeakingIsStopped
  <2> QED BY <1>3, <2>5, <2>6 DEF Speech
<1>7. CASE WriteSentence(p) \/ WriteFrame(p)
  <2>1. /\ UNCHANGED speaking /\ heard' = turnOf[p] /\ writer = p /\ p # NoOne
        /\ p \in Started
    BY <1>7, SpeechTypes, AloneTypes DEF WriteSentence, WriteFrame, Send, Started, Voices
  <2>2. heard' = heard
    BY <2>1, SpeechTypes, AloneTypes DEF SpeakerHeard
  <2> QED BY <1>5, <2>1, <2>2
<1> QED BY <1>5, <1>6, <1>7

\* a goroutine that ends: nobody else speaks for its turn
LEMMA FinishSpeech ==
  ASSUME SpeechInv, NEW p \in Speakers, pc[p] \in {"drain", "finish"}, pc'[p] = "idle",
         \A q \in Speakers \ {p} : pc'[q] = pc[q] /\ turnOf'[q] = turnOf[q],
         UNCHANGED <<nextTurnID, rpc, stopTurn, open, speaking, heard>>,
         \/ UNCHANGED <<current, cancelled>>
         \/ /\ current' = IF current = turnOf[p] THEN 0 ELSE current
            /\ cancelled' \subseteq cancelled \cup {turnOf[p]}
  PROVE  Speech'
<1>1. Started' = Started /\ p \notin Started
  BY DEF Started, Voices
<1>2. \A q \in Started : q \in Speakers /\ turnOf'[q] = turnOf[q]
  BY <1>1 DEF Started, Voices
<1>3. SpeakerHeard'
  BY <1>1, <1>2, SpeechTypes DEF SpeakerHeard
<1>4. CurrentLives'
  BY SpeechTypes, AloneTypes DEF CurrentLives
<1>5. SpeakingIsStopped'
  <2>1. SUFFICES ASSUME speaking # 0, open PROVE SpeakingIsStopped'
    BY DEF SpeakingIsStopped
  <2>2. CASE speaking = current /\ \E q \in Started : turnOf[q] = speaking
    <3>1. PICK q \in Started : turnOf[q] = current
      BY <2>2
    <3>2. q \in Speakers /\ q # p /\ pc[q] # "idle"
      BY <1>1, SpeechTypes
    <3>3. turnOf[q] # turnOf[p]
      BY <3>2, SpeechTypes, AloneTypes DEF OneVoicePerTurn
    <3>4. current' = current
      BY <3>1, <3>3
    <3> QED BY <1>1, <1>2, <2>2, <3>4 DEF SpeakingIsStopped
  <2>3. CASE rpc = "stopping" /\ stopTurn = speaking
    BY <2>3 DEF SpeakingIsStopped
  <2>4. CASE \E q \in Speakers : pc[q] = "stopWrite" /\ turnOf[q] = speaking
    BY <2>4 DEF SpeakingIsStopped
  <2> QED BY <2>1, <2>2, <2>3, <2>4, SpeechTypes DEF SpeakingIsStopped
<1> QED BY <1>3, <1>4, <1>5 DEF Speech

\* steps of an answer that stop nothing
LEMMA MovesSpeech ==
  ASSUME SpeechInv, NEW p \in Speakers,
         \/ DrainDone(p) \/ Acquire(p) \/ Refused(p) \/ WriteFails(p) \/ WriteStart(p)
         \/ RunProvider(p) \/ WriteSentence(p) \/ NextChunk(p) \/ ChunkLost(p)
         \/ AnswerCancelled(p) \/ WriteFrame(p) \/ MarkDownlink(p) \/ SpeechEnds(p)
         \/ HandleBroken(p) \/ StopSuppressed(p) \/ ClaimStop(p) \/ AfterStop(p)
         \/ FinishTask(p)
  PROVE  Speech'
<1> USE SpeechTypes, AloneTypes DEF Started, Voices, GoTo, WritePCs, sessionVars, socketVars,
        inputVars, wireVars, turnVars, readerVars, ingressVars, listenVars
<1>1. turnOf[p] = current => ~Aborted(turnOf[p])
  BY DEF Aborted, CurrentLives
<1>2. ~RequestGone(p)
  BY DEF RequestGone
<1>3. CASE DrainDone(p)
  <2>1. CASE Return(p)
    BY <1>3, <2>1, FinishSpeech DEF DrainDone, Return
  <2>2. CASE ~Return(p)
    BY <1>3, <2>2, MoveSpeech DEF DrainDone
  <2> QED BY <2>1, <2>2
<1>4. CASE Acquire(p)
  BY <1>4, MoveSpeech DEF Acquire
<1>5. CASE Refused(p)
  BY <1>1, <1>5, MoveSpeech DEF Refused, FailWrite, AfterFailedWrite
<1>6. CASE WriteFails(p)
  BY <1>2, <1>6, MoveSpeech DEF WriteFails, FailWrite, AfterFailedWrite
<1>7. CASE WriteStart(p)
  BY <1>7, MoveSpeech DEF WriteStart
<1>8. CASE RunProvider(p)
  BY <1>1, <1>8, MoveSpeech DEF RunProvider
<1>9. CASE WriteSentence(p) \/ WriteFrame(p)
  BY <1>9, MoveSpeech DEF WriteSentence, WriteFrame
<1>10. CASE NextChunk(p) \/ ChunkLost(p) \/ AnswerCancelled(p)
  BY <1>1, <1>10, MoveSpeech DEF NextChunk, ChunkLost, AnswerCancelled
<1>11. CASE MarkDownlink(p) \/ AfterStop(p)
  BY <1>11, MoveSpeech DEF MarkDownlink, AfterStop
<1>12. CASE SpeechEnds(p)
  BY <1>12, MoveSpeech DEF SpeechEnds
<1>13. CASE HandleBroken(p)
  BY <1>13, MoveSpeech DEF HandleBroken
<1>14. CASE StopSuppressed(p)
  BY <1>1, <1>14, MoveSpeech DEF StopSuppressed
<1>15. CASE ClaimStop(p)
  BY <1>15, MoveSpeech DEF ClaimStop, StopUnclaimed
<1>16. CASE FinishTask(p)
  BY <1>16, FinishSpeech DEF FinishTask, CompleteTurn, Return
<1> QED
  BY <1>3, <1>4, <1>5, <1>6, <1>7, <1>8, <1>9, <1>10, <1>11, <1>12, <1>13, <1>14, <1>15,
     <1>16

\* the stop of an answer ends the speech of its own turn
LEMMA StopSpeech ==
  ASSUME SpeechInv, NEW p \in Speakers, WriteStop(p) PROVE Speech'
<1> USE DEF sessionVars, inputVars, turnVars, readerVars
<1>1. /\ pc[p] = "stopWrite" /\ writer = p /\ p # NoOne /\ p \in Started
      /\ \A q \in Speakers \ {p} : pc'[q] = pc[q]
      /\ pc'[p] \in {"after", "finish"}
      /\ UNCHANGED <<turnOf, current, cancelled, nextTurnID, open>>
  BY SpeechTypes, AloneTypes DEF WriteStop, GoTo, Started, Voices
<1>2. (open /\ speaking' = 0 /\ heard' = turnOf[p]) \/ (~open /\ UNCHANGED <<speaking, heard>>)
  BY SpeechTypes, AloneTypes DEF WriteStop, Send, RequestGone
<1>3. turnOf[p] = heard
  BY <1>1, SpeechTypes, AloneTypes DEF SpeakerHeard
<1>4. Started' \subseteq Started
  BY <1>1 DEF Started, Voices
<1>5. SpeakerHeard' /\ CurrentLives'
  BY <1>1, <1>2, <1>3, <1>4, SpeechTypes DEF SpeakerHeard, CurrentLives
<1>6. SpeakingIsStopped'
  BY <1>1, <1>2 DEF SpeakingIsStopped
<1> QED BY <1>5, <1>6 DEF Speech

\* an interrupt is going to stop the turn that was the current one
LEMMA PrepareSpeech ==
  ASSUME SpeechInv, NEW why, NEW next \in {"idle", "newTurn"}, PrepareBargeIn(why, next),
         rpc \in {"idle", "abort"},
         UNCHANGED <<pc, turnOf, speaking, heard, open>>
  PROVE  Speech'
<1> USE DEF turnVars
<1>1. Started' = Started
  BY DEF Started, Voices
<1>2. /\ current' = 0 /\ nextTurnID' = nextTurnID
      /\ cancelled' \subseteq cancelled \cup ({current} \ {0})
      /\ \/ rpc' = "stopping" /\ stopTurn' = current /\ current # 0
         \/ current = 0
         \/ rpc' = next /\ ttsStopSent
  BY DEF PrepareBargeIn
<1>3. SpeakerHeard'
  BY <1>1, SpeechTypes DEF SpeakerHeard
<1>4. CurrentLives'
  BY <1>2, SpeechTypes, AloneTypes DEF CurrentLives
<1>5. SpeakingIsStopped'
  <2>1. SUFFICES ASSUME speaking # 0, open PROVE SpeakingIsStopped'
    BY DEF SpeakingIsStopped
  <2>2. CASE \E q \in Speakers : pc[q] = "stopWrite" /\ turnOf[q] = speaking
    BY <2>2 DEF SpeakingIsStopped
  <2>3. CASE speaking = current /\ \E q \in Started : turnOf[q] = speaking
    <3>1. PICK q \in Started : turnOf[q] = current
      BY <2>3
    <3>2. q \in Voices /\ q \in Speakers
      BY <3>1 DEF Started, Voices
    <3>3. CASE ttsStopSent
      <4>1. pc[q] = "stopWrite"
        BY <3>1, <3>2, <3>3, SpeechTypes, AloneTypes DEF StopUnclaimed
      <4> QED BY <2>2, <2>3, <3>1, <3>2, <4>1
    <3>4. CASE ~ttsStopSent
      BY <1>2, <2>1, <2>3, <3>4 DEF SpeakingIsStopped
    <3> QED BY <3>3, <3>4
  <2> QED BY <2>1, <2>2, <2>3, SpeechTypes DEF SpeakingIsStopped
<1> QED BY <1>3, <1>4, <1>5 DEF Speech

\* the reader's other steps: a cut ends the speech, a new turn has no voice yet
LEMMA ReaderSpeech ==
  ASSUME SpeechInv, ListenNewTurn \/ ListenStopClear \/ ForcedStop PROVE Speech'
<1> USE SpeechTypes, AloneTypes DEF sessionVars, socketVars, speakerVars, ingressVars,
        wireVars, turnVars
<1>1. CASE ListenNewTurn
  <2>1. /\ rpc = "newTurn" /\ current = 0 /\ cancelled' = cancelled
        /\ nextTurnID' = nextTurnID + 1 /\ current' = nextTurnID + 1
        /\ UNCHANGED <<pc, turnOf, speaking, heard, open>>
    BY <1>1 DEF ListenNewTurn, StartTurn, ListenSteps
  <2>2. Started' = Started
    BY <2>1 DEF Started, Voices
  <2>3. \A t \in cancelled : t \in Nat /\ t <= nextTurnID
    BY DEF CurrentLives, Turns
  <2>4. CurrentLives'
    BY <2>1, <2>3 DEF CurrentLives
  <2>5. SpeakerHeard' /\ SpeakingIsStopped'
    BY <2>1, <2>2 DEF SpeakerHeard, SpeakingIsStopped
  <2> QED BY <2>4, <2>5 DEF Speech
<1>2. CASE ListenStopClear
  <2>1. /\ UNCHANGED <<current, cancelled, nextTurnID, speaking, heard, open, stopTurn>>
        /\ rpc # "stopping"
    BY <1>2 DEF ListenStopClear
  <2>2. CASE current = 0
    BY <1>2, <2>1, <2>2, SameSpeech DEF ListenStopClear
  <2>3. CASE current # 0
    <3>1. PICK q \in IdleTasks : Spawn(q, current, "drain")
      BY <1>2, <2>3 DEF ListenStopClear
    <3>2. /\ q \in Speakers /\ pc[q] = "idle" /\ pc'[q] = "drain"
          /\ \A p \in Speakers \ {q} : pc'[p] = pc[p] /\ turnOf'[p] = turnOf[p]
      BY <3>1 DEF IdleTasks, Spawn
    <3>3. Started' = Started /\ \A p \in Started : turnOf'[p] = turnOf[p]
      BY <3>2 DEF Started, Voices
    <3>4. SpeakerHeard' /\ CurrentLives'
      BY <2>1, <3>3 DEF SpeakerHeard, CurrentLives
    <3>5. SpeakingIsStopped'
      BY <2>1, <3>2, <3>3 DEF SpeakingIsStopped
    <3> QED BY <3>4, <3>5 DEF Speech
  <2> QED BY <2>2, <2>3
<1>3. CASE ForcedStop
  <2>1. /\ UNCHANGED <<pc, turnOf, current, cancelled, nextTurnID, heard, open>>
        /\ (open /\ speaking' = 0) \/ (~open /\ speaking' = speaking)
    BY <1>3 DEF ForcedStop
  <2>2. Started' = Started
    BY <2>1 DEF Started, Voices
  <2>3. SpeakerHeard' /\ CurrentLives'
    BY <2>1, <2>2 DEF SpeakerHeard, CurrentLives
  <2>4. SpeakingIsStopped'
    BY <2>1 DEF SpeakingIsStopped
  <2> QED BY <2>3, <2>4 DEF Speech
<1> QED BY <1>1, <1>2, <1>3

\* the invariant is inductive
LEMMA NextSpeech == SpeechInv /\ [Next]_vars => SpeechInv'
<1> SUFFICES ASSUME SpeechInv, [Next]_vars PROVE Speech'
  BY NextAlone DEF SpeechInv
<1> USE DEF vars, sessionVars, socketVars, inputVars, speakerVars, wireVars, turnVars,
        readerVars, ingressVars, listenVars
<1>1. ~Vad /\ Sayers = {} /\ frameStage = "none"
  BY SpeechTypes, AloneTypes DEF ListenSteps
<1>2. CASE ListenStart \/ TouchBargeIn \/ AbortPrepare
  BY <1>2, PrepareSpeech DEF ListenStart, TouchBargeIn, AbortPrepare, Receive
<1>3. CASE DeviceMessage /\ ~ListenStart /\ ~TouchBargeIn
  <2>1. /\ UNCHANGED <<pc, turnOf, current, cancelled, nextTurnID, speaking, heard, stopTurn>>
        /\ UNCHANGED open /\ (rpc' = rpc \/ rpc = "idle")
    BY <1>3, Zenon DEF DeviceMessage, Hello, ListenStartSuppressed, ListenStop,
       ListenStopIgnored, Abort, PlaybackStopDone, Receive
  <2>2. open' => open
    BY <2>1, Zenon
  <2> QED BY <2>1, <2>2, SameSpeech
<1>4. CASE ListenNewTurn \/ ListenStopClear \/ ForcedStop
  BY <1>4, ReaderSpeech
<1>5. CASE ListenOn \/ ListenArm \/ ListenResetStop \/ ReaderExit
  <2>1. /\ UNCHANGED <<pc, turnOf, current, cancelled, nextTurnID, speaking, heard, stopTurn>>
        /\ UNCHANGED open /\ rpc # "stopping"
    BY <1>5 DEF ListenOn, ListenArm, ListenResetStop, ReaderExit
  <2>2. open' => open
    BY <2>1, Zenon
  <2> QED BY <2>1, <2>2, SameSpeech
<1>6. ASSUME NEW p \in Speakers, SayBegin(p) \/ SayClientGone(p) \/ SpeakerStep(p)
      PROVE  Speech'
  <2>1. ~(SayBegin(p) \/ SayClientGone(p) \/ SayResetStop(p) \/ JudgeSay(p) \/ FinishSay(p))
    BY <1>1 DEF SayBegin, SayClientGone, SayResetStop, JudgeSay, FinishSay
  <2> QED BY <1>6, <2>1, MovesSpeech, StopSpeech DEF SpeakerStep
<1>7. ~(FrameQueued \/ IngressStep)
  BY <1>1 DEF FrameQueued, IngressStep, FrameChecked, FrameAppended, AutoStop, NoAutoStop
<1>8. CASE CooldownExpires \/ InterruptWindowExpires \/ SocketDies \/ SessionOver
           \/ UNCHANGED vars
  <2>1. UNCHANGED <<pc, turnOf, current, cancelled, nextTurnID, speaking, heard, stopTurn,
                    rpc>>
    BY <1>8 DEF CooldownExpires, InterruptWindowExpires, SocketDies, SessionOver
  <2>2. open' => open
    BY <1>8, Zenon DEF CooldownExpires, InterruptWindowExpires, SocketDies, SessionOver
  <2> QED BY <2>1, <2>2, SameSpeech
<1> QED
  BY <1>2, <1>3, <1>4, <1>5, <1>6, <1>7, <1>8 DEF Next, ReaderStep

\* it holds before hello
LEMMA InitSpeech ==
  ASSUME Init, Vad = FALSE, Sayers = {}, ProfessionalTasks = {} PROVE SpeechInv
<1>1. DeviceAlone
  BY InitAlone
<1>2. SpeakerHeard
  BY DEF Init, SpeakerHeard, Started, Voices
<1>3. SpeakingIsStopped /\ CurrentLives
  BY DEF Init, SpeakingIsStopped, CurrentLives
<1> QED BY <1>1, <1>2, <1>3 DEF SpeechInv, Speech

\* A stop written while the device speaks names the turn it is speaking for,
\* be it the answer's own (writeXiaozhiTTSStop) or an interrupt's
\* (writeXiaozhiTTSStopForce): an interrupt takes the turn that was current,
\* or finds that turn's stop already claimed and leaves it to its goroutine.
THEOREM StopsNameTheirSpeaker ==
  ASSUME Vad = FALSE, Sayers = {}, ProfessionalTasks = {} PROVE Spec => StopNamesSpeaker
<1>1. Init => SpeechInv
  BY InitSpeech
<1>2. ASSUME SpeechInv, [Next]_vars, speaking # 0, speaking' = 0
      PROVE  wire'.turn = speaking
  <2>1. CASE ForcedStop
    <3>1. open /\ rpc = "stopping" /\ writer = NoOne /\ wire'.turn = stopTurn
      BY <1>2, <2>1 DEF ForcedStop
    <3>2. speaking # current
      BY <1>2, <3>1, SpeechTypes, AloneTypes DEF ListenSteps
    <3>3. \A p \in Speakers : pc[p] # "stopWrite"
      BY <1>2, <3>1, SpeechTypes, AloneTypes DEF ClaimHolds
    <3> QED BY <1>2, <3>1, <3>2, <3>3, SpeechTypes DEF SpeakingIsStopped
  <2>2. ASSUME NEW p \in Speakers,
               WriteStart(p) \/ WriteSentence(p) \/ WriteFrame(p) \/ WriteStop(p)
        PROVE  wire'.turn = speaking
    <3>1. pc[p] # "idle" => turnOf[p] # 0
      BY <1>2, SpeechTypes, AloneTypes
    <3>2. WriteStop(p) /\ wire'.turn = turnOf[p]
      BY <1>2, <2>2, <3>1 DEF WriteStart, WriteSentence, WriteFrame, WriteStop, Send
    <3>3. writer = p /\ p # NoOne /\ p \in Started
      BY <1>2, <3>2, SpeechTypes, AloneTypes DEF WriteStop, Started, Voices
    <3>4. turnOf[p] = heard
      BY <1>2, <3>3, SpeechTypes, AloneTypes DEF SpeakerHeard
    <3> QED BY <1>2, <3>2, <3>4, SpeechTypes DEF SpeakerHeard
  <2> QED BY <1>2, <2>1, <2>2, Writers
<1>3. SpeechInv /\ [Next]_vars
        => [speaking # 0 /\ speaking' = 0 => wire'.turn = speaking]_vars
  BY <1>2
<1> QED BY <1>1, <1>3, NextSpeech, PTL DEF Spec, StopNamesSpeaker

=============================================================================
