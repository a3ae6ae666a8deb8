--------------------- MODULE XiaozhiStreamingASRProofs ---------------------
(* Theorems about XiaozhiStreamingASR, for every number of listens and     *)
(* every set of sessions.                                                  *)
EXTENDS XiaozhiStreamingASR, TLAPS

USE ListenAssumption, FlagAssumption, PlanAssumption

-----------------------------------------------------------------------------
(* Types.  The reader makes a turn only when a listen is left.             *)

Room == /\ reader = "turn" => nextTurn < MaxListens
        /\ reader \in {"listen", "reset", "start"} => nextTurn \in Turns

Typed == TypeOK /\ Room

\* Each stream has one consumer and one committer, which are different goroutines.
LEMMA FinisherNames ==
  \A s \in Turns : /\ Consumer(s) \in Finishers /\ Consumer(s)[1] = "consumer"
                  /\ Committer(s) \in Finishers /\ Committer(s)[1] = "committer"
  BY DEF Finishers, Consumer, Committer

\* A socket that has just been accepted.
LEMMA InitTyped == Init => Typed
  <1> SUFFICES ASSUME Init PROVE TypeOK /\ Room
    BY DEF Typed
  <1>1. /\ plan \in Plans /\ current \in 0..MaxListens /\ nextTurn \in 0..MaxListens
        /\ stream \in 0..MaxListens /\ final \in 0..MaxListens
    BY DEF Init, NoTurn, NoText
  <1>2. pc = [f \in Finishers |-> "none"] /\ claim \in [Finishers -> 0..MaxListens]
    BY DEF Init, NoTurn
  <1>3. answers \in [Turns -> Nat] /\ words \in [Turns -> SUBSET Turns]
    BY DEF Init
  <1> QED BY <1>1, <1>2, <1>3 DEF Init, TypeOK, Room

\* The reader's messages and the steps they are made of.
LEMMA ReaderTyped ==
  ASSUME Typed, ListenStart \/ ListenStop \/ AutoStop \/ Abort \/ ReaderStep
  PROVE  Typed'
  <1> USE DEF Typed, TypeOK, Room, Turns, NoTurn, NoText, GoTo, StopTo, End
  <1>1. CASE ListenStart
    BY <1>1 DEF ListenStart, session, finish, remote, result, Sessions
  <1>2. CASE ListenStop
    BY <1>2 DEF ListenStop, turns, session, finish, remote, result
  <1>3. CASE AutoStop
    BY <1>3 DEF AutoStop, turns, session, finish, remote, result
  <1>4. CASE Abort
    BY <1>4 DEF Abort, turns, session, finish, remote, result
  <1>5. CASE StartTurn
    BY <1>5 DEF StartTurn, session, finish, remote, result
  <1>6. CASE ListenOn
    BY <1>6 DEF ListenOn, turns, session, finish, remote, result
  <1>7. CASE ResetStream
    <2>1. /\ stream' = NoTurn /\ final' = NoText /\ closed' = FALSE /\ answerStarted' = FALSE
          /\ reader = "reset" /\ reader' = "start"
          /\ UNCHANGED <<plan, current, nextTurn, listening, commitStarted, stopper, pc, claim, mail,
                         answers, words>>
      BY <1>7 DEF ResetStream, turns, finish, result
    <2>2. provider' \in [Turns -> {"none", "open", "committed", "ended"}]
      BY <1>7 DEF ResetStream
    <2>5. stream' \in 0..MaxListens /\ final' \in 0..MaxListens
      BY <2>1
    <2>6. closed' \in BOOLEAN /\ answerStarted' \in BOOLEAN
      BY <2>1
    <2>7. UNCHANGED <<plan, current, nextTurn, listening, commitStarted, stopper, pc, claim, mail,
                      answers, words>> /\ reader' = "start"
      BY <2>1
    <2>3. TypeOK'
      BY <2>2, <2>5, <2>6, <2>7
    <2>4. Room'
      BY <2>1
    <2> QED BY <2>3, <2>4
  <1>8. CASE StreamUp
    <2>1. nextTurn \in Turns
      BY <1>8 DEF StreamUp
    <2>2. /\ stream' = nextTurn /\ final' = NoText /\ closed' = FALSE
          /\ commitStarted' = FALSE /\ answerStarted' = FALSE /\ reader' = "idle"
          /\ UNCHANGED <<plan, current, nextTurn, listening, stopper, claim, mail, answers, words>>
      BY <1>8 DEF StreamUp, turns, result
    <2>3. provider' \in [Turns -> {"none", "open", "committed", "ended"}]
      BY <1>8 DEF StreamUp
    <2>4. pc' = [pc EXCEPT ![Consumer(nextTurn)] = "reading"]
      BY <1>8 DEF StreamUp
    <2>5. /\ pc' \in [Finishers -> {"none", "reading", "commit", "wait", "maybe", "claim", "task",
                                    "done"}]
          /\ \A f \in Finishers : IF f[1] = "consumer" THEN pc'[f] \notin {"commit", "wait"}
                                                        ELSE pc'[f] # "reading"
      BY <2>1, <2>4, FinisherNames
    <2>8. stream' \in 0..MaxListens /\ final' \in 0..MaxListens
      BY <2>2
    <2>9. closed' \in BOOLEAN /\ commitStarted' \in BOOLEAN /\ answerStarted' \in BOOLEAN
      BY <2>2
    <2>10. UNCHANGED <<plan, current, nextTurn, listening, stopper, claim, mail, answers, words>>
           /\ reader' = "idle"
      BY <2>2
    <2>6. TypeOK'
      BY <2>3, <2>5, <2>8, <2>9, <2>10
    <2>7. Room'
      BY <2>2
    <2> QED BY <2>6, <2>7
  <1>9. CASE StreamFails
    BY <1>9 DEF StreamFails, turns, session, finish, remote, result
  <1>10. CASE AbortStream
    BY <1>10 DEF AbortStream, turns, finish, result
  <1>11. CASE AbortTurn
    BY <1>11 DEF AbortTurn, session, finish, remote, result
  <1> QED BY <1>1, <1>2, <1>3, <1>4, <1>5, <1>6, <1>7, <1>8, <1>9, <1>10, <1>11 DEF ReaderStep

\* An answer that is started is counted and given a transcript.
LEMMA AnswerTyped ==
  ASSUME Typed, NEW t \in 0..MaxListens, StartAnswer(t)
  PROVE  answers' \in [Turns -> Nat] /\ words' \in [Turns -> SUBSET Turns]
  <1>1. answers \in [Turns -> Nat] /\ words \in [Turns -> SUBSET Turns] /\ final \in 0..MaxListens
    BY DEF Typed, TypeOK
  <1>2. CASE current # t
    BY <1>1, <1>2 DEF StartAnswer, result
  <1>3. CASE current = t /\ t \notin Turns
    BY <1>1, <1>3 DEF StartAnswer
  <1>4. CASE current = t /\ t \in Turns
    <2> DEFINE said == IF final = NoText THEN t ELSE final
    <2>1. said \in Turns
      BY <1>1, <1>4 DEF NoText, Turns
    <2>2. answers' = [answers EXCEPT ![t] = answers[t] + 1]
      BY <1>4 DEF StartAnswer
    <2>3. words' = [words EXCEPT ![t] = words[t] \cup {said}]
      BY <1>4 DEF StartAnswer
    <2> HIDE DEF said
    <2>4. words[t] \cup {said} \in SUBSET Turns
      BY <1>1, <1>4, <2>1
    <2>5. answers[t] + 1 \in Nat
      BY <1>1, <1>4
    <2>6. answers' \in [Turns -> Nat]
      BY <1>1, <2>2, <2>5
    <2>7. words' \in [Turns -> SUBSET Turns]
      BY <1>1, <2>3, <2>4
    <2> QED BY <2>6, <2>7
  <1> QED BY <1>2, <1>3, <1>4

\* Stops, committers, consumers and the provider.
LEMMA StopTyped ==
  ASSUME Typed, NEW t \in Turns, StopStep(t) \/ ProviderFinal(t) \/ TurnCompletes
  PROVE  Typed'
  <1>1. CASE Drained(t)
    BY <1>1 DEF Typed, TypeOK, Room, Drained, StopTo, turns, session, finish, remote, result
  <1>2. CASE StartCommit(t)
    <2>1. stopper' \in [Turns -> {"none", "drain", "commit", "answer", "done"}]
      BY <1>2 DEF Typed, TypeOK, StartCommit, StopTo
    <2>2. commitStarted' \in BOOLEAN
      BY <1>2 DEF Typed, TypeOK, StartCommit
    <2>3. \/ UNCHANGED <<pc, claim>>
          \/ /\ pc' = [pc EXCEPT ![Committer(t)] = "commit"]
             /\ claim' = [claim EXCEPT ![Committer(t)] = stream]
      BY <1>2 DEF StartCommit, GoTo, finish
    <2>4. UNCHANGED <<plan, turns, listening, stream, closed, final, answerStarted, reader, remote, result>>
      BY <1>2 DEF StartCommit
    <2> QED BY <2>1, <2>2, <2>3, <2>4, FinisherNames DEF Typed, TypeOK, Room, turns, remote, result
  <1>3. CASE StopAnswers(t)
    <2>1. answers' \in [Turns -> Nat] /\ words' \in [Turns -> SUBSET Turns]
      BY <1>3, AnswerTyped DEF StopAnswers, Turns
    <2> QED BY <1>3, <2>1 DEF Typed, TypeOK, Room, StopAnswers, StopTo, turns, session, finish, remote
  <1>4. CASE ProviderFinal(t)
    BY <1>4 DEF Typed, TypeOK, Room, ProviderFinal, End, turns, session, finish, result
  <1>5. CASE TurnCompletes
    BY <1>5 DEF Typed, TypeOK, Room, TurnCompletes, NoTurn, session, finish, remote, result
  <1> QED BY <1>1, <1>2, <1>3, <1>4, <1>5 DEF StopStep

\* The three steps a consumer and a committer share.
LEMMA FinisherTyped ==
  ASSUME Typed, NEW f \in Finishers, FinisherStep(f)
  PROVE  Typed'
  <1>1. CASE LookAtSession(f)
    BY <1>1 DEF Typed, TypeOK, Room, LookAtSession, GoTo, Back, turns, session, remote, result
  <1>2. CASE ClaimAnswer(f)
    BY <1>2 DEF Typed, TypeOK, Room, ClaimAnswer, GoTo, Back, turns, remote, result
  <1>3. CASE FinalAnswers(f)
    <2>1. answers' \in [Turns -> Nat] /\ words' \in [Turns -> SUBSET Turns]
      <3>1. claim[f] \in 0..MaxListens
        BY DEF Typed, TypeOK
      <3> QED BY <1>3, <3>1, AnswerTyped DEF FinalAnswers, result, Typed, TypeOK
    <2> QED BY <1>3, <2>1 DEF Typed, TypeOK, Room, FinalAnswers, GoTo, Back, turns, session, remote
  <1> QED BY <1>1, <1>2, <1>3 DEF FinisherStep

\* A committer and a consumer of a stream.
LEMMA FinishTyped ==
  ASSUME Typed, NEW t \in Turns, CommitStep(t) \/ ConsumeStep(t)
  PROVE  Typed'
  <1>0. Consumer(t) \in Finishers /\ Committer(t) \in Finishers
    BY DEF Consumer, Committer, Finishers
  <1>1. CASE Commit(t)
    BY <1>1, FinisherNames DEF Typed, TypeOK, Room, Commit, GoTo, turns, session, result
  <1>2. CASE FinalSeen(t) \/ FinalTimeout(t)
    BY <1>2, FinisherNames
       DEF Typed, TypeOK, Room, FinalSeen, FinalTimeout, GoTo, turns, session, remote, result
  <1>3. CASE TakeFinal(t)
    BY <1>3, FinisherNames DEF Typed, TypeOK, Room, TakeFinal, GoTo, NoText, Turns, turns, result
  <1>4. CASE StreamEnds(t)
    BY <1>4, FinisherNames DEF Typed, TypeOK, Room, StreamEnds, GoTo, turns, remote, result
  <1>5. CASE FinisherStep(Committer(t)) \/ FinisherStep(Consumer(t))
    BY <1>0, <1>5, FinisherTyped
  <1> QED BY <1>1, <1>2, <1>3, <1>4, <1>5 DEF CommitStep, ConsumeStep

\* Every step keeps the types.
LEMMA NextTyped == Typed /\ [Next]_vars => Typed'
  <1>1. ASSUME Typed, UNCHANGED vars PROVE Typed'
    BY <1>1 DEF Typed, TypeOK, Room, vars, turns, session, finish, remote, result
  <1>2. ASSUME Typed, TurnCompletes PROVE Typed'
    <2>1. current \in Turns
      BY <1>2 DEF TurnCompletes, Typed, TypeOK, Turns, NoTurn
    <2> QED BY <1>2, <2>1, StopTyped
  <1> QED BY <1>1, <1>2, ReaderTyped, StopTyped, FinishTyped DEF Next, Quiet

\* The session, its goroutines and the provider's streams keep their types.
THEOREM StreamingTyped == Spec => []TypeOK
  <1>1. Typed => TypeOK
    BY DEF Typed
  <1> QED BY <1>1, InitTyped, NextTyped, PTL DEF Spec

-----------------------------------------------------------------------------
(* A stream the provider has is the session's.  When a stream is about to  *)
(* be opened the session holds none.                                       *)

Starting == reader = "start" => stream = NoTurn

Owned == Typed /\ NoOrphanStream /\ Starting

\* A listen, an abort, a failed start, a final or a late end of a stream closes what
\* it takes from the session, or leaves the session's stream alone.
LEMMA NextOwned == Owned /\ [Next]_vars => Owned'
  <1> SUFFICES ASSUME Owned, [Next]_vars PROVE NoOrphanStream' /\ Starting'
    BY NextTyped DEF Owned
  <1>0. Typed /\ NoOrphanStream /\ Starting
    BY DEF Owned
  <1>1. CASE UNCHANGED <<stream, closed, provider>> /\ reader' # "start"
    BY <1>0, <1>1 DEF NoOrphanStream, Starting
  <1>2. CASE ResetStream
    <2>1. provider' = IF stream # NoTurn /\ ~closed
                      THEN [provider EXCEPT ![stream] = "ended"] ELSE provider
      BY <1>2 DEF ResetStream, End
    <2>2. \A s \in Turns : provider'[s] \notin {"open", "committed"}
      BY <1>0, <2>1 DEF NoOrphanStream, Typed, TypeOK, NoTurn, Turns
    <2> QED BY <1>2, <2>2 DEF ResetStream, NoOrphanStream, Starting
  <1>3. CASE StreamUp
    <2>1. nextTurn \in Turns
      BY <1>0, <1>3 DEF StreamUp, Typed, Room
    <2>2. \A s \in Turns : provider[s] \notin {"open", "committed"}
      BY <1>0, <1>3 DEF StreamUp, NoOrphanStream, Starting, NoTurn, Turns
    <2> QED BY <1>0, <1>3, <2>1, <2>2 DEF StreamUp, NoOrphanStream, Starting, Typed, TypeOK
  <1>4. CASE StreamFails \/ AbortTurn \/ ListenOn \/ StartTurn
    BY <1>1, <1>4 DEF StreamFails, AbortTurn, ListenOn, StartTurn, session, remote
  <1>5. CASE AbortStream
    BY <1>0, <1>5 DEF AbortStream, End, NoOrphanStream, Starting, Typed, TypeOK, NoTurn, Turns
  <1>6. CASE ListenStart \/ ListenStop \/ Abort \/ Quiet
    BY <1>1, <1>6 DEF ListenStart, ListenStop, Abort, Quiet, vars, session, remote
  <1>7. CASE UNCHANGED <<stream, closed, provider, reader>>
    BY <1>0, <1>7 DEF NoOrphanStream, Starting
  <1>8. CASE AutoStop \/ TurnCompletes \/ UNCHANGED vars
    BY <1>7, <1>8 DEF AutoStop, TurnCompletes, vars, session, remote
  <1>9. ASSUME NEW t \in Turns, StopStep(t) \/ FinalSeen(t) \/ FinalTimeout(t) \/ TakeFinal(t)
        PROVE  NoOrphanStream' /\ Starting'
    BY <1>7, <1>9 DEF StopStep, Drained, StartCommit, StopAnswers, FinalSeen, FinalTimeout, TakeFinal,
                      session, remote
  <1>10. ASSUME NEW f, FinisherStep(f) PROVE NoOrphanStream' /\ Starting'
    BY <1>7, <1>10 DEF FinisherStep, LookAtSession, ClaimAnswer, FinalAnswers, session, remote
  <1>11. ASSUME NEW t \in Turns, Commit(t) PROVE NoOrphanStream' /\ Starting'
    BY <1>0, <1>11 DEF Commit, NoOrphanStream, Starting, session, Typed, TypeOK
  <1>12. ASSUME NEW t \in Turns, StreamEnds(t) PROVE NoOrphanStream' /\ Starting'
    BY <1>0, <1>12 DEF StreamEnds, NoOrphanStream, Starting, remote
  <1>13. ASSUME NEW t \in Turns, ProviderFinal(t) PROVE NoOrphanStream' /\ Starting'
    BY <1>0, <1>13 DEF ProviderFinal, End, NoOrphanStream, Starting, session, Typed, TypeOK
  <1> QED BY <1>2, <1>3, <1>4, <1>5, <1>6, <1>8, <1>9, <1>10, <1>11, <1>12, <1>13
          DEF Next, ReaderStep, CommitStep, ConsumeStep

\* No stream is left open at the provider that the session cannot close.
THEOREM NoStreamLeaks == Spec => []NoOrphanStream
  <1>1. Init => Owned
    BY InitTyped DEF Owned, Init, NoOrphanStream, Starting
  <1>2. Owned => NoOrphanStream
    BY DEF Owned
  <1> QED BY <1>1, <1>2, NextOwned, PTL DEF Spec

-----------------------------------------------------------------------------
(* One answer.  In a session of one listen the stop is made once; it ends  *)
(* in an answer of its own or in a commit, and only after the commit may a *)
(* finisher claim the answer, which answerStarted allows once.             *)

\* a turn and a stream are being made
Making == {"turn", "listen", "reset", "start"}

Single ==
  /\ \A t \in Turns : t # 1 => stopper[t] = "none" /\ answers[t] = 0
  /\ current \in {0, 1} /\ nextTurn \in {0, 1}
  /\ reader = "turn" => nextTurn = 0
  /\ nextTurn = 0 \/ reader = "listen" => ~listening /\ stopper[1] = "none"

Committed == commitStarted => stopper[1] = "done" /\ nextTurn = 1 /\ reader \notin Making

Claimed == \A f \in Finishers : pc[f] \in {"claim", "task"} => commitStarted

Tasked == /\ \A f \in Finishers : pc[f] = "task" => answerStarted /\ answers[1] = 0
          /\ \A f, g \in Finishers : pc[f] = "task" /\ pc[g] = "task" => f = g

Answered == /\ stopper[1] # "done" => answers[1] = 0
            /\ commitStarted /\ answers[1] > 0 => answerStarted
            /\ answers[1] <= 1

OneListen == /\ Single /\ Committed /\ Claimed /\ Tasked /\ Answered
             /\ stopper[1] # "none" => ~listening
             /\ stream # NoTurn => nextTurn = 1 /\ reader \notin Making

AnswerInv == Typed /\ (plan.listens = 1 => OneListen)

\* The session has one listen, and its invariant holds.
Alone == Typed /\ plan.listens = 1 /\ OneListen

\* Its only turn is turn 1.
LEMMA TurnOne == Alone => 1 \in Turns /\ current \in {0, 1}
  BY DEF Alone, Typed, TypeOK, OneListen, Single, Sessions, Turns

\* The reader: the listen starts once, and is stopped after its stream was asked for.
LEMMA ReaderAlone ==
  ASSUME Alone, ListenStart \/ ListenStop \/ AutoStop \/ Abort \/ ReaderStep
  PROVE  OneListen'
  <1> USE TurnOne DEF Alone, OneListen, Single, Committed, Claimed, Tasked, Answered, Making
  <1>0. stopper \in [Turns -> {"none", "drain", "commit", "answer", "done"}]
    BY DEF Typed, TypeOK
  <1>1. CASE ListenStart
    BY <1>1 DEF ListenStart, session, finish, remote, result, NoTurn
  <1>2. CASE ListenStop
    BY <1>0, <1>2 DEF ListenStop, StopTo, turns, session, finish, remote, result, NoTurn
  <1>3. CASE AutoStop
    BY <1>0, <1>3 DEF AutoStop, StopTo, turns, session, finish, remote, result, NoTurn
  <1>4. CASE Abort
    BY <1>4 DEF Abort, turns, session, finish, remote, result
  <1>5. CASE StartTurn
    BY <1>5 DEF StartTurn, session, finish, remote, result
  <1>6. CASE ListenOn
    <2>1. nextTurn = 1
      BY <1>6 DEF ListenOn, Typed, Room, Turns
    <2> QED BY <1>6, <2>1 DEF ListenOn, turns, session, finish, remote, result
  <1>7. CASE ResetStream
    BY <1>7 DEF ResetStream, turns, finish, result, NoTurn
  <1>8. CASE StreamUp
    <2>1. nextTurn = 1 /\ ~commitStarted
      BY <1>8 DEF StreamUp, Typed, Room, Turns
    <2>2. \A f \in Finishers : pc'[f] \notin {"claim", "task"}
      BY <1>8, <2>1 DEF StreamUp, GoTo, Typed, TypeOK
    <2>3. UNCHANGED <<current, nextTurn, listening, stopper, answers>> /\ reader' = "idle"
      BY <1>8 DEF StreamUp, turns, result
    <2> QED BY <1>8, <2>1, <2>2, <2>3 DEF StreamUp
  <1>9. CASE StreamFails
    BY <1>9 DEF StreamFails, turns, session, finish, remote, result
  <1>10. CASE AbortStream
    BY <1>10 DEF AbortStream, turns, finish, result
  <1>11. CASE AbortTurn
    BY <1>11 DEF AbortTurn, session, finish, remote, result, NoTurn
  <1> QED BY <1>1, <1>2, <1>3, <1>4, <1>5, <1>6, <1>7, <1>8, <1>9, <1>10, <1>11 DEF ReaderStep

\* An answer is given to turn 1 only, and adds one.
LEMMA AnswerAlone ==
  ASSUME Alone, NEW t, StartAnswer(t)
  PROVE  \/ answers' = answers
         \/ t = 1 /\ answers' = [answers EXCEPT ![1] = answers[1] + 1]
         \/ t = 0 /\ answers' = answers
  BY TurnOne DEF StartAnswer, result, Typed, TypeOK, Turns, Alone

\* The stop: it answers by itself only when nothing was committed.
LEMMA StopAlone ==
  ASSUME Alone, NEW t \in Turns, StopStep(t) \/ ProviderFinal(t) \/ TurnCompletes
  PROVE  OneListen'
  <1> USE TurnOne DEF Alone, OneListen, Single, Committed, Claimed, Tasked, Answered, Making
  <1>0. /\ stopper \in [Turns -> {"none", "drain", "commit", "answer", "done"}]
        /\ answers \in [Turns -> Nat]
    BY DEF Typed, TypeOK
  <1>1. CASE Drained(t)
    BY <1>0, <1>1 DEF Drained, StopTo, turns, session, finish, remote, result
  <1>2. CASE StartCommit(t)
    <2>1. t = 1
      BY <1>2 DEF StartCommit
    <2>2. CASE stream = NoTurn \/ closed
      BY <1>0, <1>2, <2>1, <2>2 DEF StartCommit, StopTo, turns, finish, remote, result
    <2>3. CASE ~(stream = NoTurn \/ closed)
      <3>1. \A f \in Finishers : pc'[f] \in {"claim", "task"} => pc[f] = pc'[f]
        BY <1>2, <2>3, FinisherNames DEF StartCommit, GoTo, finish, Typed, TypeOK
      <3>2. stopper' = [stopper EXCEPT ![t] = "done"] /\ commitStarted' = TRUE
        BY <1>2, <2>3 DEF StartCommit, StopTo
      <3>3. UNCHANGED <<current, nextTurn, reader, listening, stream, answerStarted, answers>>
        BY <1>2 DEF StartCommit, turns, remote, result
      <3>4. nextTurn = 1 /\ reader \notin Making /\ ~listening /\ answers[1] = 0 /\ ~commitStarted
        BY <1>2, <2>1, <2>3 DEF StartCommit
      <3>5. \A f \in Finishers : pc'[f] \notin {"claim", "task"}
        BY <3>1, <3>4
      <3> QED BY <1>0, <2>1, <3>2, <3>3, <3>4, <3>5
    <2> QED BY <2>2, <2>3
  <1>3. CASE StopAnswers(t)
    <2>1. t = 1 /\ stopper[1] = "answer" /\ answers[1] = 0 /\ ~commitStarted
      BY <1>3 DEF StopAnswers
    <2>2. answers' = answers \/ answers' = [answers EXCEPT ![1] = answers[1] + 1]
      BY <1>3, AnswerAlone DEF StopAnswers
    <2>3. answers'[1] <= 1 /\ \A u \in Turns : u # 1 => answers'[u] = 0
      BY <1>0, <2>1, <2>2
    <2>4. stopper' = [stopper EXCEPT ![1] = "done"]
      BY <1>3, <2>1 DEF StopAnswers, StopTo
    <2> QED BY <1>0, <1>3, <2>1, <2>3, <2>4 DEF StopAnswers, turns, session, finish, remote
  <1>4. CASE ProviderFinal(t)
    BY <1>4 DEF ProviderFinal, turns, session, finish, result
  <1>5. CASE TurnCompletes
    BY <1>5 DEF TurnCompletes, NoTurn, session, finish, remote, result
  <1> QED BY <1>1, <1>2, <1>3, <1>4, <1>5 DEF StopStep

\* Claiming and answering, which a consumer and a committer share.
LEMMA FinisherAlone ==
  ASSUME Alone, NEW f \in Finishers, FinisherStep(f)
  PROVE  OneListen'
  <1> USE DEF Alone, OneListen
  <1>0. pc \in [Finishers -> {"none", "reading", "commit", "wait", "maybe", "claim", "task", "done"}]
        /\ answers \in [Turns -> Nat]
    BY DEF Typed, TypeOK
  <1>1. CASE LookAtSession(f)
    <2>1. pc' = [pc EXCEPT ![f] = IF FinalMayStart THEN "claim" ELSE Back(f)]
      BY <1>1 DEF LookAtSession, GoTo
    <2>2. Claimed' /\ Tasked'
      BY <1>0, <1>1, <2>1 DEF Claimed, Tasked, LookAtSession, FinalMayStart, Back, session, result
    <2> QED BY <1>1, <2>2 DEF LookAtSession, Single, Committed, Answered, turns, session, result
  <1>2. CASE ClaimAnswer(f)
    <2>1. CASE current = claim[f] /\ ~answerStarted
      <3>1. answerStarted' = TRUE /\ pc' = [pc EXCEPT ![f] = "task"]
        BY <1>2, <2>1 DEF ClaimAnswer, GoTo
      <3>2. \A g \in Finishers : pc[g] # "task"
        BY <2>1 DEF Tasked
      <3>3. answers[1] = 0
        BY <1>0, <1>2, <2>1, TurnOne DEF ClaimAnswer, Claimed, Answered
      <3>4. Claimed' /\ Tasked'
        BY <1>0, <1>2, <3>1, <3>2, <3>3 DEF Claimed, Tasked, ClaimAnswer, result
      <3> QED BY <1>2, <3>1, <3>4 DEF ClaimAnswer, Single, Committed, Answered, turns, result
    <2>2. CASE ~(current = claim[f] /\ ~answerStarted)
      <3>1. UNCHANGED answerStarted /\ pc' = [pc EXCEPT ![f] = Back(f)]
        BY <1>2, <2>2 DEF ClaimAnswer, GoTo
      <3>2. Claimed' /\ Tasked'
        BY <1>0, <1>2, <3>1 DEF Claimed, Tasked, ClaimAnswer, Back, result
      <3> QED BY <1>2, <3>1, <3>2 DEF ClaimAnswer, Single, Committed, Answered, turns, result
    <2> QED BY <2>1, <2>2
  <1>3. CASE FinalAnswers(f)
    <2>1. answerStarted /\ answers[1] = 0 /\ commitStarted /\ \A g \in Finishers \ {f} : pc[g] # "task"
      BY <1>3 DEF FinalAnswers, Tasked, Claimed
    <2>2. answers' = answers \/ answers' = [answers EXCEPT ![1] = answers[1] + 1]
      BY <1>3, AnswerAlone DEF FinalAnswers, result
    <2>3. answers'[1] <= 1 /\ \A u \in Turns : u # 1 => answers'[u] = 0
      BY <1>0, <2>1, <2>2, TurnOne DEF Single
    <2>4. pc' = [pc EXCEPT ![f] = Back(f)]
      BY <1>3 DEF FinalAnswers, GoTo
    <2>5. \A g \in Finishers : pc'[g] # "task" /\ (pc'[g] = "claim" => pc[g] = "claim")
      BY <1>0, <2>1, <2>4 DEF Back
    <2>6. Claimed' /\ Tasked'
      BY <1>3, <2>5 DEF Claimed, Tasked, FinalAnswers, session
    <2>7. Answered' /\ Committed'
      BY <1>3, <2>1, <2>3 DEF Answered, Committed, FinalAnswers, turns, session
    <2> QED BY <1>3, <2>3, <2>6, <2>7 DEF FinalAnswers, Single, turns, session
  <1> QED BY <1>1, <1>2, <1>3 DEF FinisherStep

\* The other steps of a committer and a consumer neither claim nor answer.
LEMMA FinishAlone ==
  ASSUME Alone, NEW t \in Turns, CommitStep(t) \/ ConsumeStep(t)
  PROVE  OneListen'
  <1>0. Consumer(t) \in Finishers /\ Committer(t) \in Finishers
    BY FinisherNames
  <1>1. CASE FinisherStep(Committer(t)) \/ FinisherStep(Consumer(t))
    BY <1>0, <1>1, FinisherAlone
  <1>2. CASE Commit(t) \/ FinalSeen(t) \/ FinalTimeout(t) \/ TakeFinal(t) \/ StreamEnds(t)
    <2>1. /\ UNCHANGED <<plan, current, nextTurn, listening, stream, commitStarted, answerStarted,
                         reader, stopper, answers>>
          /\ \E f \in Finishers : \E to \in {"wait", "done", "maybe"} : pc' = [pc EXCEPT ![f] = to]
      BY <1>0, <1>2 DEF Commit, FinalSeen, FinalTimeout, TakeFinal, StreamEnds, GoTo, turns, session,
                        remote, result
    <2>2. \A f \in Finishers : pc'[f] \in {"claim", "task"} => pc'[f] = pc[f]
      BY <2>1 DEF Alone, Typed, TypeOK
    <2> QED BY <2>1, <2>2 DEF Alone, OneListen, Single, Committed, Claimed, Tasked, Answered
  <1> QED BY <1>1, <1>2 DEF CommitStep, ConsumeStep

\* What comes in a session is settled when it begins.
LEMMA PlanStays == [Next]_vars => plan' = plan
  <1> SUFFICES ASSUME [Next]_vars PROVE plan' = plan
    OBVIOUS
  <1>1. CASE ListenStart \/ ListenStop \/ AutoStop \/ Abort \/ ReaderStep
    BY <1>1 DEF ListenStart, ListenStop, AutoStop, Abort, ReaderStep, StartTurn, ListenOn,
                ResetStream, StreamUp, StreamFails, AbortStream, AbortTurn
  <1>2. ASSUME NEW t \in Turns, StopStep(t) PROVE plan' = plan
    BY <1>2 DEF StopStep, Drained, StartCommit, StopAnswers
  <1>3. ASSUME NEW f, FinisherStep(f) PROVE plan' = plan
    BY <1>3 DEF FinisherStep, LookAtSession, ClaimAnswer, FinalAnswers
  <1>4. ASSUME NEW t \in Turns, CommitStep(t) PROVE plan' = plan
    BY <1>3, <1>4 DEF CommitStep, Commit, FinalSeen, FinalTimeout
  <1>5. ASSUME NEW t \in Turns, ConsumeStep(t) PROVE plan' = plan
    BY <1>3, <1>5 DEF ConsumeStep, TakeFinal, StreamEnds
  <1>6. ASSUME NEW t \in Turns, ProviderFinal(t) PROVE plan' = plan
    BY <1>6 DEF ProviderFinal
  <1>7. CASE TurnCompletes \/ Quiet \/ UNCHANGED vars
    BY <1>7 DEF TurnCompletes, Quiet, vars
  <1> QED BY <1>1, <1>2, <1>4, <1>5, <1>6, <1>7 DEF Next

\* The invariant of a session of one listen is inductive.
LEMMA NextAnswered == AnswerInv /\ [Next]_vars => AnswerInv'
  <1> SUFFICES ASSUME AnswerInv, [Next]_vars, plan.listens = 1, plan' = plan PROVE OneListen'
    BY PlanStays, NextTyped DEF AnswerInv
  <1>0. Alone
    BY DEF AnswerInv, Alone
  <1>1. ASSUME UNCHANGED vars PROVE OneListen'
    BY <1>0, <1>1 DEF vars, turns, session, finish, remote, result, Alone, OneListen, Single, Committed,
                      Claimed, Tasked, Answered
  <1>2. CASE TurnCompletes
    BY <1>0, <1>2, TurnOne, StopAlone
  <1> QED BY <1>0, <1>1, <1>2, ReaderAlone, StopAlone, FinishAlone DEF Next, Quiet

\* Whichever of stop, commit and final comes last, the turn of a session's only
\* listen is answered at most once.
THEOREM AnsweredOnce == Spec => []OneAnswer
  <1>1. Init => AnswerInv
    <2> SUFFICES ASSUME Init, plan.listens = 1 PROVE OneListen
      BY InitTyped DEF AnswerInv
    <2>1. 1 \in Turns
      BY DEF Init, Sessions, Turns
    <2> QED BY <2>1 DEF Init, OneListen, Single, Committed, Claimed, Tasked, Answered, NoTurn
  <1>2. AnswerInv => OneAnswer
    BY TurnOne DEF AnswerInv, OneAnswer, Alone, OneListen, Single, Answered
  <1> QED BY <1>1, <1>2, NextAnswered, PTL DEF Spec

-----------------------------------------------------------------------------
(* What is said once is answered once, in a session of two listens.  The   *)
(* final of stream 1 comes once.  Before the second listen forgets it the  *)
(* claim of answerStarted keeps a second answer away, and after that it    *)
(* only comes when turn 1 was not answered from it.                        *)

\* the second listen has not reset the session yet
Early == nextTurn <= 1 \/ reader \in {"listen", "reset"}

\* the first listen is being made
First == nextTurn = 0 \/ (nextTurn = 1 /\ reader \in {"listen", "reset", "start"})

Counted == /\ nextTurn \in {0, 1, 2} /\ current \in {NoTurn, nextTurn}
           /\ reader = "turn" => nextTurn < 2
           /\ \A s \in Turns : final = s \/ mail[s] \/ provider[s] # "none" \/ stream = s => s <= nextTurn
           /\ \A t \in Turns : words[t] # {} => t <= nextTurn
           /\ \A t \in Turns \ {1} : stopper[t] # "none" => nextTurn = 2 /\ reader \notin Making

Begun == /\ First => ~commitStarted /\ stopper[1] = "none" /\ \A f \in Finishers : pc[f] \notin {"claim", "task"}
         /\ listening /\ nextTurn = 1 => stopper[1] = "none"
         /\ stream = 1 => Early

\* only the commit of its own stop brings the final of stream 1, and once
Heard1 == /\ stopper[1] # "done" => ~mail[1] /\ provider[1] # "committed" /\ final # 1
          /\ stopper[1] = "answer" => provider[1] \in {"none", "ended"}
          /\ mail[1] \/ final = 1 => provider[1] = "ended"
          /\ final = 1 => ~mail[1]
          /\ \A t \in Turns : pc[Committer(t)] = "commit" /\ claim[Committer(t)] = 1 => stopper[1] = "done"

OneTask == Early => /\ \A f \in Finishers : pc[f] = "task" => answerStarted
                    /\ \A f, g \in Finishers : pc[f] = "task" /\ pc[g] = "task" => f = g

\* turn 1 was answered from its own words: no other turn is
Spoken1 == 1 \in words[1] =>
  /\ stopper[1] = "done" /\ ~mail[1] /\ provider[1] \in {"none", "ended"}
  /\ final = 1 => Early /\ answerStarted /\ \A f \in Finishers : pc[f] # "task"
  /\ \A t \in Turns \ {1} : 1 \notin words[t]

TwoListens == Counted /\ Begun /\ Heard1 /\ OneTask /\ Spoken1 /\ words[1] \subseteq {1}

\* The session has two listens at most, neither ended by the gateway's VAD.
Pair == Typed /\ NoOrphanStream /\ plan.listens \in {1, 2} /\ ~plan.gatewayStops /\ ~EarlyFinals /\ TwoListens

\* What the steps need to know of the state.
LEMMA PairTypes ==
  ASSUME Pair
  PROVE  /\ 1 \in Turns /\ Turns \subseteq Nat \ {0} /\ current \in 0..MaxListens
         /\ stopper \in [Turns -> {"none", "drain", "commit", "answer", "done"}]
         /\ pc \in [Finishers -> {"none", "reading", "commit", "wait", "maybe", "claim", "task", "done"}]
         /\ claim \in [Finishers -> 0..MaxListens]
         /\ provider \in [Turns -> {"none", "open", "committed", "ended"}]
         /\ mail \in [Turns -> BOOLEAN] /\ words \in [Turns -> SUBSET Turns]
         /\ final \in 0..MaxListens /\ stream \in 0..MaxListens
         /\ Counted /\ Begun /\ Heard1 /\ OneTask /\ Spoken1 /\ words[1] \subseteq {1}
  BY DEF Pair, Typed, TypeOK, TwoListens, Turns, Sessions

\* Reader messages that only move the reader and the turn on.
LEMMA ReaderPair ==
  ASSUME Pair, plan' = plan,
         ListenStart \/ StartTurn \/ ListenOn \/ StreamFails \/ Abort \/ AbortTurn \/ ListenStop
  PROVE  TwoListens'
  <1>0. /\ 1 \in Turns /\ Turns \subseteq Nat \ {0}
        /\ stopper \in [Turns -> {"none", "drain", "commit", "answer", "done"}]
        /\ Counted /\ Begun /\ Heard1 /\ OneTask /\ Spoken1 /\ words[1] \subseteq {1}
    BY PairTypes
  <1>1. /\ UNCHANGED <<stream, closed, final, commitStarted, answerStarted, pc, claim, provider, mail, words>>
        /\ stopper' = stopper \/ ListenStop
    BY DEF ListenStart, StartTurn, ListenOn, StreamFails, Abort, AbortTurn, ListenStop, session, finish, remote,
           result
  <1>2. CASE ListenStart
    <2>1. nextTurn < 2 /\ nextTurn' = nextTurn /\ current' = NoTurn /\ listening' = listening
          /\ reader = "idle" /\ reader' = "turn" /\ stopper' = stopper
      BY <1>0, <1>2 DEF ListenStart, Pair, Counted
    <2>2. Counted' /\ Begun'
      BY <1>0, <1>1, <2>1 DEF Counted, Begun, First, Early, Making
    <2> QED BY <1>0, <1>1, <2>1, <2>2 DEF TwoListens, Heard1, OneTask, Spoken1, Early
  <1>3. CASE StartTurn
    <2>1. /\ nextTurn \in {0, 1} /\ nextTurn' = nextTurn + 1 /\ current' = nextTurn + 1
          /\ listening' = listening /\ reader = "turn" /\ reader' = "listen" /\ stopper' = stopper
      BY <1>0, <1>3 DEF StartTurn, Counted
    <2>2. Counted'
      <3>1. \A t \in Turns : t \in Nat /\ (t <= nextTurn => t <= nextTurn')
        BY <1>0, <2>1
      <3>2. \A t \in Turns \ {1} : stopper[t] = "none"
        BY <1>0, <2>1 DEF Counted, Making
      <3>3. nextTurn' \in {0, 1, 2} /\ current' \in {NoTurn, nextTurn'} /\ reader' # "turn"
        BY <2>1
      <3> QED BY <1>0, <1>1, <2>1, <3>1, <3>2, <3>3 DEF Counted
    <2>3. Begun'
      BY <1>0, <1>1, <2>1 DEF Begun, First, Early, Counted
    <2> QED BY <1>0, <1>1, <2>1, <2>2, <2>3 DEF TwoListens, Heard1, OneTask, Spoken1, Early
  <1>4. CASE ListenOn \/ StreamFails \/ Abort \/ AbortTurn
    <2>1. /\ nextTurn' = nextTurn /\ current' \in {current, NoTurn} /\ stopper' = stopper
          /\ reader' # "turn" /\ (First' => First) /\ (Early <=> Early') /\ (reader' \in Making => reader \in Making)
          /\ listening' => listening \/ (reader = "listen" /\ nextTurn \in Turns)
      BY <1>4 DEF ListenOn, StreamFails, Abort, AbortTurn, First, Early, Making, Pair, Typed, Room, turns
    <2>2. Counted'
      BY <1>0, <1>1, <2>1 DEF Counted
    <2>3. Begun'
      BY <1>0, <1>1, <2>1 DEF Begun, First
    <2> QED BY <1>0, <1>1, <2>1, <2>2, <2>3 DEF TwoListens, Heard1, OneTask, Spoken1
  <1>5. CASE ListenStop
    <2>1. /\ UNCHANGED <<current, nextTurn, reader>> /\ reader = "idle" /\ listening /\ ~listening'
          /\ \/ stopper' = stopper
             \/ current # NoTurn /\ stopper' = [stopper EXCEPT ![current] = "drain"]
      BY <1>5 DEF ListenStop, StopTo, turns
    <2>2. nextTurn = 1 => stopper[1] = "none"
      BY <1>0, <2>1 DEF Begun
    <2>3. current = 1 => nextTurn = 1 /\ stopper[1] = "none"
      BY <1>0, <2>2 DEF Counted, NoTurn
    <2>4. stopper'[1] = stopper[1] \/ (stopper[1] = "none" /\ stopper'[1] = "drain" /\ nextTurn = 1)
      BY <1>0, <2>1, <2>3
    <2>5. \A t \in Turns \ {1} : stopper'[t] # "none" => nextTurn = 2 /\ reader \notin Making
      BY <1>0, <2>1 DEF Counted, NoTurn, Making
    <2>6. First => stopper'[1] = "none"
      <3>1. nextTurn = 0 => current = NoTurn
        BY <1>0 DEF Counted, NoTurn
      <3> QED BY <1>0, <2>1, <3>1 DEF First, Begun
    <2>8. Counted' /\ Begun'
      BY <1>0, <1>1, <2>1, <2>4, <2>5, <2>6 DEF Counted, Begun, First, Early
    <2>9. Heard1' /\ Spoken1'
      BY <1>0, <1>1, <2>1, <2>4 DEF Heard1, Spoken1, Early
    <2> QED BY <1>0, <1>1, <2>1, <2>8, <2>9 DEF TwoListens, OneTask, Early
  <1> QED BY <1>2, <1>3, <1>4, <1>5

\* The stream is reset, opened or cancelled.
LEMMA StreamPair ==
  ASSUME Pair, plan' = plan, ResetStream \/ StreamUp \/ AbortStream
  PROVE  TwoListens'
  <1>0. /\ 1 \in Turns /\ Turns \subseteq Nat \ {0}
        /\ pc \in [Finishers -> {"none", "reading", "commit", "wait", "maybe", "claim", "task", "done"}]
        /\ provider \in [Turns -> {"none", "open", "committed", "ended"}]
        /\ stream \in 0..MaxListens
        /\ Counted /\ Begun /\ Heard1 /\ OneTask /\ Spoken1 /\ words[1] \subseteq {1}
    BY PairTypes
  <1>1. UNCHANGED <<current, nextTurn, listening, stopper, claim, mail, words>>
    BY DEF ResetStream, StreamUp, AbortStream, turns, finish, result
  <1>2. CASE ResetStream \/ AbortStream
    <2>1. /\ UNCHANGED <<pc, commitStarted>> /\ final' \in {NoText, final} /\ stream' \in {NoTurn, stream}
          /\ (final' = final /\ answerStarted' = answerStarted) \/ (final' = NoText /\ reader' = "start")
          /\ reader \in {"reset", "cancel"} /\ (reader = "cancel" => reader' = "drop")
          /\ reader = "reset" => reader' = "start"
      BY <1>2 DEF ResetStream, AbortStream, finish
    <2>2. provider' = provider \/ (stream \in Turns /\ provider' = [provider EXCEPT ![stream] = "ended"])
      BY <1>0, <1>2 DEF ResetStream, AbortStream, End, NoTurn, Turns
    <2>3. \A s \in Turns : provider'[s] = provider[s] \/ (s = stream /\ provider'[s] = "ended")
      BY <1>0, <2>2
    <2>4. Counted'
      <3>1. \A s \in Turns : stream' = s => stream = s
        BY <2>1 DEF NoTurn, Turns
      <3>2. \A s \in Turns : final' = s => final = s
        BY <2>1 DEF NoText, Turns
      <3>3. \A s \in Turns : provider'[s] # "none" => s <= nextTurn
        BY <1>0, <2>3 DEF Counted
      <3>4. \A t \in Turns \ {1} : stopper[t] # "none" => nextTurn = 2 /\ reader' \notin Making
        BY <1>0, <2>1 DEF Counted, Making
      <3> QED BY <1>0, <1>1, <2>1, <3>1, <3>2, <3>3, <3>4 DEF Counted
    <2>5. Begun'
      <3>1. First' => First
        BY <1>1, <2>1 DEF First
      <3>2. stream' = 1 => stream = 1 /\ reader = "cancel"
        BY <1>2, <2>1 DEF ResetStream, AbortStream, NoTurn
      <3>3. stream' = 1 => Early'
        BY <1>0, <1>1, <3>2 DEF Begun, Early
      <3> QED BY <1>0, <1>1, <2>1, <3>1, <3>3 DEF Begun
    <2>6. Heard1'
      <3>1. provider'[1] \in {provider[1], "ended"} /\ (final' = 1 => final = 1)
        BY <1>0, <2>1, <2>3 DEF NoText
      <3> QED BY <1>0, <1>1, <2>1, <3>1 DEF Heard1
    <2>7. OneTask'
      <3>1. CASE answerStarted' = answerStarted
        BY <1>0, <1>1, <2>1, <3>1 DEF OneTask, Early
      <3>2. CASE reader = "reset" /\ reader' = "start"
        BY <1>0, <1>1, <2>1, <3>2 DEF OneTask, Early, Begun, First, Counted
      <3> QED BY <2>1, <3>1, <3>2
    <2>8. Spoken1'
      <3>1. provider[1] \in {"none", "ended"} => provider'[1] \in {"none", "ended"}
        BY <1>0, <2>3
      <3>2. final' = 1 => final = 1 /\ answerStarted' = answerStarted /\ reader = "cancel"
        BY <1>2, <2>1 DEF NoText, ResetStream, AbortStream
      <3>3. final' = 1 /\ Early => Early'
        BY <1>1, <2>1, <3>2 DEF Early
      <3> QED BY <1>0, <1>1, <2>1, <3>1, <3>2, <3>3 DEF Spoken1
    <2> QED BY <1>0, <1>1, <2>4, <2>5, <2>6, <2>7, <2>8 DEF TwoListens
  <1>3. CASE StreamUp
    <2>1. /\ nextTurn \in Turns /\ reader = "start" /\ reader' = "idle" /\ stream' = nextTurn /\ final' = NoText
          /\ ~commitStarted' /\ provider' = [provider EXCEPT ![nextTurn] = "open"]
          /\ pc' = [pc EXCEPT ![Consumer(nextTurn)] = "reading"]
      BY <1>3 DEF StreamUp, GoTo, Pair, Typed, Room
    <2>2. nextTurn = 1 => First
      BY <2>1 DEF First
    <2>3. /\ \A f \in Finishers : pc'[f] \in {"claim", "task", "commit"} => pc'[f] = pc[f]
          /\ \A s \in Turns : provider'[s] = provider[s] \/ s = nextTurn
      BY <1>0, <2>1
    <2>4. Counted'
      <3>1. \A s \in Turns : provider'[s] # "none" => s <= nextTurn
        <4>1. nextTurn <= nextTurn
          BY <1>0 DEF Counted
        <4> QED BY <1>0, <2>3, <4>1 DEF Counted
      <3>2. \A s \in Turns : stream' = s => s <= nextTurn
        BY <1>0, <2>1
      <3>3. \A s \in Turns : final' # s
        BY <1>0, <2>1 DEF NoText
      <3>4. \A t \in Turns \ {1} : stopper[t] = "none"
        BY <1>0, <2>1 DEF Counted, Making
      <3> QED BY <1>0, <1>1, <2>1, <3>1, <3>2, <3>3, <3>4 DEF Counted
    <2>5. Begun'
      <3>1. ~First'
        BY <1>0, <1>1, <2>1 DEF First
      <3>2. stream' = 1 => Early'
        BY <1>1, <2>1 DEF Early
      <3> QED BY <1>0, <1>1, <3>1, <3>2 DEF Begun
    <2>6. nextTurn # 1 => provider'[1] = provider[1]
      BY <1>0, <2>3
    <2>7. nextTurn = 1 => stopper[1] = "none" /\ provider'[1] = "open" /\ 1 \notin words[1]
      BY <1>0, <2>1, <2>2 DEF Begun, Spoken1
    <2>8. final' # 1
      BY <2>1 DEF NoText
    <2>9. Heard1'
      <3>1. \A t \in Turns : Committer(t) \in Finishers
        BY FinisherNames
      <3>2. \A t \in Turns : pc'[Committer(t)] = "commit" => pc[Committer(t)] = "commit"
        BY <2>3, <3>1
      <3>3. nextTurn = 1 => ~mail[1]
        BY <1>0, <2>7 DEF Heard1
      <3> QED BY <1>0, <1>1, <2>6, <2>7, <2>8, <3>2, <3>3 DEF Heard1
    <2>10. OneTask'
      <3>1. Early' => nextTurn = 1
        BY <1>0, <1>1, <2>1 DEF Early, Counted
      <3>2. nextTurn = 1 => \A f \in Finishers : pc'[f] # "task"
        BY <1>0, <2>2, <2>3 DEF Begun
      <3> QED BY <3>1, <3>2 DEF OneTask
    <2>11. Spoken1'
      BY <1>0, <1>1, <2>6, <2>7, <2>8 DEF Spoken1
    <2> QED BY <1>0, <1>1, <2>4, <2>5, <2>9, <2>10, <2>11 DEF TwoListens
  <1> QED BY <1>2, <1>3

\* A session that has reached a step of its stop has a turn.
LEMMA StopPair ==
  ASSUME Pair, plan' = plan, NEW t \in Turns, Drained(t) \/ StartCommit(t)
  PROVE  TwoListens'
  <1>0. /\ 1 \in Turns /\ Turns \subseteq Nat \ {0}
        /\ stopper \in [Turns -> {"none", "drain", "commit", "answer", "done"}]
        /\ pc \in [Finishers -> {"none", "reading", "commit", "wait", "maybe", "claim", "task", "done"}]
        /\ claim \in [Finishers -> 0..MaxListens]
        /\ Counted /\ Begun /\ Heard1 /\ OneTask /\ Spoken1 /\ words[1] \subseteq {1}
    BY PairTypes
  <1>1. /\ UNCHANGED <<current, nextTurn, listening, reader, stream, closed, final, answerStarted, provider,
                       mail, words>>
        /\ stopper[t] \in {"drain", "commit"}
      BY DEF Drained, StartCommit, turns, session, remote, result
  <1>2. \E to \in {"commit", "answer", "done"} : stopper' = [stopper EXCEPT ![t] = to]
    BY DEF Drained, StartCommit, StopTo
  <1>3. /\ \A u \in Turns : stopper'[u] = "none" <=> stopper[u] = "none"
        /\ stopper[1] = "done" => stopper'[1] = "done"
    BY <1>0, <1>1, <1>2
  <1>4. ~First
    <2>1. t # 1 => nextTurn = 2
      BY <1>0, <1>1 DEF Counted
    <2>2. t # 1 => reader \notin Making
      BY <1>0, <1>1 DEF Counted
    <2> QED BY <1>0, <1>1, <2>1, <2>2 DEF Begun, First
  <1>5. /\ \A f \in Finishers : pc'[f] \in {"claim", "task"} => pc'[f] = pc[f]
        /\ \A u \in Turns : pc'[Committer(u)] = "commit" /\ claim'[Committer(u)] = 1 =>
             \/ pc[Committer(u)] = "commit" /\ claim[Committer(u)] = 1
             \/ u = t /\ stream = 1 /\ stopper'[t] = "done" /\ stopper[t] = "commit"
    <2>1. CASE UNCHANGED <<pc, claim>>
      BY <2>1
    <2>2. CASE StartCommit(t) /\ ~UNCHANGED <<pc, claim>>
      <3>1. /\ pc' = [pc EXCEPT ![Committer(t)] = "commit"] /\ claim' = [claim EXCEPT ![Committer(t)] = stream]
            /\ stopper' = [stopper EXCEPT ![t] = "done"] /\ stopper[t] = "commit"
        BY <2>2 DEF StartCommit, GoTo, StopTo, finish
      <3>2. \A u \in Turns : Committer(u) \in Finishers /\ (Committer(u) = Committer(t) => u = t)
        BY FinisherNames DEF Committer
      <3> QED BY <1>0, <3>1, <3>2
    <2> QED BY <2>1, <2>2 DEF Drained, finish
  <1>6. stream = 1 /\ stopper[t] = "commit" => t = 1
    <2>1. t # 1 => nextTurn = 2 /\ reader \notin Making
      BY <1>0, <1>1 DEF Counted
    <2> QED BY <1>0, <2>1 DEF Begun, Early, Making
  <1>7. Counted'
    BY <1>0, <1>1, <1>3 DEF Counted
  <1>8. Begun'
    BY <1>0, <1>1, <1>3, <1>4 DEF Begun, First, Early
  <1>9. Heard1'
    <2>1. stopper'[1] # "done" => stopper[1] # "done"
      BY <1>3
    <2>2. stopper'[1] = "answer" => provider[1] \in {"none", "ended"}
      <3>1. CASE stopper'[1] = stopper[1]
        BY <1>0, <3>1 DEF Heard1
      <3>2. CASE t = 1 /\ StartCommit(t) /\ (stream = NoTurn \/ closed)
        BY <1>0, <3>2 DEF Pair, NoOrphanStream, Typed, TypeOK, NoTurn
      <3> QED BY <1>0, <1>2, <3>1, <3>2 DEF Drained, StartCommit, StopTo
    <2>3. \A u \in Turns : pc'[Committer(u)] = "commit" /\ claim'[Committer(u)] = 1 => stopper'[1] = "done"
      BY <1>0, <1>3, <1>5, <1>6 DEF Heard1
    <2> QED BY <1>0, <1>1, <2>1, <2>2, <2>3 DEF Heard1
  <1>10. OneTask'
    BY <1>0, <1>1, <1>5 DEF OneTask, Early
  <1>11. Spoken1'
    BY <1>0, <1>1, <1>3, <1>5 DEF Spoken1, Early
  <1> QED BY <1>0, <1>1, <1>7, <1>8, <1>9, <1>10, <1>11 DEF TwoListens

\* An answer adds the final's words, or the turn's own, to the current turn.
LEMMA WordsAdded ==
  ASSUME Pair, NEW t \in 0..MaxListens, StartAnswer(t)
  PROVE  \/ words' = words
         \/ \E s \in Turns : /\ t = current /\ t = nextTurn /\ t \in Turns /\ s <= t
                             /\ ((final = NoText /\ s = t) \/ (final = s /\ final # NoText))
                             /\ words' = [words EXCEPT ![t] = words[t] \cup {s}]
  <1>0. /\ Turns \subseteq Nat \ {0} /\ final \in 0..MaxListens /\ words \in [Turns -> SUBSET Turns] /\ Counted
    BY PairTypes
  <1>1. CASE current # t
    BY <1>1 DEF StartAnswer, result
  <1>3. CASE current = t /\ t \notin Turns
    <2> DEFINE s == IF final = NoText THEN t ELSE final
    <2>1. words' = [words EXCEPT ![t] = words[t] \cup {s}]
      BY <1>3 DEF StartAnswer
    <2> HIDE DEF s
    <2> QED BY <1>0, <1>3, <2>1
  <1>2. CASE current = t /\ t \in Turns
    <2> DEFINE s == IF final = NoText THEN t ELSE final
    <2>1. s \in Turns /\ ((final = NoText /\ s = t) \/ (final = s /\ final # NoText))
      BY <1>0, <1>2 DEF NoText, Turns
    <2>2. words' = [words EXCEPT ![t] = words[t] \cup {s}]
      BY <1>2 DEF StartAnswer
    <2> HIDE DEF s
    <2>3. t = nextTurn
      BY <1>0, <1>2 DEF Counted, NoTurn, Turns
    <2>4. s <= t
      BY <1>0, <1>2, <2>1, <2>3 DEF Counted
    <2> QED BY <1>2, <2>1, <2>2, <2>3, <2>4
  <1> QED BY <1>1, <1>2, <1>3

\* The stop answers by itself: no final of its stream will come.
LEMMA AnswersPair ==
  ASSUME Pair, plan' = plan, NEW t \in Turns, StopAnswers(t)
  PROVE  TwoListens'
  <1>0. /\ 1 \in Turns /\ Turns \subseteq Nat \ {0}
        /\ stopper \in [Turns -> {"none", "drain", "commit", "answer", "done"}]
        /\ words \in [Turns -> SUBSET Turns]
        /\ Counted /\ Begun /\ Heard1 /\ OneTask /\ Spoken1 /\ words[1] \subseteq {1}
    BY PairTypes
  <1>1. /\ UNCHANGED <<current, nextTurn, listening, reader, stream, closed, final, commitStarted,
                       answerStarted, pc, claim, provider, mail>>
        /\ stopper[t] = "answer" /\ stopper' = [stopper EXCEPT ![t] = "done"]
    BY DEF StopAnswers, StopTo, turns, session, finish, remote
  <1>2. \A u \in Turns : (stopper'[u] = "none" <=> stopper[u] = "none") /\ (stopper'[u] = stopper[u] \/ u = t)
    BY <1>0, <1>1
  <1>3. stopper'[1] \in {stopper[1], "done"} /\ stopper'[t] = "done"
    BY <1>0, <1>1
  <1>4. \/ words' = words
        \/ \E s \in Turns : /\ t = nextTurn /\ s <= t
                            /\ ((final = NoText /\ s = t) \/ (final = s /\ final # NoText))
                            /\ words' = [words EXCEPT ![t] = words[t] \cup {s}]
    BY WordsAdded DEF StopAnswers, Turns
  <1>5. Begun' /\ Heard1' /\ OneTask'
    BY <1>0, <1>1, <1>2, <1>3 DEF Begun, Heard1, OneTask, First, Early
  <1>6. CASE words' = words
    <2>1. Counted' /\ Spoken1'
      BY <1>0, <1>1, <1>2, <1>3, <1>6 DEF Counted, Spoken1, Early
    <2> QED BY <1>0, <1>5, <1>6, <2>1 DEF TwoListens
  <1>7. ASSUME NEW s \in Turns, t = nextTurn, s <= t,
               (final = NoText /\ s = t) \/ (final = s /\ final # NoText),
               words' = [words EXCEPT ![t] = words[t] \cup {s}]
        PROVE  TwoListens'
    <2>1. \A u \in Turns : words'[u] = words[u] \/ (u = t /\ words'[u] = words[u] \cup {s})
      BY <1>0, <1>7
    <2>2. Counted'
      <3>1. \A u \in Turns : words'[u] # {} => u <= nextTurn
        <4>1. nextTurn <= nextTurn
          BY <1>0 DEF Counted
        <4> QED BY <1>0, <1>7, <2>1, <4>1 DEF Counted
      <3> QED BY <1>0, <1>1, <1>2, <3>1 DEF Counted
    <2>3. CASE t = 1
      <3>1. s = 1 /\ nextTurn = 1
        BY <1>0, <1>7, <2>3
      <3>2. stopper[1] = "answer" /\ final # 1 /\ ~mail[1] /\ provider[1] \in {"none", "ended"}
        BY <1>0, <1>1, <2>3 DEF Heard1
      <3>3. \A u \in Turns \ {1} : words'[u] = {}
        <4>1. \A u \in Turns \ {1} : ~(u <= nextTurn)
          BY <1>0, <3>1
        <4> QED BY <1>0, <2>1, <2>3, <4>1 DEF Counted
      <3>4. words'[1] \subseteq {1} /\ stopper'[1] = "done"
        BY <1>0, <1>3, <2>1, <2>3, <3>1
      <3>5. Spoken1'
        BY <1>1, <3>2, <3>3, <3>4 DEF Spoken1
      <3> QED BY <1>5, <2>2, <3>4, <3>5 DEF TwoListens
    <2>4. CASE t # 1
      <3>1. ~Early
        BY <1>0, <1>1, <2>4 DEF Counted, Early, Making
      <3>2. 1 \in words[1] => s # 1
        BY <1>0, <1>7, <2>4, <3>1 DEF Spoken1
      <3>3. words'[1] = words[1] /\ stopper'[1] = stopper[1]
        BY <1>0, <1>2, <2>1, <2>4
      <3>4. Spoken1'
        BY <1>0, <1>1, <2>1, <3>2, <3>3 DEF Spoken1, Early
      <3> QED BY <1>0, <1>5, <2>2, <3>3, <3>4 DEF TwoListens
    <2> QED BY <2>3, <2>4
  <1> QED BY <1>4, <1>6, <1>7

\* A consumer or a committer looks at the session, claims the answer and starts it.
LEMMA FinisherPair ==
  ASSUME Pair, plan' = plan, NEW f \in Finishers, FinisherStep(f)
  PROVE  TwoListens'
  <1>0. /\ 1 \in Turns /\ Turns \subseteq Nat \ {0}
        /\ pc \in [Finishers -> {"none", "reading", "commit", "wait", "maybe", "claim", "task", "done"}]
        /\ claim \in [Finishers -> 0..MaxListens]
        /\ words \in [Turns -> SUBSET Turns]
        /\ Counted /\ Begun /\ Heard1 /\ OneTask /\ Spoken1 /\ words[1] \subseteq {1}
    BY PairTypes
  <1>1. /\ UNCHANGED <<current, nextTurn, listening, reader, stopper, stream, closed, final, commitStarted,
                       provider, mail>>
        /\ pc[f] \in {"maybe", "claim", "task"}
    BY DEF FinisherStep, LookAtSession, ClaimAnswer, FinalAnswers, turns, session, remote
  <1>2. \E to \in {"claim", "task", "reading", "done"} : pc' = [pc EXCEPT ![f] = to]
    BY DEF FinisherStep, LookAtSession, ClaimAnswer, FinalAnswers, GoTo, Back
  <1>3. \A g \in Finishers : /\ pc'[g] = pc[g] \/ g = f
                             /\ g # f => claim'[g] = claim[g]
                             /\ pc'[g] = "commit" => pc[g] = "commit" /\ g # f
    <2>1. claim' = claim \/ claim' = [claim EXCEPT ![f] = current]
      BY DEF FinisherStep, LookAtSession, ClaimAnswer, FinalAnswers
    <2> QED BY <1>0, <1>1, <1>2, <2>1
  <1>4. Heard1'
    <2>1. \A t \in Turns : Committer(t) \in Finishers
      BY FinisherNames
    <2> QED BY <1>0, <1>1, <1>3, <2>1 DEF Heard1
  <1>5. CASE LookAtSession(f)
    <2>1. UNCHANGED <<answerStarted, words>>
      BY <1>5 DEF LookAtSession, session, result
    <2>2. \A g \in Finishers : pc'[g] \in {"claim", "task"} => pc'[g] = pc[g] \/ (g = f /\ pc'[g] = "claim" /\ commitStarted)
      BY <1>0, <1>5 DEF LookAtSession, FinalMayStart, GoTo, Back
    <2>3. Begun' /\ OneTask'
      BY <1>0, <1>1, <2>1, <2>2 DEF Begun, OneTask, First, Early
    <2>4. Counted' /\ Spoken1'
      BY <1>0, <1>1, <2>1, <2>2 DEF Counted, Spoken1, Early
    <2> QED BY <1>0, <1>4, <2>1, <2>3, <2>4 DEF TwoListens
  <1>6. CASE ClaimAnswer(f)
    <2>1. UNCHANGED <<words>> /\ pc[f] = "claim"
      BY <1>6 DEF ClaimAnswer, result
    <2>2. \/ ~answerStarted /\ answerStarted' /\ pc' = [pc EXCEPT ![f] = "task"]
          \/ answerStarted' = answerStarted /\ \E to \in {"reading", "done"} : pc' = [pc EXCEPT ![f] = to]
      BY <1>6 DEF ClaimAnswer, GoTo, Back
    <2>3. ~First
      BY <1>0, <2>1 DEF Begun
    <2>4. Begun'
      BY <1>0, <1>1, <2>3 DEF Begun, First, Early
    <2>5. OneTask'
      <3>1. CASE ~answerStarted /\ answerStarted' /\ pc' = [pc EXCEPT ![f] = "task"]
        <4>1. Early => \A g \in Finishers : pc'[g] = "task" => g = f
          BY <1>0, <3>1 DEF OneTask
        <4> QED BY <1>1, <3>1, <4>1 DEF OneTask, Early
      <3>2. CASE answerStarted' = answerStarted /\ \E to \in {"reading", "done"} : pc' = [pc EXCEPT ![f] = to]
        <4>1. \A g \in Finishers : pc'[g] = "task" => pc[g] = "task"
          BY <1>0, <3>2
        <4> QED BY <1>0, <1>1, <3>2, <4>1 DEF OneTask, Early
      <3> QED BY <2>2, <3>1, <3>2
    <2>6. Spoken1'
      <3>1. CASE ~answerStarted
        BY <1>0, <1>1, <2>1, <3>1 DEF Spoken1
      <3>2. CASE answerStarted' = answerStarted /\ \E to \in {"reading", "done"} : pc' = [pc EXCEPT ![f] = to]
        <4>1. \A g \in Finishers : pc'[g] = "task" => pc[g] = "task"
          BY <1>0, <3>2
        <4> QED BY <1>0, <1>1, <2>1, <3>2, <4>1 DEF Spoken1, Early
      <3> QED BY <2>2, <3>1, <3>2
    <2>7. Counted'
      BY <1>0, <1>1, <2>1 DEF Counted
    <2> QED BY <1>0, <1>4, <2>1, <2>4, <2>5, <2>6, <2>7 DEF TwoListens
  <1>7. CASE FinalAnswers(f)
    <2>1. answerStarted' = answerStarted /\ pc[f] = "task"
      BY <1>7 DEF FinalAnswers, session
    <2>2. \A g \in Finishers : pc'[g] \in {"claim", "task"} => pc'[g] = pc[g] /\ g # f
      BY <1>0, <1>7 DEF FinalAnswers, GoTo, Back
    <2>3. Begun' /\ OneTask'
      BY <1>0, <1>1, <2>1, <2>2 DEF Begun, OneTask, First, Early
    <2>4. \/ words' = words
          \/ \E s, t \in Turns : /\ t = nextTurn /\ s <= t /\ final = s
                                 /\ words' = [words EXCEPT ![t] = words[t] \cup {s}]
      <3>1. claim[f] \in 0..MaxListens
        BY <1>0
      <3>2. words' = words \/ (final # NoText /\ StartAnswer(claim[f]))
        BY <1>7 DEF FinalAnswers, result
      <3> QED BY <3>1, <3>2, WordsAdded
    <2>5. CASE words' = words
      <3>1. Counted' /\ Spoken1'
        BY <1>0, <1>1, <2>1, <2>2, <2>5 DEF Counted, Spoken1, Early
      <3> QED BY <1>0, <1>4, <2>3, <2>5, <3>1 DEF TwoListens
    <2>6. ASSUME NEW s \in Turns, NEW t \in Turns, t = nextTurn, s <= t, final = s,
                 words' = [words EXCEPT ![t] = words[t] \cup {s}]
          PROVE  TwoListens'
      <3>1. \A u \in Turns : words'[u] = words[u] \/ (u = t /\ words'[u] = words[u] \cup {s})
        BY <1>0, <2>6
      <3>2. Counted'
        <4>1. nextTurn <= nextTurn
          BY <1>0 DEF Counted
        <4>2. \A u \in Turns : words'[u] # {} => u <= nextTurn
          BY <1>0, <2>6, <3>1, <4>1 DEF Counted
        <4> QED BY <1>0, <1>1, <4>2 DEF Counted
      <3>3. CASE t = 1
        <4>1. s = 1 /\ nextTurn = 1 /\ final = 1
          BY <1>0, <2>6, <3>3
        <4>2. stopper[1] = "done" /\ ~mail[1] /\ provider[1] = "ended"
          BY <1>0, <4>1 DEF Heard1, Pair, Typed, TypeOK
        <4>3. Early /\ answerStarted /\ \A g \in Finishers : pc'[g] # "task"
          BY <1>0, <2>1, <2>2, <4>1 DEF Early, OneTask
        <4>4. \A u \in Turns \ {1} : words'[u] = {}
          <5>1. \A u \in Turns \ {1} : ~(u <= nextTurn)
            BY <1>0, <4>1
          <5> QED BY <1>0, <3>1, <3>3, <5>1 DEF Counted
        <4>5. words'[1] \subseteq {1}
          BY <1>0, <3>1, <4>1
        <4>6. Spoken1'
          BY <1>1, <2>1, <4>2, <4>3, <4>4 DEF Spoken1, Early
        <4> QED BY <1>4, <2>3, <3>2, <4>5, <4>6 DEF TwoListens
      <3>4. CASE t # 1
        <4>1. 1 \in words[1] => s # 1
          BY <1>0, <2>1, <2>6 DEF Spoken1
        <4>2. words'[1] = words[1]
          BY <1>0, <3>1, <3>4
        <4>3. Spoken1'
          BY <1>0, <1>1, <2>1, <2>2, <3>1, <4>1, <4>2 DEF Spoken1, Early
        <4> QED BY <1>0, <1>4, <2>3, <3>2, <4>2, <4>3 DEF TwoListens
      <3> QED BY <3>3, <3>4
    <2> QED BY <2>4, <2>5, <2>6
  <1> QED BY <1>5, <1>6, <1>7 DEF FinisherStep

\* The committer reaches the provider, and waits for the final.
LEMMA CommitterPair ==
  ASSUME Pair, plan' = plan, NEW t \in Turns, Commit(t) \/ FinalSeen(t) \/ FinalTimeout(t)
  PROVE  TwoListens'
  <1>0. /\ 1 \in Turns /\ Turns \subseteq Nat \ {0} /\ Committer(t) \in Finishers
        /\ pc \in [Finishers -> {"none", "reading", "commit", "wait", "maybe", "claim", "task", "done"}]
        /\ claim \in [Finishers -> 0..MaxListens]
        /\ provider \in [Turns -> {"none", "open", "committed", "ended"}]
        /\ Counted /\ Begun /\ Heard1 /\ OneTask /\ Spoken1 /\ words[1] \subseteq {1}
    BY PairTypes, FinisherNames
  <1>1. UNCHANGED <<current, nextTurn, listening, reader, stopper, stream, closed, final, commitStarted,
                    answerStarted, claim, mail, words>>
    BY DEF Commit, FinalSeen, FinalTimeout, turns, session, remote, result
  <1>2. \E to \in {"wait", "maybe", "done"} : pc' = [pc EXCEPT ![Committer(t)] = to]
    BY DEF Commit, FinalSeen, FinalTimeout, GoTo
  <1>3. \A f \in Finishers : pc'[f] \in {"claim", "task", "commit"} => pc'[f] = pc[f]
    BY <1>0, <1>2
  <1>4. \A s \in Turns : \/ provider'[s] = provider[s]
                         \/ /\ provider[s] = "open" /\ provider'[s] = "committed"
                            /\ pc[Committer(t)] = "commit" /\ claim[Committer(t)] = s
    <2>1. \/ provider' = provider
          \/ /\ pc[Committer(t)] = "commit" /\ provider[claim[Committer(t)]] = "open"
             /\ provider' = [provider EXCEPT ![claim[Committer(t)]] = "committed"]
      BY DEF Commit, FinalSeen, FinalTimeout, remote
    <2> QED BY <1>0, <2>1
  <1>5. provider'[1] = provider[1] \/ (provider[1] = "open" /\ provider'[1] = "committed" /\ stopper[1] = "done")
    BY <1>0, <1>4 DEF Heard1
  <1>6. Counted'
    <2>1. \A s \in Turns : provider'[s] # "none" => provider[s] # "none"
      BY <1>4
    <2> QED BY <1>0, <1>1, <2>1 DEF Counted
  <1>7. Begun' /\ OneTask'
    BY <1>0, <1>1, <1>3 DEF Begun, OneTask, First, Early
  <1>8. Heard1'
    <2>1. \A u \in Turns : pc'[Committer(u)] = "commit" => pc[Committer(u)] = "commit"
      BY <1>3, FinisherNames
    <2> QED BY <1>0, <1>1, <1>5, <2>1 DEF Heard1
  <1>9. Spoken1'
    BY <1>0, <1>1, <1>3, <1>5 DEF Spoken1, Early
  <1> QED BY <1>0, <1>1, <1>6, <1>7, <1>8, <1>9 DEF TwoListens

\* The consumer takes the final, or finds the stream at its end.
LEMMA ConsumerPair ==
  ASSUME Pair, plan' = plan, NEW s \in Turns, TakeFinal(s) \/ StreamEnds(s)
  PROVE  TwoListens'
  <1>0. /\ 1 \in Turns /\ Turns \subseteq Nat \ {0} /\ Consumer(s) \in Finishers
        /\ pc \in [Finishers -> {"none", "reading", "commit", "wait", "maybe", "claim", "task", "done"}]
        /\ mail \in [Turns -> BOOLEAN]
        /\ Counted /\ Begun /\ Heard1 /\ OneTask /\ Spoken1 /\ words[1] \subseteq {1}
    BY PairTypes, FinisherNames
  <1>1. UNCHANGED <<current, nextTurn, listening, reader, stopper, stream, commitStarted, answerStarted,
                    claim, provider, words>>
    BY DEF TakeFinal, StreamEnds, turns, remote, result
  <1>2. \E to \in {"maybe", "done"} : pc' = [pc EXCEPT ![Consumer(s)] = to]
    BY DEF TakeFinal, StreamEnds, GoTo
  <1>3. \A f \in Finishers : pc'[f] \in {"claim", "task", "commit"} => pc'[f] = pc[f]
    BY <1>0, <1>2
  <1>4. \/ final' = final /\ mail' = mail
        \/ final' \in {s, NoText} /\ mail[s] /\ mail' = [mail EXCEPT ![s] = FALSE]
    BY DEF TakeFinal, StreamEnds, remote
  <1>5. /\ \A u \in Turns : mail'[u] => mail[u]
        /\ \A u \in Turns : final' = u => final = u \/ (u = s /\ mail[u] /\ ~mail'[u])
    BY <1>0, <1>4 DEF NoText
  <1>6. Counted'
    BY <1>0, <1>1, <1>5 DEF Counted
  <1>7. Begun' /\ OneTask'
    BY <1>0, <1>1, <1>3 DEF Begun, OneTask, First, Early
  <1>8. Heard1'
    <2>1. \A u \in Turns : pc'[Committer(u)] = "commit" => pc[Committer(u)] = "commit"
      BY <1>3, FinisherNames
    <2> QED BY <1>0, <1>1, <1>5, <2>1 DEF Heard1
  <1>9. Spoken1'
    BY <1>0, <1>1, <1>3, <1>5 DEF Spoken1, Early
  <1> QED BY <1>0, <1>1, <1>6, <1>7, <1>8, <1>9 DEF TwoListens

\* The provider sends the final of a committed stream; a turn is over.
LEMMA RemotePair ==
  ASSUME Pair, plan' = plan, TurnCompletes \/ \E s \in Turns : ProviderFinal(s)
  PROVE  TwoListens'
  <1>0. /\ 1 \in Turns /\ Turns \subseteq Nat \ {0}
        /\ provider \in [Turns -> {"none", "open", "committed", "ended"}]
        /\ mail \in [Turns -> BOOLEAN]
        /\ Counted /\ Begun /\ Heard1 /\ OneTask /\ Spoken1 /\ words[1] \subseteq {1}
    BY PairTypes
  <1>1. CASE TurnCompletes
    <2>1. /\ current' = NoTurn
          /\ UNCHANGED <<nextTurn, listening, reader, stopper, stream, closed, final, commitStarted,
                         answerStarted, pc, claim, provider, mail, words>>
      BY <1>1 DEF TurnCompletes, session, finish, remote, result
    <2> QED BY <1>0, <2>1 DEF TwoListens, Counted, Begun, Heard1, OneTask, Spoken1, First, Early
  <1>2. ASSUME NEW s \in Turns, ProviderFinal(s) PROVE TwoListens'
    <2>1. UNCHANGED <<current, nextTurn, listening, reader, stopper, stream, closed, final, commitStarted,
                      answerStarted, pc, claim, words>>
      BY <1>2 DEF ProviderFinal, turns, session, finish, result
    <2>2. /\ provider[s] = "committed" /\ provider' = [provider EXCEPT ![s] = "ended"]
          /\ mail' = [mail EXCEPT ![s] = TRUE]
      BY <1>2 DEF ProviderFinal, End, Pair
    <2>3. \A u \in Turns : \/ provider'[u] = provider[u] /\ mail'[u] = mail[u]
                           \/ provider[u] = "committed" /\ provider'[u] = "ended"
      BY <1>0, <2>2
    <2>4. Counted'
      <3>1. \A u \in Turns : provider'[u] # "none" \/ mail'[u] => provider[u] # "none" \/ mail[u]
        BY <2>3
      <3> QED BY <1>0, <2>1, <3>1 DEF Counted
    <2>5. Heard1'
      BY <1>0, <2>1, <2>3 DEF Heard1
    <2>6. Spoken1'
      BY <1>0, <2>1, <2>3 DEF Spoken1, Early
    <2> QED BY <1>0, <2>1, <2>4, <2>5, <2>6 DEF TwoListens, Begun, OneTask, First, Early
  <1> QED BY <1>1, <1>2

\* A session without a listen never has a turn, and answers nothing.
NoListen == /\ current = NoTurn /\ reader \notin Making
            /\ \A t \in Turns : words[t] = {}

\* It stays so.
LEMMA NoListenStays ==
  ASSUME Typed, NoListen, plan.listens = 0, [Next]_vars
  PROVE  NoListen'
  <1>0. words \in [Turns -> SUBSET Turns] /\ Turns \subseteq Nat \ {0}
    BY DEF Typed, TypeOK, Turns
  <1>1. CASE ListenStart \/ ListenStop \/ AutoStop \/ Abort \/ ReaderStep
    <2>1. ~ListenStart
      BY DEF Typed, TypeOK, ListenStart
    <2>2. words' = words /\ current' = NoTurn /\ reader' \notin Making
      BY <1>1, <2>1 DEF NoListen, ListenStop, AutoStop, Abort, ReaderStep, StartTurn, ListenOn, ResetStream,
                        StreamUp, StreamFails, AbortStream, AbortTurn, turns, result, Making
    <2> QED BY <2>2 DEF NoListen
  <1>2. ASSUME NEW t, StartAnswer(t) PROVE \A u \in Turns : words'[u] = {}
    <2>1. CASE current # t
      BY <1>2, <2>1 DEF StartAnswer, result, NoListen
    <2>2. CASE current = t
      <3> DEFINE s == IF final = NoText THEN t ELSE final
      <3>1. words' = [words EXCEPT ![t] = words[t] \cup {s}]
        BY <1>2, <2>2 DEF StartAnswer
      <3>2. t \notin Turns
        BY <1>0, <2>2 DEF NoListen, NoTurn
      <3> HIDE DEF s
      <3> QED BY <1>0, <3>1, <3>2 DEF NoListen
    <2> QED BY <2>1, <2>2
  <1>3. ASSUME NEW f, FinisherStep(f) PROVE NoListen'
    <2>1. UNCHANGED <<current, reader>>
      BY <1>3 DEF FinisherStep, LookAtSession, ClaimAnswer, FinalAnswers, turns
    <2>2. words' = words \/ StartAnswer(claim[f])
      BY <1>3 DEF FinisherStep, LookAtSession, ClaimAnswer, FinalAnswers, result
    <2> QED BY <1>2, <2>1, <2>2 DEF NoListen
  <1>4. ASSUME NEW t \in Turns, StopStep(t) \/ CommitStep(t) \/ ConsumeStep(t) \/ ProviderFinal(t) PROVE NoListen'
    <2>1. CASE StopStep(t)
      <3>1. UNCHANGED <<current, reader>> /\ (words' = words \/ StartAnswer(t))
        BY <2>1 DEF StopStep, Drained, StartCommit, StopAnswers, turns, result
      <3> QED BY <1>2, <3>1 DEF NoListen
    <2>2. CASE Commit(t) \/ FinalSeen(t) \/ FinalTimeout(t) \/ TakeFinal(t) \/ StreamEnds(t) \/ ProviderFinal(t)
      BY <2>2 DEF Commit, FinalSeen, FinalTimeout, TakeFinal, StreamEnds, ProviderFinal, turns, result, NoListen
    <2> QED BY <1>3, <1>4, <2>1, <2>2 DEF CommitStep, ConsumeStep
  <1>5. CASE TurnCompletes \/ Quiet \/ UNCHANGED vars
    BY <1>5 DEF TurnCompletes, Quiet, vars, turns, result, NoListen
  <1> QED BY <1>1, <1>4, <1>5 DEF Next

\* The invariant of a session of two listens at most.
PairInv == /\ Owned
           /\ plan.listens = 0 => NoListen
           /\ plan.listens \in {1, 2} /\ ~plan.gatewayStops => TwoListens

\* It is inductive.
LEMMA NextPair ==
  ASSUME EarlyFinals = FALSE
  PROVE  PairInv /\ [Next]_vars => PairInv'
  <1> SUFFICES ASSUME PairInv, [Next]_vars PROVE PairInv'
    OBVIOUS
  <1>1. Owned' /\ plan' = plan /\ Typed
    BY NextOwned, PlanStays DEF PairInv, Owned
  <1>2. plan'.listens = 0 => NoListen'
    BY <1>1, NoListenStays DEF PairInv
  <1>3. ASSUME plan.listens \in {1, 2}, ~plan.gatewayStops PROVE TwoListens'
    <2>1. Pair
      BY <1>3 DEF Pair, PairInv, Owned
    <2>2. CASE ListenStart \/ ListenStop \/ AutoStop \/ Abort \/ ReaderStep
      BY <1>1, <1>3, <2>1, <2>2, ReaderPair, StreamPair DEF AutoStop, ReaderStep
    <2>3. ASSUME NEW t \in Turns, StopStep(t) \/ CommitStep(t) \/ ConsumeStep(t) \/ ProviderFinal(t)
          PROVE  TwoListens'
      <3>1. Consumer(t) \in Finishers /\ Committer(t) \in Finishers
        BY FinisherNames
      <3>2. CASE StopStep(t)
        BY <1>1, <2>1, <3>2, StopPair, AnswersPair DEF StopStep
      <3>3. CASE CommitStep(t)
        BY <1>1, <2>1, <3>1, <3>3, CommitterPair, FinisherPair DEF CommitStep
      <3>4. CASE ConsumeStep(t)
        BY <1>1, <2>1, <3>1, <3>4, ConsumerPair, FinisherPair DEF ConsumeStep
      <3> QED BY <1>1, <2>1, <2>3, <3>2, <3>3, <3>4, RemotePair
    <2>4. CASE TurnCompletes
      BY <1>1, <2>1, <2>4, RemotePair
    <2>5. CASE Quiet \/ UNCHANGED vars
      BY <2>1, <2>5, PairTypes DEF Quiet, vars, turns, session, finish, remote, result, TwoListens, Counted, Begun,
                                   Heard1, OneTask, Spoken1, First, Early
    <2> QED BY <2>2, <2>3, <2>4, <2>5 DEF Next
  <1> QED BY <1>1, <1>2, <1>3 DEF PairInv

\* With a provider that finishes a stream only after its commit, what was said
\* in one of two listens is answered in at most one turn.
THEOREM SpokenInOneTurn ==
  ASSUME EarlyFinals = FALSE
  PROVE  Spec => []SpokenOnce
  <1>1. Init => PairInv
    <2> SUFFICES ASSUME Init PROVE PairInv
      OBVIOUS
    <2>1. Owned
      BY InitTyped DEF Owned, Init, NoOrphanStream, Starting
    <2>2. NoListen
      BY DEF Init, NoListen, Making
    <2>3. ASSUME plan.listens \in {1, 2} PROVE TwoListens
      <3>1. plan.listens \in 0..MaxListens
        BY DEF Init, Sessions
      <3>2. 1 \in Turns
        BY <2>3, <3>1 DEF Turns
      <3>3. \A t \in Turns : Committer(t) \in Finishers /\ pc[Committer(t)] = "none"
        BY FinisherNames DEF Init
      <3> QED BY <3>2, <3>3 DEF Init, TwoListens, Counted, Begun, Heard1, OneTask, Spoken1, First, Early, NoTurn,
                                NoText, Turns, Making
    <2> QED BY <2>1, <2>2, <2>3 DEF PairInv
  <1>2. PairInv => SpokenOnce
    <2> SUFFICES ASSUME PairInv, plan.listens <= 2, ~plan.gatewayStops,
                        NEW s \in Turns, NEW t \in Turns, NEW u \in Turns, s \in words[t], s \in words[u]
                 PROVE  t = u
      BY DEF SpokenOnce
    <2>1. Typed /\ plan.listens \in {0, 1, 2}
      BY DEF PairInv, Owned, Typed, TypeOK, Sessions
    <2>2. plan.listens # 0
      BY DEF PairInv, NoListen
    <2>3. /\ Counted /\ Spoken1 /\ words[1] \subseteq {1}
          /\ words \in [Turns -> SUBSET Turns] /\ Turns \subseteq Nat \ {0}
      BY <2>1, <2>2 DEF PairInv, TwoListens, Typed, TypeOK, Turns
    <2>4. t \in {1, 2} /\ u \in {1, 2}
      BY <2>3 DEF Counted
    <2> QED BY <2>3, <2>4 DEF Spoken1
  <1>3. PairInv /\ [Next]_vars => PairInv'
    BY NextPair
  <1> QED BY <1>1, <1>2, <1>3, PTL DEF Spec
=============================================================================
