------------------------ MODULE XiaozhiStreamingASR ------------------------
(***************************************************************************)
(* The streaming ASR of one socket: every listen starts a stream of its    *)
(* own, whose events are consumed by a goroutine; a stopped listen commits *)
(* the stream in another goroutine; both may start the turn's answer, and  *)
(* so may the stop itself when there is no stream                          *)
(* (internal/gateway/server.go).                                           *)
(*                                                                         *)
(* A turn and its stream share a number.  A transcript is known by its     *)
(* stream; partials only set flags that are left out.  A turn that is not  *)
(* current is aborted, since nothing here cancels the current one.         *)
(***************************************************************************)
EXTENDS Naturals

CONSTANTS
  MaxListens,   \* bound: listens on the socket
  EarlyFinals,  \* the provider may finish a stream before its commit
  Plans         \* bound: the sessions considered (Sessions)

ASSUME ListenAssumption == MaxListens \in Nat
ASSUME FlagAssumption == EarlyFinals \in BOOLEAN

\* what may come in one session: listens, some ended by the gateway's VAD,
\* streams that fail to start, commits that fail or time out and empty finals
Sessions == [listens : 0..MaxListens, gatewayStops : BOOLEAN,
             startFaults : BOOLEAN, commitFaults : BOOLEAN]

ASSUME PlanAssumption == Plans \subseteq Sessions

Turns  == 1..MaxListens
NoTurn == 0
NoText == 0

\* the goroutines that may claim the answer, each for the stream it was made for
Consumer(s)  == <<"consumer", s>>
Committer(s) == <<"committer", s>>
Finishers == {"consumer", "committer"} \X Turns

VARIABLES
  plan,          \* what comes in this session
  current, nextTurn,  \* currentTurn, nextTurnID
  listening,
  stream,        \* streamingASRSession, by the turn it was started for
  closed,        \* streamingASRClosed
  final,         \* streamingASRFinalText, by the stream it came from
  commitStarted, \* streamingASRCommitStarted
  answerStarted, \* streamingASRAnswerStarted
  reader,        \* the reader's step
  stopper,       \* for each turn, what became of its stop
  pc, claim,     \* each finisher: its step and the turn it has in hand
  provider,      \* each stream at the provider
  mail,          \* a final event on its way to the consumer
  answers,       \* answers started for each turn
  words          \* the transcripts they were given

turns   == <<current, nextTurn>>
session == <<stream, closed, final, commitStarted, answerStarted>>
finish  == <<pc, claim>>
remote  == <<provider, mail>>
result  == <<answers, words>>
vars == <<plan, turns, listening, session, reader, stopper, finish, remote, result>>

Init ==
  /\ plan \in Plans
  /\ current = NoTurn /\ nextTurn = 0 /\ listening = FALSE
  /\ stream = NoTurn /\ closed = FALSE /\ final = NoText
  /\ commitStarted = FALSE /\ answerStarted = FALSE
  /\ reader = "idle"
  /\ stopper = [t \in Turns |-> "none"]
  /\ pc = [f \in Finishers |-> "none"] /\ claim = [f \in Finishers |-> NoTurn]
  /\ provider = [s \in Turns |-> "none"] /\ mail = [s \in Turns |-> FALSE]
  /\ answers = [t \in Turns |-> 0] /\ words = [t \in Turns |-> {}]

GoTo(f, to) == pc' = [pc EXCEPT ![f] = to]
StopTo(t, to) == stopper' = [stopper EXCEPT ![t] = to]

\* stream.Cancel: what is on its way is still delivered
End(s) == provider' = [provider EXCEPT ![s] = "ended"]

\* newXiaozhiTurnTask, startXiaozhiTurnTask: batch ASR hears the turn's own
\* frames; an aborted turn says nothing (XiaozhiTurn)
StartAnswer(t) ==
  IF current # t THEN UNCHANGED result
  ELSE /\ answers' = [answers EXCEPT ![t] = @ + 1]
       /\ words' = [words EXCEPT ![t] = @ \cup {IF final = NoText THEN t ELSE final}]

-----------------------------------------------------------------------------
(* The reader.                                                             *)

\* listen.start drops the turn that is current
ListenStart ==
  /\ reader = "idle" /\ nextTurn < plan.listens
  /\ current' = NoTurn
  /\ reader' = "turn"
  /\ UNCHANGED <<plan, nextTurn, listening, session, stopper, finish, remote, result>>

StartTurn ==
  /\ reader = "turn"
  /\ nextTurn' = nextTurn + 1 /\ current' = nextTurn + 1
  /\ reader' = "listen"
  /\ UNCHANGED <<plan, listening, session, stopper, finish, remote, result>>

ListenOn ==
  /\ reader = "listen"
  /\ listening' = TRUE
  /\ reader' = "reset"
  /\ UNCHANGED <<plan, turns, session, stopper, finish, remote, result>>

\* mutant of ResetStream: the session is forgotten and not cancelled
ResetStreamForgets ==
  /\ reader = "reset"
  /\ stream' = NoTurn /\ closed' = FALSE /\ final' = NoText /\ answerStarted' = FALSE
  /\ reader' = "start"
  /\ UNCHANGED <<plan, turns, listening, commitStarted, stopper, finish, remote, result>>

\* mutant of ResetStream: the transcript is left to the next StartStreamingASR
ResetStreamKeepsFinal ==
  /\ reader = "reset"
  /\ IF stream # NoTurn /\ ~closed THEN End(stream) ELSE UNCHANGED provider
  /\ stream' = NoTurn /\ closed' = FALSE /\ answerStarted' = FALSE
  /\ reader' = "start"
  /\ UNCHANGED <<plan, turns, listening, final, commitStarted, stopper, finish, mail, result>>

\* resetXiaozhiOpusIngressLocked leaves commitStarted alone
ResetStream ==
  /\ reader = "reset"
  /\ IF stream # NoTurn /\ ~closed THEN End(stream) ELSE UNCHANGED provider
  /\ stream' = NoTurn /\ closed' = FALSE /\ final' = NoText /\ answerStarted' = FALSE
  /\ reader' = "start"
  /\ UNCHANGED <<plan, turns, listening, commitStarted, stopper, finish, mail, result>>

StreamUp ==
  /\ reader = "start"
  /\ provider' = [provider EXCEPT ![nextTurn] = "open"]
  /\ stream' = nextTurn
  /\ closed' = FALSE /\ final' = NoText /\ commitStarted' = FALSE /\ answerStarted' = FALSE
  /\ GoTo(Consumer(nextTurn), "reading")
  /\ reader' = "idle"
  /\ UNCHANGED <<plan, turns, listening, stopper, claim, mail, result>>

StreamFails ==
  /\ plan.startFaults /\ reader = "start"
  /\ reader' = "idle"
  /\ UNCHANGED <<plan, turns, listening, session, stopper, finish, remote, result>>

\* listen.stop: the drain wait begins (XiaozhiIngress)
ListenStop ==
  /\ reader = "idle" /\ listening
  /\ listening' = FALSE
  /\ IF current = NoTurn THEN UNCHANGED stopper ELSE StopTo(current, "drain")
  /\ UNCHANGED <<plan, turns, session, reader, finish, remote, result>>

\* the ingress worker's auto-stop, which may come at any step of the reader
AutoStop ==
  /\ plan.gatewayStops /\ listening /\ current # NoTurn
  /\ listening' = FALSE
  /\ StopTo(current, "commit")
  /\ UNCHANGED <<plan, turns, session, reader, finish, remote, result>>

Abort ==
  /\ reader = "idle"
  /\ listening' = FALSE
  /\ reader' = "cancel"
  /\ UNCHANGED <<plan, turns, session, stopper, finish, remote, result>>

\* cancelXiaozhiStreamingASR
AbortStream ==
  /\ reader = "cancel"
  /\ IF stream = NoTurn \/ closed
     THEN UNCHANGED <<closed, provider>>
     ELSE closed' = TRUE /\ End(stream)
  /\ reader' = "drop"
  /\ UNCHANGED <<plan, turns, listening, stream, final, commitStarted, answerStarted, stopper,
                 finish, mail, result>>

AbortTurn ==
  /\ reader = "drop"
  /\ current' = NoTurn
  /\ reader' = "idle"
  /\ UNCHANGED <<plan, nextTurn, listening, session, stopper, finish, remote, result>>

ReaderStep == \/ StartTurn \/ ListenOn \/ ResetStream \/ StreamUp \/ StreamFails
              \/ AbortStream \/ AbortTurn

-----------------------------------------------------------------------------
(* A stop: startXiaozhiListenStopAfterIngressDrain, startXiaozhiStreamingASRCommit. *)

Drained(t) ==
  /\ stopper[t] = "drain"
  /\ StopTo(t, IF current = t THEN "commit" ELSE "done")
  /\ UNCHANGED <<plan, turns, listening, session, reader, finish, remote, result>>

\* an open stream is committed once; without one the stop answers by itself
StartCommit(t) ==
  /\ stopper[t] = "commit"
  /\ IF stream = NoTurn \/ closed
     THEN StopTo(t, "answer") /\ UNCHANGED <<commitStarted, finish>>
     ELSE /\ commitStarted' = TRUE
          /\ StopTo(t, "done")
          /\ IF commitStarted
             THEN UNCHANGED finish
             ELSE /\ GoTo(Committer(t), "commit")
                  /\ claim' = [claim EXCEPT ![Committer(t)] = stream]
  /\ UNCHANGED <<plan, turns, listening, stream, closed, final, answerStarted, reader, remote, result>>

StopAnswers(t) ==
  /\ stopper[t] = "answer"
  /\ StartAnswer(t)
  /\ StopTo(t, "done")
  /\ UNCHANGED <<plan, turns, listening, session, reader, finish, remote>>

-----------------------------------------------------------------------------
(* The committer: finishXiaozhiStreamingASRCommit.                         *)

\* a commit reaches a provider that still has the stream
Commit(t) ==
  LET f == Committer(t)
      s == claim[f]
  IN  /\ pc[f] = "commit"
      /\ \/ /\ provider[s] = "open"
            /\ provider' = [provider EXCEPT ![s] = "committed"]
            /\ GoTo(f, "wait")
         \/ /\ provider[s] = "ended" \/ plan.commitFaults
            /\ GoTo(f, "done") /\ UNCHANGED provider
      /\ UNCHANGED <<plan, turns, listening, session, reader, stopper, claim, mail, result>>

FinalSeen(t) ==
  /\ pc[Committer(t)] = "wait" /\ final # NoText
  /\ GoTo(Committer(t), "maybe")
  /\ UNCHANGED <<plan, turns, listening, session, reader, stopper, claim, remote, result>>

\* 200 ms, or the session's stream is closed
FinalTimeout(t) ==
  /\ pc[Committer(t)] = "wait" /\ final = NoText
  /\ GoTo(Committer(t), "done")
  /\ UNCHANGED <<plan, turns, listening, session, reader, stopper, claim, remote, result>>

-----------------------------------------------------------------------------
(* The consumer: consumeXiaozhiStreamingASREvents.                         *)

\* mutant of TakeFinal: a final only sets the flags, as before the late-final recovery
TakeFinalQuietly(s) ==
  /\ pc[Consumer(s)] = "reading" /\ mail[s]
  /\ mail' = [mail EXCEPT ![s] = FALSE]
  /\ \/ final' = s
     \/ plan.commitFaults /\ final' = NoText
  /\ UNCHANGED <<plan, turns, listening, stream, closed, commitStarted, answerStarted, reader,
                 stopper, finish, provider, result>>

\* the final's text is the session's, whichever stream the session has now
TakeFinal(s) ==
  /\ pc[Consumer(s)] = "reading" /\ mail[s]
  /\ mail' = [mail EXCEPT ![s] = FALSE]
  /\ \/ final' = s
     \/ plan.commitFaults /\ final' = NoText
  /\ GoTo(Consumer(s), "maybe")
  /\ UNCHANGED <<plan, turns, listening, stream, closed, commitStarted, answerStarted, reader,
                 stopper, claim, provider, result>>

\* the event channel is closed
StreamEnds(s) ==
  /\ pc[Consumer(s)] = "reading" /\ provider[s] = "ended" /\ ~mail[s]
  /\ closed' = (closed \/ stream = s)
  /\ GoTo(Consumer(s), "done")
  /\ UNCHANGED <<plan, turns, listening, stream, final, commitStarted, answerStarted, reader,
                 stopper, claim, remote, result>>

-----------------------------------------------------------------------------
(* Both: maybeStartXiaozhiStreamingASRFinalAnswer.                         *)

\* mutant of Back: the committer waits for further finals, as the consumer does
BackToReading(f) == "reading"
Back(f) == IF f[1] = "consumer" THEN "reading" ELSE "done"

\* what the one look at the session has to show
FinalMayStart == ~listening /\ commitStarted /\ final # NoText /\ current # NoTurn

LookAtSession(f) ==
  /\ pc[f] = "maybe"
  /\ GoTo(f, IF FinalMayStart THEN "claim" ELSE Back(f))
  /\ claim' = [claim EXCEPT ![f] = current]
  /\ UNCHANGED <<plan, turns, listening, session, reader, stopper, remote, result>>

\* mutant of ClaimAnswer: the guard is not looked at when it is set
ClaimAnswerAgain(f) ==
  /\ pc[f] = "claim"
  /\ IF current = claim[f]
     THEN answerStarted' = TRUE /\ GoTo(f, "task")
     ELSE GoTo(f, Back(f)) /\ UNCHANGED answerStarted
  /\ UNCHANGED <<plan, turns, listening, stream, closed, final, commitStarted, reader, stopper,
                 claim, remote, result>>

\* claimXiaozhiStreamingASRAnswer
ClaimAnswer(f) ==
  /\ pc[f] = "claim"
  /\ IF current = claim[f] /\ ~answerStarted
     THEN answerStarted' = TRUE /\ GoTo(f, "task")
     ELSE GoTo(f, Back(f)) /\ UNCHANGED answerStarted
  /\ UNCHANGED <<plan, turns, listening, stream, closed, final, commitStarted, reader, stopper,
                 claim, remote, result>>

\* the text is read again; a reset since the claim has emptied it
FinalAnswers(f) ==
  /\ pc[f] = "task"
  /\ IF final = NoText THEN UNCHANGED result ELSE StartAnswer(claim[f])
  /\ GoTo(f, Back(f))
  /\ UNCHANGED <<plan, turns, listening, session, reader, stopper, claim, remote>>

FinisherStep(f) == LookAtSession(f) \/ ClaimAnswer(f) \/ FinalAnswers(f)

-----------------------------------------------------------------------------
(* The provider and the answer, from outside.                              *)

\* the provider ends a stream after its final, as the adapters do
ProviderFinal(s) ==
  /\ provider[s] = "committed" \/ (EarlyFinals /\ provider[s] = "open")
  /\ mail' = [mail EXCEPT ![s] = TRUE]
  /\ End(s)
  /\ UNCHANGED <<plan, turns, listening, session, reader, stopper, finish, result>>

\* completeXiaozhiTurn
TurnCompletes ==
  /\ current # NoTurn /\ answers[current] > 0
  /\ current' = NoTurn
  /\ UNCHANGED <<plan, nextTurn, listening, session, reader, stopper, finish, remote, result>>

\* the socket may go quiet at any time between two messages
Quiet == reader = "idle" /\ UNCHANGED vars

StopStep(t)   == Drained(t) \/ StartCommit(t) \/ StopAnswers(t)
CommitStep(t) == Commit(t) \/ FinalSeen(t) \/ FinalTimeout(t) \/ FinisherStep(Committer(t))
ConsumeStep(s) == TakeFinal(s) \/ StreamEnds(s) \/ FinisherStep(Consumer(s))

Next ==
  \/ ListenStart \/ ListenStop \/ AutoStop \/ Abort \/ ReaderStep
  \/ \E t \in Turns : StopStep(t) \/ CommitStep(t) \/ ConsumeStep(t) \/ ProviderFinal(t)
  \/ TurnCompletes \/ Quiet

\* every goroutine goes on, and the provider answers a commit
Fairness ==
  /\ WF_vars(ReaderStep)
  /\ \A t \in Turns : /\ WF_vars(StopStep(t)) /\ WF_vars(CommitStep(t))
                      /\ WF_vars(ConsumeStep(t)) /\ WF_vars(ProviderFinal(t))

Spec == Init /\ [][Next]_vars
FairSpec == Spec /\ Fairness
-----------------------------------------------------------------------------
(* Properties.                                                             *)

TypeOK ==
  /\ plan \in Plans
  /\ current \in 0..MaxListens /\ nextTurn \in 0..MaxListens
  /\ stream \in 0..MaxListens /\ final \in 0..MaxListens
  /\ listening \in BOOLEAN /\ closed \in BOOLEAN
  /\ commitStarted \in BOOLEAN /\ answerStarted \in BOOLEAN
  /\ reader \in {"idle", "turn", "listen", "reset", "start", "cancel", "drop"}
  /\ stopper \in [Turns -> {"none", "drain", "commit", "answer", "done"}]
  /\ pc \in [Finishers -> {"none", "reading", "commit", "wait", "maybe", "claim", "task", "done"}]
  /\ \A f \in Finishers : IF f[1] = "consumer" THEN pc[f] \notin {"commit", "wait"}
                                               ELSE pc[f] # "reading"
  /\ claim \in [Finishers -> 0..MaxListens]
  /\ provider \in [Turns -> {"none", "open", "committed", "ended"}]
  /\ mail \in [Turns -> BOOLEAN]
  /\ answers \in [Turns -> Nat] /\ words \in [Turns -> SUBSET Turns]

\* docs/agent_handoff_log.md, late-final recovery: the turn is claimed exactly
\* once, whichever of stop, commit and final comes last.  (Of a session's only
\* listen: a late event of one listen can claim the turn of the next.)
OneAnswer == plan.listens = 1 => \A t \in Turns : answers[t] <= 1

\* A stream the provider still has is the session's and can be closed from
\* there, however listens, aborts, failed starts and late events interleave.
NoOrphanStream ==
  \A s \in Turns : provider[s] \in {"open", "committed"} => stream = s /\ ~closed

\* What was said in one listen is answered in at most one turn, although its
\* final comes late and the next listen may begin at any step of an answer's
\* start.  (Of two listens, neither ended by the gateway's VAD.  A third can claim
\* its turn with the final the second was answered from: commitStarted outlives
\* the listen it was set in.)
SpokenOnce ==
  plan.listens <= 2 /\ ~plan.gatewayStops =>
    \A s, t, u \in Turns : s \in words[t] /\ s \in words[u] => t = u

\* docs/plans/2026-06-03-xiaozhi-nonblocking-asr-commit.md: when the final of a
\* stopped turn has come, the turn is answered from it, also when it comes after
\* the committer has given up.
FinalIsAnswered ==
  \A t \in Turns :
    (plan.listens = 1 /\ current = t /\ stream = t /\ final = t /\ stopper[t] # "none")
      ~> (answers[t] > 0 \/ current # t)

\* The turn of a session's only listen is answered or lost once it is stopped.
StopIsAnswered ==
  \A t \in Turns :
    (plan.listens = 1 /\ stopper[t] # "none") ~> (answers[t] > 0 \/ current # t)
=============================================================================
