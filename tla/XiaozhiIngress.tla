--------------------------- MODULE XiaozhiIngress ---------------------------
(***************************************************************************)
(* The uplink of one socket: the reader counts Opus frames into the        *)
(* bounded queue of the current listen, the queue's worker decodes them    *)
(* into voicePipelineFrames, and the answer takes a copy of these when the *)
(* drain wait of listen.stop, or the worker's own auto-stop, lets it       *)
(* (internal/gateway/server.go).                                           *)
(*                                                                         *)
(* A turn and its queue share a number.  The frames' contents, the VAD and *)
(* the decoder are choices; the ASR adapter has no streaming.  What the    *)
(* answer says, and who may say it, is XiaozhiTurn's subject.              *)
(***************************************************************************)
EXTENDS Naturals, Sequences

CONSTANTS
  QueueLimit,   \* maxXiaozhiOpusIngressQueueFrames
  PrerollLimit, \* maxXiaozhiWakePrerollFrames
  MaxListens,   \* bound: listens on the socket
  MaxFrames,    \* bound: frames the device sends
  Plans         \* bound: the sessions considered (Sessions)

ASSUME LimitAssumption == /\ QueueLimit \in Nat /\ PrerollLimit \in Nat /\ MaxFrames \in Nat
                          /\ MaxListens \in Nat \ {0}

\* what may come in one session: listens, frames, and resets of the ingress by a
\* cooldown or a repeated hello
Sessions == [listens : 0..MaxListens, frames : 0..MaxFrames, resets : BOOLEAN]

ASSUME PlanAssumption == Plans \subseteq Sessions

Turns   == 1..MaxListens
NoTurn  == 0
Frames  == 1..MaxFrames
Items   == [turn : 0..MaxListens, frame : Frames]
NoItem  == [turn |-> NoTurn, frame |-> 0]

VARIABLES
  plan,        \* what comes in this session
  current, nextTurn, dead,  \* currentTurn, nextTurnID, turns with a done context
  listening,
  received,    \* opusFrameCount
  processed,   \* opusIngressProcessedFrameCount
  frames,      \* voicePipelineFrames
  preroll,     \* wakePrerollFrames
  queue,       \* each queue, by the turn it was made for
  live,        \* opusIngressQueue: the one in use
  worker, item,  \* each queue's worker: its step and the item it works on
  reader, arrived,  \* the reader's step and the frame it handles
  drain,       \* each turn's stop-finalize goroutine
  sent,        \* frames the device has sent
  heard,       \* what each turn's answer was given ...
  answered,    \* ... once it was given something
  lost         \* counted frames of this listen that no worker will process

turns   == <<current, nextTurn, dead>>
counts  == <<received, processed, lost>>
queues  == <<queue, live>>
workers == <<worker, item>>
reading == <<reader, arrived, sent>>
answers == <<heard, answered>>
vars == <<plan, turns, listening, counts, frames, preroll, queues, workers, reading, drain, answers>>

Init ==
  /\ plan \in Plans
  /\ current = NoTurn /\ nextTurn = 0 /\ dead = {}
  /\ listening = FALSE
  /\ received = 0 /\ processed = 0 /\ lost = 0
  /\ frames = <<>> /\ preroll = <<>>
  /\ queue = [t \in Turns |-> <<>>] /\ live = NoTurn
  /\ worker = [t \in Turns |-> "none"] /\ item = [t \in Turns |-> NoItem]
  /\ reader = "idle" /\ arrived = 0 /\ sent = 0
  /\ drain = [t \in Turns |-> "none"]
  /\ heard = [t \in Turns |-> <<>>] /\ answered = {}

Aborted(t) == current # t \/ t \in dead

\* the answer of turn t takes its copy: newXiaozhiTurnTask
Answer(t) == heard' = [heard EXCEPT ![t] = frames] /\ answered' = answered \cup {t}

-----------------------------------------------------------------------------
(* Binary frames: handleXiaozhiBinary.                                     *)

\* mutant of BufferPreroll: the preroll is never trimmed
BufferPrerollUntrimmed ==
  /\ reader = "idle" /\ sent < plan.frames
  /\ ~listening /\ current = NoTurn
  /\ sent' = sent + 1
  /\ preroll' = Append(preroll, [turn |-> NoTurn, frame |-> sent + 1])
  /\ UNCHANGED <<plan, turns, listening, counts, frames, queues, workers, reader, arrived, drain,
                 answers>>

\* a frame outside a listen is kept for the next one while no turn is current
BufferPreroll ==
  /\ reader = "idle" /\ sent < plan.frames
  /\ ~listening /\ current = NoTurn
  /\ sent' = sent + 1
  /\ LET longer == Append(preroll, [turn |-> NoTurn, frame |-> sent + 1])
     IN  preroll' = IF Len(longer) > PrerollLimit THEN Tail(longer) ELSE longer
  /\ UNCHANGED <<plan, turns, listening, counts, frames, queues, workers, reader, arrived, drain,
                 answers>>

CountArrival ==
  /\ reader = "idle" /\ sent < plan.frames
  /\ listening
  /\ sent' = sent + 1 /\ arrived' = sent + 1
  /\ received' = received + 1
  /\ reader' = "counted"
  /\ UNCHANGED <<plan, turns, listening, processed, lost, frames, preroll, queues, workers, drain,
                 answers>>

\* mutant of Enqueue: the reader decodes the frame a full queue refused
EnqueueInline ==
  /\ reader = "counted"
  /\ IF Len(queue[live]) < QueueLimit
     THEN /\ queue' = [queue EXCEPT ![live] = Append(@, [turn |-> current, frame |-> arrived])]
          /\ UNCHANGED <<processed, frames>>
     ELSE /\ frames' = Append(frames, [turn |-> current, frame |-> arrived])
          /\ processed' = processed + 1 /\ UNCHANGED queue
  /\ reader' = "idle"
  /\ UNCHANGED <<plan, turns, listening, received, lost, preroll, live, workers, arrived, sent, drain,
                 answers>>

\* mutant of Enqueue: no return after a successful enqueue
EnqueueFallsThrough ==
  /\ reader = "counted"
  /\ IF Len(queue[live]) < QueueLimit
     THEN queue' = [queue EXCEPT ![live] = Append(@, [turn |-> current, frame |-> arrived])]
     ELSE UNCHANGED queue
  /\ frames' = Append(frames, [turn |-> current, frame |-> arrived])
  /\ reader' = "idle"
  /\ UNCHANGED <<plan, turns, listening, counts, preroll, live, workers, arrived, sent, drain, answers>>

\* a full queue drops the frame it was counted for
Enqueue ==
  /\ reader = "counted"
  /\ IF Len(queue[live]) < QueueLimit
     THEN /\ queue' = [queue EXCEPT ![live] = Append(@, [turn |-> current, frame |-> arrived])]
          /\ UNCHANGED lost
     ELSE lost' = lost + 1 /\ UNCHANGED queue
  /\ reader' = "idle"
  /\ UNCHANGED <<plan, turns, listening, received, processed, frames, preroll, live, workers,
                 arrived, sent, drain, answers>>

-----------------------------------------------------------------------------
(* The reader's control messages.                                          *)

\* a barge-in cancels the current turn, unless its stop is out already: then it
\* drops the turn with its context alive
Cut == /\ current' = NoTurn
       /\ \/ dead' = dead \cup ({current} \ {NoTurn})
          \/ current \in answered /\ UNCHANGED dead

ListenStart ==
  /\ reader = "idle" /\ nextTurn < plan.listens
  /\ Cut
  /\ reader' = "turn"
  /\ UNCHANGED <<plan, nextTurn, listening, counts, frames, preroll, queues, workers, arrived, sent,
                 drain, answers>>

StartTurn ==
  /\ reader = "turn"
  /\ dead' = dead \cup ({current} \ {NoTurn})
  /\ nextTurn' = nextTurn + 1 /\ current' = nextTurn + 1
  /\ reader' = "listen"
  /\ UNCHANGED <<plan, listening, counts, frames, preroll, queues, workers, arrived, sent, drain,
                 answers>>

ListenOn ==
  /\ reader = "listen"
  /\ listening' = TRUE
  /\ reader' = "reset"
  /\ UNCHANGED <<plan, turns, counts, frames, preroll, queues, workers, arrived, sent, drain, answers>>

\* resetXiaozhiOpusIngressLocked
Reset == received' = 0 /\ processed' = 0 /\ lost' = 0 /\ frames' = <<>>

ResetIngress ==
  /\ reader = "reset"
  /\ Reset
  /\ reader' = "queue"
  /\ UNCHANGED <<plan, turns, listening, preroll, queues, workers, arrived, sent, drain, answers>>

\* startXiaozhiOpusIngressQueue: the old worker's context ends, a new one runs
NewQueue ==
  /\ reader = "queue"
  /\ live' = nextTurn
  /\ worker' = [worker EXCEPT ![nextTurn] = "idle"]
  /\ reader' = "attach"
  /\ UNCHANGED <<plan, turns, listening, counts, frames, preroll, queue, item, arrived, sent, drain,
                 answers>>

\* attachXiaozhiWakePreroll: the frames count as received, never as processed
AttachPreroll ==
  /\ reader = "attach"
  /\ frames' = frames \o preroll
  /\ received' = received + Len(preroll)
  /\ lost' = lost + Len(preroll)
  /\ preroll' = <<>>
  /\ reader' = "idle"
  /\ UNCHANGED <<plan, turns, listening, processed, queues, workers, arrived, sent, drain, answers>>

\* listen.start inside the input cooldown, and a repeated hello
Suppress ==
  /\ plan.resets /\ reader = "idle" /\ nextTurn > 0
  /\ listening' = FALSE
  /\ reader' = "clear"
  /\ UNCHANGED <<plan, turns, counts, frames, preroll, queues, workers, arrived, sent, drain, answers>>

Clear ==
  /\ reader = "clear"
  /\ Reset
  /\ preroll' = <<>>
  /\ reader' = "idle"
  /\ UNCHANGED <<plan, turns, listening, queues, workers, arrived, sent, drain, answers>>

ListenStop ==
  /\ reader = "idle" /\ listening
  /\ reader' = "stop"
  /\ UNCHANGED <<plan, turns, listening, counts, frames, preroll, queues, workers, arrived, sent,
                 drain, answers>>

\* startXiaozhiListenStopAfterIngressDrain
StartDrain ==
  /\ reader = "stop"
  /\ listening' = FALSE
  /\ drain' = IF current = NoTurn THEN drain ELSE [drain EXCEPT ![current] = "waiting"]
  /\ reader' = "idle"
  /\ UNCHANGED <<plan, turns, counts, frames, preroll, queues, workers, arrived, sent, answers>>

Abort ==
  /\ reader = "idle" /\ (listening \/ current # NoTurn)
  /\ listening' = FALSE
  /\ Cut
  /\ UNCHANGED <<plan, nextTurn, counts, frames, preroll, queues, workers, reading, drain, answers>>

ReaderStep == \/ Enqueue \/ StartTurn \/ ListenOn \/ ResetIngress \/ NewQueue \/ AttachPreroll
              \/ Clear \/ StartDrain

-----------------------------------------------------------------------------
(* A worker: runXiaozhiOpusIngressQueue, processXiaozhiOpusIngressFrame.   *)

\* a cancelled worker that finds an item too may take either
Take(w) ==
  /\ worker[w] = "idle" /\ queue[w] # <<>>
  /\ item' = [item EXCEPT ![w] = Head(queue[w])]
  /\ queue' = [queue EXCEPT ![w] = Tail(@)]
  /\ worker' = [worker EXCEPT ![w] = "taken"]
  /\ UNCHANGED <<plan, turns, listening, counts, frames, preroll, live, reading, drain, answers>>

WorkerEnds(w) ==
  /\ worker[w] = "idle" /\ w # live
  /\ worker' = [worker EXCEPT ![w] = "none"]
  /\ UNCHANGED <<plan, turns, listening, counts, frames, preroll, queues, item, reading, drain, answers>>

\* the frame of a cancelled turn is stale; a live one may not decode
Decode(w) ==
  /\ worker[w] = "taken"
  /\ \/ item[w].turn \notin dead /\ worker' = [worker EXCEPT ![w] = "decoded"]
     \/ worker' = [worker EXCEPT ![w] = "count"]
  /\ UNCHANGED <<plan, turns, listening, counts, frames, preroll, queues, item, reading, drain, answers>>

\* observeXiaozhiDecodedIngress
Observe(w) ==
  /\ worker[w] = "decoded"
  /\ frames' = Append(frames, item[w])
  /\ worker' = [worker EXCEPT ![w] = "observed"]
  /\ UNCHANGED <<plan, turns, listening, counts, preroll, queues, item, reading, drain, answers>>

\* maybeAutoStopXiaozhiTurnOnIngress, on speech end or on the longest listen; the
\* worker goes on with the turn it found
AutoStop(w) ==
  /\ worker[w] = "observed"
  /\ listening /\ current # NoTurn
  /\ listening' = FALSE
  /\ item' = [item EXCEPT ![w] = [turn |-> current, frame |-> item[w].frame]]
  /\ worker' = [worker EXCEPT ![w] = "stopped"]
  /\ UNCHANGED <<plan, turns, counts, frames, preroll, queues, reading, drain, answers>>

NoAutoStop(w) ==
  /\ worker[w] = "observed"
  /\ worker' = [worker EXCEPT ![w] = "count"]
  /\ UNCHANGED <<plan, turns, listening, counts, frames, preroll, queues, item, reading, drain, answers>>

AutoAnswer(w) ==
  /\ worker[w] = "stopped"
  /\ Answer(item[w].turn)
  /\ worker' = [worker EXCEPT ![w] = "count"]
  /\ UNCHANGED <<plan, turns, listening, counts, frames, preroll, queues, item, reading, drain>>

\* the deferred count, whatever became of the frame
CountProcessed(w) ==
  /\ worker[w] = "count"
  /\ processed' = processed + 1
  /\ worker' = [worker EXCEPT ![w] = "idle"]
  /\ UNCHANGED <<plan, turns, listening, received, lost, frames, preroll, queues, item, reading, drain,
                 answers>>

WorkerStep(w) == \/ Take(w) \/ WorkerEnds(w) \/ Decode(w) \/ Observe(w) \/ AutoStop(w)
                 \/ NoAutoStop(w) \/ AutoAnswer(w) \/ CountProcessed(w)

-----------------------------------------------------------------------------
(* The stop-finalize goroutine of a turn.                                  *)

\* mutant of Drained: the wait looks at the queue instead of the counters
DrainedWhenEmpty(t) ==
  /\ drain[t] = "waiting" /\ (live # NoTurn => queue[live] = <<>>)
  /\ drain' = [drain EXCEPT ![t] = "drained"]
  /\ UNCHANGED <<plan, turns, listening, counts, frames, preroll, queues, workers, reading, answers>>

Drained(t) ==
  /\ drain[t] = "waiting" /\ processed >= received
  /\ drain' = [drain EXCEPT ![t] = "drained"]
  /\ UNCHANGED <<plan, turns, listening, counts, frames, preroll, queues, workers, reading, answers>>

\* mutant of DrainTimeout: only the turn's context ends the wait
DrainWaitsForContext(t) ==
  /\ drain[t] = "waiting" /\ t \in dead
  /\ drain' = [drain EXCEPT ![t] = "late"]
  /\ UNCHANGED <<plan, turns, listening, counts, frames, preroll, queues, workers, reading, answers>>

\* 300 ms, or the turn's context
DrainTimeout(t) ==
  /\ drain[t] = "waiting"
  /\ drain' = [drain EXCEPT ![t] = "late"]
  /\ UNCHANGED <<plan, turns, listening, counts, frames, preroll, queues, workers, reading, answers>>

DrainAnswers(t) ==
  /\ drain[t] \in {"drained", "late"}
  /\ IF Aborted(t) THEN UNCHANGED answers ELSE Answer(t)
  /\ drain' = [drain EXCEPT ![t] = "done"]
  /\ UNCHANGED <<plan, turns, listening, counts, frames, preroll, queues, workers, reading>>

DrainStep(t) == Drained(t) \/ DrainTimeout(t) \/ DrainAnswers(t)

-----------------------------------------------------------------------------
(* The turn ends: its answer completes, or a host say takes over.          *)

TurnCompletes ==
  /\ current \in answered
  /\ current' = NoTurn
  /\ UNCHANGED <<plan, nextTurn, dead, listening, counts, frames, preroll, queues, workers, reading,
                 drain, answers>>

TurnLost ==
  /\ current # NoTurn
  /\ dead' = dead \cup {current} /\ current' = NoTurn
  /\ UNCHANGED <<plan, nextTurn, listening, counts, frames, preroll, queues, workers, reading, drain,
                 answers>>

\* the socket may go quiet at any time between two messages
Quiet == reader = "idle" /\ UNCHANGED vars

Next ==
  \/ BufferPreroll \/ CountArrival \/ ListenStart \/ Suppress \/ ListenStop \/ Abort
  \/ ReaderStep
  \/ \E w \in Turns : WorkerStep(w)
  \/ \E t \in Turns : DrainStep(t)
  \/ TurnCompletes \/ TurnLost \/ Quiet

\* Nothing is assumed of the workers: AppendFrame of an ASR may block for ever.
Fairness == /\ WF_vars(ReaderStep)
            /\ \A t \in Turns : WF_vars(DrainTimeout(t)) /\ WF_vars(DrainAnswers(t))

Spec == Init /\ [][Next]_vars
FairSpec == Spec /\ Fairness
-----------------------------------------------------------------------------
(* Properties.                                                             *)

TypeOK ==
  /\ plan \in Plans
  /\ current \in 0..MaxListens /\ nextTurn \in 0..MaxListens /\ dead \subseteq Turns
  /\ listening \in BOOLEAN
  /\ received \in Nat /\ processed \in Nat /\ lost \in Nat
  /\ frames \in Seq(Items) /\ preroll \in Seq(Items) /\ Len(preroll) <= PrerollLimit
  /\ queue \in [Turns -> Seq(Items)] /\ live \in 0..MaxListens
  /\ \A t \in Turns : Len(queue[t]) <= QueueLimit
  /\ worker \in [Turns -> {"none", "idle", "taken", "decoded", "observed", "stopped", "count"}]
  /\ item \in [Turns -> Items \cup {NoItem}]
  /\ reader \in {"idle", "counted", "turn", "listen", "reset", "queue", "attach", "clear", "stop"}
  /\ arrived \in 0..MaxFrames /\ sent \in 0..MaxFrames
  /\ drain \in [Turns -> {"none", "waiting", "drained", "late", "done"}]
  /\ heard \in [Turns -> Seq(Items)] /\ answered \subseteq Turns

\* frames of turn t's queue that its worker has not dealt with
Pending(t) == Len(queue[t]) + (IF worker[t] \in {"none", "idle"} THEN 0 ELSE 1)

\* Within one listen the user's words keep their order, the preroll in front,
\* whatever resets come: one worker per queue, replaced with it.  (A second
\* listen meets the old queue's last frame.)
Increasing(s) == \A i, j \in DOMAIN s : i < j => s[i].frame < s[j].frame
HeardInOrder == plan.listens = 1 => \A t \in Turns : Increasing(heard[t])

\* No frame is given twice to an answer, however listens overlap.
HeardOnce ==
  \A t \in Turns : \A i, j \in DOMAIN heard[t] :
    i # j => heard[t][i].frame # heard[t][j].frame

\* one listen, and nothing resets the counters while its worker counts
Undisturbed == plan.listens = 1 /\ ~plan.resets

\* While nothing disturbs the listen, the answer misses nothing once the wait
\* of listen.stop has reported a drained queue.
DrainedMeansHeard ==
  Undisturbed => \A t \in Turns : drain[t] = "drained" /\ ~Aborted(t) => Pending(t) = 0

\* A turn that stopped listening is answered or lost, even if the ASR blocks
\* the worker.
StopIsAnswered ==
  \A t \in Turns : drain[t] = "waiting" ~> (t \in answered \/ Aborted(t))
=============================================================================
