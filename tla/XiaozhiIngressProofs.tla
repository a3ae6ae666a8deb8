------------------------ MODULE XiaozhiIngressProofs ------------------------
(* Theorems about XiaozhiIngress, for every number of listens and frames,  *)
(* every limit of queue and preroll and every set of sessions.             *)
EXTENDS XiaozhiIngress, SequenceTheorems, TLAPS

USE LimitAssumption, PlanAssumption

-----------------------------------------------------------------------------
(* Types.  A frame is counted and queued only while its listen has a queue *)
(* and a worker that is not idle has an item.                              *)

Making == {"listen", "reset", "queue"}
Busy   == {"taken", "decoded", "observed", "stopped", "count"}

Room == /\ reader = "turn" => nextTurn < MaxListens
        /\ reader \in Making => nextTurn \in Turns
        /\ listening /\ reader \notin {"reset", "queue"} => live \in Turns
        /\ reader = "counted" => live \in Turns /\ arrived \in Frames
        /\ reader = "stop" => live \in Turns

Held == \A w \in Turns : /\ worker[w] \in Busy => item[w] \in Items
                         /\ worker[w] = "stopped" => item[w].turn \in Turns

Typed == TypeOK /\ Room /\ Held

\* What the operations on sequences give.
LEMMA SeqSteps ==
  ASSUME NEW q \in Seq(Items)
  PROVE  /\ Len(q) \in Nat /\ DOMAIN q = 1..Len(q) /\ \A i \in 1..Len(q) : q[i] \in Items
         /\ \A e \in Items : Append(q, e) \in Seq(Items) /\ Len(Append(q, e)) = Len(q) + 1
         /\ \A r \in Seq(Items) : q \o r \in Seq(Items) /\ Len(q \o r) = Len(q) + Len(r)
         /\ q # <<>> => Head(q) \in Items /\ Tail(q) \in Seq(Items) /\ Len(Tail(q)) = Len(q) - 1
         /\ q = <<>> <=> Len(q) = 0
  <1>1. \A e \in Items : Append(q, e) \in Seq(Items) /\ Len(Append(q, e)) = Len(q) + 1
    BY LenProperties
  <1>2. q = <<>> <=> Len(q) = 0
    BY EmptySeq
  <1> QED BY <1>1, <1>2, LenProperties, ElementOfSeq, ConcatProperties, HeadTailProperties

\* The empty sequence holds items.
LEMMA NoItems == <<>> \in Seq(Items) /\ Len(<<>>) = 0
  BY EmptySeq

\* A socket that has just been accepted.
LEMMA InitTyped == Init => Typed
  <1> SUFFICES ASSUME Init PROVE TypeOK /\ Room /\ Held
    BY DEF Typed
  <1>1. current \in 0..MaxListens /\ nextTurn \in 0..MaxListens /\ live \in 0..MaxListens
    BY DEF Init, NoTurn
  <1>2. queue \in [Turns -> Seq(Items)] /\ \A t \in Turns : Len(queue[t]) <= QueueLimit
    BY NoItems DEF Init
  <1>3. heard \in [Turns -> Seq(Items)] /\ frames \in Seq(Items) /\ preroll \in Seq(Items)
        /\ Len(preroll) <= PrerollLimit
    BY NoItems DEF Init
  <1>4. TypeOK
    <2>1. /\ worker \in [Turns -> {"none", "idle"} \cup Busy]
          /\ item \in [Turns -> Items \cup {NoItem}]
          /\ drain \in [Turns -> {"none", "waiting", "drained", "late", "done"}]
      BY DEF Init
    <2>2. dead \subseteq Turns /\ answered \subseteq Turns
      BY DEF Init
    <2>3. arrived \in 0..MaxFrames /\ sent \in 0..MaxFrames
      BY DEF Init
    <2>4. /\ plan \in Plans /\ listening \in BOOLEAN /\ reader = "idle"
          /\ received \in Nat /\ processed \in Nat /\ lost \in Nat
      BY DEF Init
    <2> QED BY <1>1, <1>2, <1>3, <2>1, <2>2, <2>3, <2>4 DEF TypeOK, Busy
  <1>5. Room /\ Held
    BY DEF Init, Room, Held, Making, Busy
  <1> QED BY <1>4, <1>5

-----------------------------------------------------------------------------
(* The reader keeps the types.                                             *)

\* Frames that arrive.
LEMMA ArrivalTyped ==
  ASSUME Typed, BufferPreroll \/ CountArrival \/ Enqueue
  PROVE  Typed'
  <1>0. plan \in Sessions /\ plan.frames \in 0..MaxFrames
    BY DEF Typed, TypeOK, Sessions
  <1>1. CASE BufferPreroll
    <2> DEFINE e == [turn |-> NoTurn, frame |-> sent + 1]
               longer == Append(preroll, e)
    <2>1. e \in Items /\ sent + 1 \in 0..MaxFrames
      BY <1>0, <1>1 DEF BufferPreroll, Typed, TypeOK, Items, Frames, NoTurn
    <2>2. preroll \in Seq(Items) /\ Len(preroll) <= PrerollLimit
      BY DEF Typed, TypeOK
    <2>3. longer \in Seq(Items) /\ Len(longer) = Len(preroll) + 1 /\ Len(longer) \in Nat
      BY <2>1, <2>2, SeqSteps
    <2> HIDE DEF longer
    <2>4. longer # <<>>
      BY <2>2, <2>3, SeqSteps
    <2>5. Tail(longer) \in Seq(Items) /\ Len(Tail(longer)) = Len(preroll)
      BY <2>2, <2>3, <2>4, SeqSteps
    <2>6. preroll' = IF Len(longer) > PrerollLimit THEN Tail(longer) ELSE longer
      BY <1>1 DEF BufferPreroll, longer
    <2>7. preroll' \in Seq(Items) /\ Len(preroll') <= PrerollLimit
      BY <2>2, <2>3, <2>5, <2>6
    <2> QED BY <1>1, <2>1, <2>7 DEF BufferPreroll, Typed, TypeOK, Room, Held, turns, counts, queues,
                                    workers, answers
  <1>2. CASE CountArrival
    BY <1>0, <1>2 DEF CountArrival, Typed, TypeOK, Room, Held, Making, Frames, turns, queues, workers,
                      answers
  <1>3. CASE Enqueue
    <2> DEFINE e == [turn |-> current, frame |-> arrived]
    <2>1. live \in Turns /\ e \in Items /\ queue[live] \in Seq(Items)
      BY <1>3 DEF Enqueue, Typed, TypeOK, Room, Items
    <2>2. CASE Len(queue[live]) < QueueLimit
      <3>1. queue' = [queue EXCEPT ![live] = Append(queue[live], e)] /\ lost' = lost
        BY <1>3, <2>2 DEF Enqueue
      <3>2. Append(queue[live], e) \in Seq(Items) /\ Len(Append(queue[live], e)) <= QueueLimit
        BY <2>1, <2>2, SeqSteps
      <3>3. queue' \in [Turns -> Seq(Items)] /\ \A t \in Turns : Len(queue'[t]) <= QueueLimit
        BY <3>1, <3>2 DEF Typed, TypeOK
      <3> QED BY <1>3, <3>1, <3>3 DEF Enqueue, Typed, TypeOK, Room, Held, Making, turns, workers, answers
    <2>3. CASE ~(Len(queue[live]) < QueueLimit)
      BY <1>3, <2>3 DEF Enqueue, Typed, TypeOK, Room, Held, Making, turns, workers, answers
    <2> QED BY <2>2, <2>3
  <1> QED BY <1>1, <1>2, <1>3

\* A barge-in leaves no current turn.
LEMMA CutTyped == Typed /\ Cut => current' = NoTurn /\ current' \in 0..MaxListens /\ dead' \subseteq Turns
  <1> SUFFICES ASSUME Typed, Cut PROVE current' = NoTurn /\ current' \in 0..MaxListens /\ dead' \subseteq Turns
    OBVIOUS
  <1>1. {current} \ {NoTurn} \subseteq Turns /\ dead \subseteq Turns
    <2>1. current \in 0..MaxListens /\ dead \subseteq Turns
      BY DEF Typed, TypeOK
    <2>2. current # NoTurn => current \in Turns
      BY <2>1 DEF Turns, NoTurn
    <2> QED BY <2>1, <2>2
  <1>2. dead' \subseteq Turns
    BY <1>1 DEF Cut
  <1>3. current' = NoTurn /\ NoTurn \in 0..MaxListens
    BY DEF Cut, NoTurn
  <1> QED BY <1>2, <1>3

\* Control messages.
LEMMA MessageTyped ==
  ASSUME Typed, \/ ListenStart \/ StartTurn \/ ListenOn \/ ResetIngress \/ NewQueue
                \/ Suppress \/ Clear \/ ListenStop \/ Abort
  PROVE  Typed'
  <1> USE NoItems DEF Typed, Room, Held, Making
  <1>0. plan \in Sessions /\ plan.listens \in 0..MaxListens
    BY DEF TypeOK, Sessions
  <1>1. CASE ListenStart
    BY <1>0, <1>1, CutTyped DEF ListenStart, TypeOK, counts, queues, workers, answers
  <1>2. CASE StartTurn
    BY <1>2 DEF StartTurn, TypeOK, Turns, NoTurn, counts, queues, workers, answers
  <1>3. CASE ListenOn
    BY <1>3 DEF ListenOn, TypeOK, turns, counts, queues, workers, answers
  <1>4. CASE ResetIngress
    BY <1>4 DEF ResetIngress, Reset, TypeOK, turns, queues, workers, answers
  <1>5. CASE NewQueue
    BY <1>5 DEF NewQueue, TypeOK, Turns, Busy, turns, counts, answers
  <1>6. CASE Suppress
    BY <1>6 DEF Suppress, TypeOK, turns, counts, queues, workers, answers
  <1>7. CASE Clear
    BY <1>7 DEF Clear, Reset, TypeOK, turns, queues, workers, answers
  <1>8. CASE ListenStop
    BY <1>8 DEF ListenStop, TypeOK, turns, counts, queues, workers, answers
  <1>9. CASE Abort
    BY <1>9, CutTyped DEF Abort, TypeOK, counts, queues, workers, reading, answers
  <1> QED BY <1>1, <1>2, <1>3, <1>4, <1>5, <1>6, <1>7, <1>8, <1>9

\* The preroll goes in front, and a stop begins its drain wait.
LEMMA AttachTyped ==
  ASSUME Typed, AttachPreroll \/ StartDrain
  PROVE  Typed'
  <1>1. CASE AttachPreroll
    <2>1. frames \in Seq(Items) /\ preroll \in Seq(Items)
      BY DEF Typed, TypeOK
    <2>2. frames' \in Seq(Items) /\ Len(preroll) \in Nat
      BY <1>1, <2>1, SeqSteps DEF AttachPreroll
    <2>3. received' \in Nat /\ lost' \in Nat /\ preroll' = <<>>
      BY <1>1, <2>2 DEF AttachPreroll, Typed, TypeOK
    <2> QED BY <1>1, <2>2, <2>3, NoItems DEF AttachPreroll, Typed, TypeOK, Room, Held, Making, turns,
                                             queues, workers, answers
  <1>2. CASE StartDrain
    <2>1. drain' \in [Turns -> {"none", "waiting", "drained", "late", "done"}]
      BY <1>2 DEF StartDrain, Typed, TypeOK
    <2> QED BY <1>2, <2>1 DEF StartDrain, Typed, TypeOK, Room, Held, Making, turns, counts, queues,
                              workers, answers
  <1> QED BY <1>1, <1>2

-----------------------------------------------------------------------------
(* Workers, drain waits and answers keep the types.                        *)

\* An answer's copy of the frames.
LEMMA AnswerTyped ==
  ASSUME Typed, NEW t \in Turns, Answer(t)
  PROVE  heard' \in [Turns -> Seq(Items)] /\ answered' \subseteq Turns
  BY DEF Typed, TypeOK, Answer

\* A worker takes an item, decodes it, hands it over and counts it.
LEMMA WorkerTyped ==
  ASSUME Typed, NEW w \in Turns, WorkerStep(w)
  PROVE  Typed'
  <1> USE DEF Typed, Room
  <1>1. CASE Take(w)
    <2>1. queue[w] \in Seq(Items) /\ queue[w] # <<>>
      BY <1>1 DEF Take, TypeOK
    <2>2. Head(queue[w]) \in Items /\ Tail(queue[w]) \in Seq(Items)
          /\ Len(Tail(queue[w])) = Len(queue[w]) - 1 /\ Len(queue[w]) \in Nat
      BY <2>1, SeqSteps
    <2>3. queue' = [queue EXCEPT ![w] = Tail(queue[w])] /\ item' = [item EXCEPT ![w] = Head(queue[w])]
      BY <1>1 DEF Take
    <2>4. queue' \in [Turns -> Seq(Items)] /\ \A t \in Turns : Len(queue'[t]) <= QueueLimit
      BY <2>2, <2>3 DEF TypeOK
    <2>5. item' \in [Turns -> Items \cup {NoItem}]
      BY <2>2, <2>3 DEF TypeOK
    <2>6. Held'
      BY <1>1, <2>2, <2>3 DEF Take, TypeOK, Held, Busy
    <2> QED BY <1>1, <2>4, <2>5, <2>6 DEF Take, TypeOK, turns, counts, reading, answers
  <1>2. CASE WorkerEnds(w) \/ Decode(w) \/ NoAutoStop(w)
    <2>1. \/ \E to \in {"count", "decoded"} : /\ worker[w] \in Busy
                                              /\ worker' = [worker EXCEPT ![w] = to]
          \/ worker' = [worker EXCEPT ![w] = "none"]
      BY <1>2 DEF WorkerEnds, Decode, NoAutoStop, Busy
    <2>2. UNCHANGED <<plan, current, nextTurn, dead, listening, received, processed, lost, frames,
                      preroll, queue, live, item, reader, arrived, sent, drain, heard, answered>>
      BY <1>2 DEF WorkerEnds, Decode, NoAutoStop, turns, counts, queues, reading, answers
    <2>3. worker' \in [Turns -> {"none", "idle"} \cup Busy]
      BY <2>1 DEF TypeOK, Busy
    <2>4. Held'
      BY <2>1, <2>2 DEF TypeOK, Held, Busy
    <2>5. TypeOK'
      BY <2>2, <2>3 DEF TypeOK, Busy
    <2> QED BY <2>2, <2>4, <2>5
  <1>3. CASE Observe(w)
    <2>1. frames' \in Seq(Items)
      BY <1>3, SeqSteps DEF Observe, TypeOK, Held, Busy
    <2> QED BY <1>3, <2>1 DEF Observe, TypeOK, Held, Busy, turns, counts, queues, reading, answers
  <1>4. CASE AutoStop(w)
    <2> DEFINE e == [turn |-> current, frame |-> item[w].frame]
    <2>1. e \in Items /\ e.turn \in Turns
      BY <1>4 DEF AutoStop, TypeOK, Held, Busy, Items, Turns, NoTurn
    <2>2. item' = [item EXCEPT ![w] = e]
      BY <1>4 DEF AutoStop
    <2> HIDE DEF e
    <2>3. item' \in [Turns -> Items \cup {NoItem}]
      BY <2>1, <2>2 DEF TypeOK
    <2>4. worker' = [worker EXCEPT ![w] = "stopped"]
      BY <1>4 DEF AutoStop
    <2>5. \A v \in Turns : v # w => item'[v] = item[v] /\ worker'[v] = worker[v]
      BY <2>2, <2>4 DEF TypeOK
    <2>6. item'[w] = e /\ worker'[w] = "stopped"
      BY <2>2, <2>4 DEF TypeOK
    <2>7. Held'
      BY <2>1, <2>5, <2>6 DEF Held, Busy
    <2> QED BY <1>4, <2>3, <2>7 DEF AutoStop, TypeOK, turns, counts, queues, reading, answers
  <1>5. CASE AutoAnswer(w)
    <2>1. item[w].turn \in Turns
      BY <1>5 DEF AutoAnswer, Held
    <2>2. heard' \in [Turns -> Seq(Items)] /\ answered' \subseteq Turns
      BY <1>5, <2>1, AnswerTyped DEF AutoAnswer
    <2> QED BY <1>5, <2>2 DEF AutoAnswer, TypeOK, Held, Busy, turns, counts, queues, reading
  <1>6. CASE CountProcessed(w)
    BY <1>6 DEF CountProcessed, TypeOK, Held, Busy, turns, queues, reading, answers
  <1> QED BY <1>1, <1>2, <1>3, <1>4, <1>5, <1>6 DEF WorkerStep

\* A drain wait ends and answers, and a turn ends.
LEMMA DrainTyped ==
  ASSUME Typed, NEW t \in Turns, DrainStep(t) \/ TurnCompletes \/ TurnLost
  PROVE  Typed'
  <1> USE DEF Typed, Room, Held
  <1>1. CASE Drained(t) \/ DrainTimeout(t)
    <2>1. drain' \in [Turns -> {"none", "waiting", "drained", "late", "done"}]
      BY <1>1 DEF Drained, DrainTimeout, TypeOK
    <2>2. UNCHANGED <<plan, turns, listening, counts, frames, preroll, queues, workers, reading, answers>>
      BY <1>1 DEF Drained, DrainTimeout
    <2> QED BY <2>1, <2>2 DEF TypeOK, turns, counts, queues, workers, reading, answers
  <1>2. CASE DrainAnswers(t)
    <2>1. heard' \in [Turns -> Seq(Items)] /\ answered' \subseteq Turns
      BY <1>2, AnswerTyped DEF DrainAnswers, TypeOK, answers
    <2> QED BY <1>2, <2>1 DEF DrainAnswers, TypeOK, turns, counts, queues, workers, reading
  <1>3. CASE TurnCompletes \/ TurnLost
    <2>3. {current} \subseteq Turns /\ dead \subseteq Turns
      BY <1>3 DEF TurnCompletes, TurnLost, TypeOK, Turns, NoTurn
    <2>4. dead' \subseteq Turns
      BY <1>3, <2>3 DEF TurnCompletes, TurnLost
    <2>1. current' \in 0..MaxListens /\ dead' \subseteq Turns
      BY <1>3, <2>4 DEF TurnCompletes, TurnLost, NoTurn
    <2>2. UNCHANGED <<plan, nextTurn, listening, counts, frames, preroll, queues, workers, reading, drain,
                      answers>>
      BY <1>3 DEF TurnCompletes, TurnLost
    <2> QED BY <2>1, <2>2 DEF TypeOK, counts, queues, workers, reading, answers
  <1> QED BY <1>1, <1>2, <1>3 DEF DrainStep

\* Every step keeps the types.
LEMMA NextTyped == Typed /\ [Next]_vars => Typed'
  <1>1. ASSUME Typed, UNCHANGED vars PROVE Typed'
    BY <1>1 DEF Typed, TypeOK, Room, Held, vars, turns, counts, queues, workers, reading, answers
  <1>2. ASSUME Typed, TurnCompletes \/ TurnLost PROVE Typed'
    <2>1. current \in Turns
      BY <1>2 DEF TurnCompletes, TurnLost, Typed, TypeOK, Turns, NoTurn
    <2> QED BY <1>2, <2>1, DrainTyped
  <1> QED BY <1>1, <1>2, ArrivalTyped, MessageTyped, AttachTyped, WorkerTyped, DrainTyped
          DEF Next, Quiet, ReaderStep

\* Queue and preroll keep their limits, and everything else its type.
THEOREM IngressTyped == Spec => []TypeOK
  <1>1. Typed => TypeOK
    BY DEF Typed
  <1> QED BY <1>1, InitTyped, NextTyped, PTL DEF Spec

-----------------------------------------------------------------------------
(* A session of one listen has one queue, and until the queue is made      *)
(* there are no frames and no workers.                                     *)

Lone == plan.listens = 1 =>
  /\ 1 \in Turns /\ current \in {0, 1} /\ nextTurn \in {0, 1} /\ live \in {0, 1}
  /\ reader = "turn" => nextTurn = 0
  /\ live = 1 => nextTurn = 1
  /\ reader \in Making \cup {"turn"} => live = 0
  /\ nextTurn = 0 \/ reader = "listen" => ~listening
  /\ reader = "attach" => live = 1
  /\ \A w \in Turns : w # live => worker[w] = "none" /\ queue[w] = <<>>

\* Its counters, when nothing resets them: what was received is processed, on its way
\* or lost, and nothing comes after listen.stop.
Counted == Undisturbed =>
  /\ reader # "clear"
  /\ received = processed + Pending(1) + lost + (IF reader = "counted" THEN 1 ELSE 0)
  /\ \A t \in Turns : drain[t] # "none" => t = 1 /\ ~listening /\ reader = "idle" /\ nextTurn = 1
  /\ \A t \in Turns : drain[t] = "drained" => Pending(t) = 0

CountInv == Typed /\ Lone /\ Counted

\* What comes in a session is settled when it begins.
LEMMA PlanStays == [Next]_vars => plan' = plan
  <1> SUFFICES ASSUME [Next]_vars PROVE plan' = plan
    OBVIOUS
  <1>1. CASE BufferPreroll \/ CountArrival \/ ListenStart \/ Suppress \/ ListenStop \/ Abort \/ ReaderStep
    BY <1>1 DEF BufferPreroll, CountArrival, ListenStart, Suppress, ListenStop, Abort, ReaderStep, Enqueue,
                StartTurn, ListenOn, ResetIngress, NewQueue, AttachPreroll, Clear, StartDrain
  <1>2. ASSUME NEW w \in Turns, WorkerStep(w) PROVE plan' = plan
    BY <1>2 DEF WorkerStep, Take, WorkerEnds, Decode, Observe, AutoStop, NoAutoStop, AutoAnswer,
                CountProcessed
  <1>3. ASSUME NEW t \in Turns, DrainStep(t) PROVE plan' = plan
    BY <1>3 DEF DrainStep, Drained, DrainTimeout, DrainAnswers
  <1>4. CASE TurnCompletes \/ TurnLost \/ Quiet \/ UNCHANGED vars
    BY <1>4 DEF TurnCompletes, TurnLost, Quiet, vars
  <1> QED BY <1>1, <1>2, <1>3, <1>4 DEF Next

\* The reader keeps it to one queue.
LEMMA ReaderLone ==
  ASSUME Typed, Lone, plan' = plan, plan.listens = 1,
         \/ BufferPreroll \/ CountArrival \/ ListenStart \/ Suppress \/ ListenStop \/ Abort \/ ReaderStep
  PROVE  Lone'
  <1> USE DEF Lone, Making
  <1>1. CASE BufferPreroll \/ CountArrival
    BY <1>1 DEF BufferPreroll, CountArrival, turns, queues, workers
  <1>2. CASE Enqueue
    BY <1>2 DEF Enqueue, turns, workers, Typed, TypeOK, Room, Turns
  <1>3. CASE ListenStart
    BY <1>3, CutTyped DEF ListenStart, NoTurn, queues, workers
  <1>4. CASE StartTurn
    BY <1>4 DEF StartTurn, queues, workers
  <1>5. CASE ListenOn
    BY <1>5 DEF ListenOn, turns, queues, workers, Typed, Room, Turns
  <1>6. CASE ResetIngress
    BY <1>6 DEF ResetIngress, turns, queues, workers
  <1>7. CASE NewQueue
    <2>1. nextTurn = 1 /\ live = 0
      BY <1>7 DEF NewQueue, Typed, Room, Turns
    <2>2. \A w \in Turns : w # 1 => worker'[w] = "none" /\ queue'[w] = <<>>
      <3>1. \A w \in Turns : worker[w] = "none" /\ queue[w] = <<>>
        BY <2>1 DEF Turns
      <3>2. queue' = queue /\ worker' = [worker EXCEPT ![1] = "idle"]
        BY <1>7, <2>1 DEF NewQueue
      <3> QED BY <3>1, <3>2 DEF Typed, TypeOK
    <2>3. live' = 1 /\ reader' = "attach" /\ UNCHANGED <<current, nextTurn, listening>>
      BY <1>7, <2>1 DEF NewQueue, turns
    <2> QED BY <2>1, <2>2, <2>3
  <1>8. CASE AttachPreroll \/ Suppress \/ Clear \/ ListenStop \/ StartDrain
    BY <1>8 DEF AttachPreroll, Suppress, Clear, ListenStop, StartDrain, turns, queues, workers
  <1>9. CASE Abort
    BY <1>9, CutTyped DEF Abort, NoTurn, queues, workers, reading
  <1> QED BY <1>1, <1>2, <1>3, <1>4, <1>5, <1>6, <1>7, <1>8, <1>9 DEF ReaderStep

\* Workers, drain waits and ends of turns make no queue.
LEMMA OthersLone ==
  ASSUME Typed, Lone, plan' = plan, plan.listens = 1, NEW w \in Turns,
         WorkerStep(w) \/ DrainStep(w) \/ TurnCompletes \/ TurnLost
  PROVE  Lone'
  <1> USE DEF Lone, Making
  <1>1. CASE WorkerStep(w)
    <2>1. worker[w] # "none"
      BY <1>1 DEF WorkerStep, Take, WorkerEnds, Decode, Observe, AutoStop, NoAutoStop, AutoAnswer,
                  CountProcessed
    <2>2. \A v \in Turns \ {w} : worker'[v] = worker[v] /\ queue'[v] = queue[v]
      BY <1>1 DEF WorkerStep, Take, WorkerEnds, Decode, Observe, AutoStop, NoAutoStop, AutoAnswer,
                  CountProcessed, queues, Typed, TypeOK
    <2>3. UNCHANGED <<current, nextTurn, live, reader>> /\ (listening' => listening)
      BY <1>1 DEF WorkerStep, Take, WorkerEnds, Decode, Observe, AutoStop, NoAutoStop, AutoAnswer,
                  CountProcessed, turns, queues, reading
    <2> QED BY <2>1, <2>2, <2>3
  <1>2. CASE DrainStep(w)
    BY <1>2 DEF DrainStep, Drained, DrainTimeout, DrainAnswers, turns, queues, workers, reading
  <1>3. CASE TurnCompletes \/ TurnLost
    BY <1>3 DEF TurnCompletes, TurnLost, NoTurn, queues, workers, reading
  <1> QED BY <1>1, <1>2, <1>3

\* Every step keeps it to one queue.
LEMMA NextLone == Typed /\ Lone /\ [Next]_vars => Lone'
  <1> SUFFICES ASSUME Typed, Lone, [Next]_vars, plan.listens = 1 PROVE Lone'
    BY PlanStays DEF Lone
  <1>0. plan' = plan /\ 1 \in Turns
    BY PlanStays DEF Lone
  <1>1. CASE UNCHANGED vars
    BY <1>1 DEF vars, turns, queues, workers, reading, Lone
  <1>2. CASE TurnCompletes \/ TurnLost
    BY <1>0, <1>2, OthersLone
  <1> QED BY <1>0, <1>1, <1>2, ReaderLone, OthersLone DEF Next, Quiet

-----------------------------------------------------------------------------
(* The counters of an undisturbed listen.                                  *)

\* The state of an undisturbed listen.
Steady == Typed /\ Undisturbed /\ Lone /\ Counted

\* How many frames are on their way.
LEMMA PendingFacts ==
  ASSUME Typed, 1 \in Turns
  PROVE  /\ Pending(1) \in Nat /\ Len(queue[1]) \in Nat /\ queue[1] \in Seq(Items)
         /\ received \in Nat /\ processed \in Nat /\ lost \in Nat
         /\ Pending(1) = 0 => queue[1] = <<>> /\ worker[1] \in {"none", "idle"}
  <1>1. queue[1] \in Seq(Items)
    BY DEF Typed, TypeOK
  <1>2. Len(queue[1]) \in Nat /\ (Len(queue[1]) = 0 => queue[1] = <<>>)
    BY <1>1, SeqSteps
  <1> QED BY <1>1, <1>2 DEF Pending, Typed, TypeOK

\* One frame more in the queue is one more on its way.
LEMMA OneMorePending ==
  ASSUME Len(queue[1]) \in Nat, Len(queue'[1]) = Len(queue[1]) + 1, worker' = worker
  PROVE  Pending(1)' = Pending(1) + 1 /\ Pending(1)' \in Nat
  <1> DEFINE n == Len(queue[1])
             m == Len(queue'[1])
             b == IF worker[1] \in {"none", "idle"} THEN 0 ELSE 1
  <1>1. Pending(1) = n + b /\ Pending(1)' = m + b
    BY DEF Pending
  <1>2. b \in {0, 1} /\ n \in Nat /\ m = n + 1
    OBVIOUS
  <1> HIDE DEF n, m, b
  <1> QED BY <1>1, <1>2

\* The reader counts what it queues or drops, and is idle once the stop waits.
LEMMA ReaderCounts ==
  ASSUME Steady, plan' = plan,
         \/ BufferPreroll \/ CountArrival \/ ListenStart \/ Suppress \/ ListenStop \/ Abort \/ ReaderStep
  PROVE  Counted'
  <1> USE DEF Steady, Counted, Undisturbed
  <1>0. 1 \in Turns /\ plan.listens = 1
    BY DEF Lone
  <1>1. CASE BufferPreroll
    BY <1>0, <1>1 DEF BufferPreroll, Pending, turns, counts, queues, workers
  <1>11. CASE CountArrival
    <2>1. \A t \in Turns : drain[t] = "none"
      BY <1>11 DEF CountArrival
    <2>2. Pending(1)' = Pending(1)
      BY <1>11 DEF CountArrival, Pending, queues, workers
    <2>3. /\ received' = received + 1 /\ UNCHANGED <<processed, lost, drain>>
          /\ reader = "idle" /\ reader' = "counted"
      BY <1>11 DEF CountArrival
    <2> QED BY <1>0, <2>1, <2>2, <2>3, PendingFacts
  <1>2. CASE Enqueue
    <2>1. live = 1
      BY <1>0, <1>2 DEF Enqueue, Lone, Typed, Room, Turns
    <2>2. UNCHANGED <<received, processed, worker, drain, listening, nextTurn>> /\ reader' = "idle"
      BY <1>2 DEF Enqueue, turns, workers
    <2>3. Pending(1)' \in Nat /\ lost' \in Nat /\ Pending(1)' + lost' = Pending(1) + lost + 1
      <3>1. CASE Len(queue[live]) < QueueLimit
        <4>1. queue' = [queue EXCEPT ![1] = Append(queue[1], [turn |-> current, frame |-> arrived])]
              /\ lost' = lost
          BY <1>2, <2>1, <3>1 DEF Enqueue
        <4>2. Len(queue'[1]) = Len(queue[1]) + 1
          BY <1>0, <4>1, LenProperties, PendingFacts DEF Typed, TypeOK
        <4>3. Pending(1)' = Pending(1) + 1 /\ Pending(1)' \in Nat
          BY <1>0, <2>2, <4>2, PendingFacts, OneMorePending
        <4>4. Pending(1) \in Nat /\ lost \in Nat
          BY <1>0, PendingFacts
        <4> QED BY <4>1, <4>3, <4>4
      <3>2. CASE ~(Len(queue[live]) < QueueLimit)
        <4>1. queue' = queue /\ lost' = lost + 1
          BY <1>2, <3>2 DEF Enqueue
        <4>2. Pending(1)' = Pending(1)
          BY <2>2, <4>1 DEF Pending
        <4>3. Pending(1) \in Nat /\ lost \in Nat
          BY <1>0, PendingFacts
        <4> QED BY <4>1, <4>2, <4>3
      <3> QED BY <3>1, <3>2
    <2>4. reader = "counted" /\ \A t \in Turns : drain[t] = "none"
      BY <1>2 DEF Enqueue
    <2> QED BY <1>0, <2>2, <2>3, <2>4, PendingFacts
  <1>3. CASE ListenStart \/ Suppress \/ ListenStop
    <2>1. \A t \in Turns : drain[t] = "none"
      BY <1>0, <1>3 DEF ListenStart, Suppress, ListenStop
    <2>2. UNCHANGED <<received, processed, lost, queue, worker, drain>>
          /\ reader = "idle" /\ reader' \in {"turn", "stop"}
      BY <1>0, <1>3 DEF ListenStart, Suppress, ListenStop, counts, queues, workers
    <2>3. Pending(1)' = Pending(1)
      BY <2>2 DEF Pending
    <2> QED BY <1>0, <2>1, <2>2, <2>3
  <1>4. CASE StartTurn \/ ListenOn
    BY <1>0, <1>4, PendingFacts DEF StartTurn, ListenOn, Pending, turns, counts, queues, workers
  <1>5. CASE ResetIngress
    <2>1. live = 0
      BY <1>0, <1>5 DEF ResetIngress, Lone, Making
    <2>2. Pending(1) = 0
      <3>1. queue[1] = <<>> /\ worker[1] = "none"
        BY <1>0, <2>1 DEF Lone
      <3> QED BY <3>1, NoItems DEF Pending
    <2> QED BY <1>0, <1>5, <2>2, PendingFacts DEF ResetIngress, Reset, Pending, turns, queues, workers
  <1>6. CASE NewQueue
    <2>1. live = 0 /\ nextTurn = 1
      BY <1>0, <1>6 DEF NewQueue, Lone, Making, Typed, Room, Turns
    <2>2. worker[1] = "none" /\ worker'[1] = "idle" /\ UNCHANGED <<queue, counts, drain, listening, nextTurn>>
      BY <1>0, <1>6, <2>1 DEF NewQueue, Lone, Typed, TypeOK, turns
    <2>3. Pending(1)' = Pending(1)
      BY <2>2 DEF Pending
    <2>4. \A t \in Turns : drain[t] = "none"
      BY <1>6 DEF NewQueue
    <2> QED BY <1>0, <1>6, <2>2, <2>3, <2>4, PendingFacts DEF NewQueue, counts
  <1>7. CASE AttachPreroll
    <2>1. preroll \in Seq(Items) /\ Len(preroll) \in Nat
      BY SeqSteps DEF Typed, TypeOK
    <2>2. \A t \in Turns : drain[t] = "none"
      BY <1>7 DEF AttachPreroll
    <2>3. Pending(1)' = Pending(1)
      BY <1>7 DEF AttachPreroll, Pending, queues, workers
    <2>4. /\ received' = received + Len(preroll) /\ lost' = lost + Len(preroll)
          /\ UNCHANGED <<processed, drain>> /\ reader = "attach" /\ reader' = "idle"
      BY <1>7 DEF AttachPreroll
    <2> QED BY <1>0, <2>1, <2>2, <2>3, <2>4, PendingFacts
  <1>8. CASE Clear
    BY <1>8 DEF Clear
  <1>9. CASE StartDrain
    <2>1. live = 1 /\ nextTurn = 1 /\ reader = "stop" /\ current \in {0, 1}
      BY <1>0, <1>9 DEF StartDrain, Lone, Typed, Room, Turns
    <2>2. \A t \in Turns : drain'[t] # "none" => t = 1 /\ drain'[t] = "waiting"
      BY <1>9, <2>1 DEF StartDrain, NoTurn, Typed, TypeOK
    <2> QED BY <1>0, <1>9, <2>1, <2>2, PendingFacts DEF StartDrain, Pending, turns, counts, queues, workers
  <1>10. CASE Abort
    BY <1>0, <1>10, PendingFacts DEF Abort, Pending, counts, queues, workers, reading
  <1> QED BY <1>1, <1>2, <1>3, <1>4, <1>5, <1>6, <1>7, <1>8, <1>9, <1>10, <1>11 DEF ReaderStep

\* A worker moves a frame on, and counts it last.
LEMMA WorkerCounts ==
  ASSUME Steady, plan' = plan, NEW w \in Turns, WorkerStep(w)
  PROVE  Counted'
  <1> USE DEF Steady, Counted, Undisturbed
  <1>0. 1 \in Turns /\ plan.listens = 1
    BY DEF Lone
  <1>1. worker[w] # "none"
    BY DEF WorkerStep, Take, WorkerEnds, Decode, Observe, AutoStop, NoAutoStop, AutoAnswer, CountProcessed
  <1>2. w = live /\ w = 1
    BY <1>0, <1>1 DEF Lone, Turns
  <1>3. UNCHANGED <<received, lost, drain, reader, nextTurn>> /\ (listening' => listening)
    BY DEF WorkerStep, Take, WorkerEnds, Decode, Observe, AutoStop, NoAutoStop, AutoAnswer, CountProcessed,
           turns, counts, reading
  <1>4. ~WorkerEnds(1)
    BY <1>2 DEF WorkerEnds
  <1>5. Pending(1)' \in Nat /\ processed' \in Nat /\ Pending(1)' + processed' = Pending(1) + processed
    <2>1. CASE Take(1)
      <3>1. queue[1] \in Seq(Items) /\ queue[1] # <<>>
        BY <2>1, PendingFacts, <1>0 DEF Take
      <3>2. queue'[1] = Tail(queue[1]) /\ Len(Tail(queue[1])) = Len(queue[1]) - 1 /\ Len(queue[1]) \in Nat \ {0}
        BY <1>0, <2>1, <3>1, SeqSteps DEF Take, Typed, TypeOK
      <3>3. worker[1] = "idle" /\ worker'[1] = "taken" /\ processed' = processed
        BY <1>0, <2>1 DEF Take, Typed, TypeOK, counts
      <3> QED BY <1>0, <3>2, <3>3, PendingFacts DEF Pending
    <2>2. CASE Decode(1) \/ Observe(1) \/ AutoStop(1) \/ NoAutoStop(1) \/ AutoAnswer(1)
      <3>1. worker[1] \in Busy /\ worker'[1] \in Busy /\ queue' = queue /\ processed' = processed
        BY <1>0, <2>2 DEF Decode, Observe, AutoStop, NoAutoStop, AutoAnswer, Typed, TypeOK, Busy, queues, counts
      <3> QED BY <1>0, <3>1, PendingFacts DEF Pending, Busy
    <2>3. CASE CountProcessed(1)
      <3>1. worker[1] = "count" /\ worker'[1] = "idle" /\ queue' = queue /\ processed' = processed + 1
        BY <1>0, <2>3 DEF CountProcessed, Typed, TypeOK, queues
      <3> QED BY <1>0, <3>1, PendingFacts DEF Pending
    <2> QED BY <1>2, <1>4, <2>1, <2>2, <2>3 DEF WorkerStep
  <1>6. Pending(1) = 0 => FALSE
    <2>1. Pending(1) = 0 => queue[1] = <<>> /\ worker[1] \in {"none", "idle"}
      BY <1>0, PendingFacts
    <2> QED BY <1>1, <1>2, <1>4, <2>1 DEF WorkerStep, Take, Decode, Observe, AutoStop, NoAutoStop, AutoAnswer,
                                          CountProcessed
  <1> QED BY <1>0, <1>3, <1>5, <1>6, PendingFacts

\* The wait is over when the counters say so, and then nothing is pending.
LEMMA DrainCounts ==
  ASSUME Steady, plan' = plan, NEW t \in Turns, DrainStep(t)
  PROVE  Counted'
  <1> USE DEF Steady, Counted, Undisturbed
  <1>0. 1 \in Turns /\ plan.listens = 1
    BY DEF Lone
  <1>1. drain[t] # "none"
    BY DEF DrainStep, Drained, DrainTimeout, DrainAnswers
  <1>2. t = 1 /\ reader = "idle"
    BY <1>1
  <1>3. UNCHANGED <<received, processed, lost, queue, worker, reader, listening, nextTurn>>
    BY DEF DrainStep, Drained, DrainTimeout, DrainAnswers, turns, counts, queues, workers, reading
  <1>4. Pending(1)' = Pending(1)
    BY <1>3 DEF Pending
  <1>5. \A u \in Turns : u # t => drain'[u] = drain[u]
    BY DEF DrainStep, Drained, DrainTimeout, DrainAnswers, Typed, TypeOK
  <1>6. drain'[t] = "drained" => Pending(1) = 0
    <2>1. drain'[t] = "drained" => processed >= received
      BY <1>1 DEF DrainStep, Drained, DrainTimeout, DrainAnswers, Typed, TypeOK
    <2> QED BY <1>0, <1>2, <2>1, PendingFacts
  <1>7. \A u \in Turns : drain'[u] # "none" => u = 1
    BY <1>2, <1>5
  <1>8. \A u \in Turns : drain'[u] = "drained" => Pending(u)' = 0
    BY <1>2, <1>4, <1>6, <1>7
  <1>9. ~listening /\ reader = "idle" /\ nextTurn = 1
    BY <1>1
  <1> QED BY <1>0, <1>3, <1>4, <1>7, <1>8, <1>9

\* The counters stay truthful.
LEMMA NextCounted == CountInv /\ [Next]_vars => CountInv'
  <1> SUFFICES ASSUME CountInv, [Next]_vars, Undisturbed PROVE Counted'
    BY NextTyped, NextLone, PlanStays DEF CountInv, Counted, Undisturbed
  <1>0. Steady /\ plan' = plan /\ 1 \in Turns
    BY PlanStays DEF CountInv, Steady, Lone, Undisturbed
  <1>1. CASE UNCHANGED <<counts, queue, worker, reader, listening, nextTurn, drain>>
    BY <1>0, <1>1 DEF Steady, Counted, Undisturbed, Pending, counts
  <1>2. CASE TurnCompletes \/ TurnLost \/ Quiet \/ UNCHANGED vars
    BY <1>1, <1>2 DEF TurnCompletes, TurnLost, Quiet, vars, turns, counts, queues, workers, reading
  <1> QED BY <1>0, <1>2, ReaderCounts, WorkerCounts, DrainCounts DEF Next

\* While nothing disturbs the listen, the answer misses nothing once the wait of
\* listen.stop has reported a drained queue.
THEOREM DrainedIsHeard == Spec => []DrainedMeansHeard
  <1>1. Init => CountInv
    <2>1. Init => Lone
      BY DEF Init, Lone, Making, NoTurn, Sessions, Turns
    <2>2. Init => Counted
      BY <2>1, NoItems DEF Init, Counted, Lone, Undisturbed, Pending
    <2> QED BY <2>1, <2>2, InitTyped DEF CountInv
  <1>2. CountInv => DrainedMeansHeard
    BY DEF CountInv, Counted, DrainedMeansHeard, Undisturbed
  <1> QED BY <1>1, <1>2, NextCounted, PTL DEF Spec

-----------------------------------------------------------------------------
(* The order of the frames of one listen.  Everything that was sent is     *)
(* below the horizon; the frames already heard are below the worker's      *)
(* item, and that is below its queue.                                      *)

Below(q, n) == \A i \in DOMAIN q : q[i].frame < n
Above(q, n) == \A i \in DOMAIN q : n < q[i].frame

Horizon == IF reader = "counted" THEN arrived ELSE sent + 1
InHand  == worker[1] \in {"taken", "decoded"}

Sorted == /\ Increasing(frames) /\ Increasing(preroll) /\ Increasing(queue[1])
          /\ Below(frames, Horizon) /\ Below(preroll, Horizon) /\ Below(queue[1], Horizon)

FramesFirst == /\ \A i \in DOMAIN frames : Above(queue[1], frames[i].frame)
               /\ InHand => /\ Below(frames, item[1].frame) /\ Above(queue[1], item[1].frame)
                            /\ item[1].frame < Horizon

NothingYet == /\ reader = "counted" => arrived = sent
              /\ live = 0 => frames = <<>>
              /\ reader = "attach" => frames = <<>> /\ queue[1] = <<>> /\ worker[1] = "idle"

HeardSorted == \A t \in Turns : Increasing(heard[t])

Order == plan.listens = 1 => Sorted /\ FramesFirst /\ NothingYet /\ HeardSorted

\* The session has one listen, and its frames are in order.
InOrder == Typed /\ Lone /\ plan.listens = 1 /\ Sorted /\ FramesFirst /\ NothingYet /\ HeardSorted

\* Frames are numbers.
LEMMA FrameNat == \A e \in Items : e.frame \in Nat
  BY DEF Items, Frames

\* Appending at the end.
LEMMA AppendOrder ==
  ASSUME NEW q \in Seq(Items), NEW e \in Items
  PROVE  /\ Increasing(q) /\ Below(q, e.frame) => Increasing(Append(q, e))
         /\ \A n \in Nat : Below(q, n) /\ e.frame < n => Below(Append(q, e), n)
         /\ \A n \in Nat : Above(q, n) /\ n < e.frame => Above(Append(q, e), n)
         /\ \A i \in DOMAIN Append(q, e) : (i \in DOMAIN q /\ Append(q, e)[i] = q[i]) \/ Append(q, e)[i] = e
  <1>1. /\ Len(q) \in Nat /\ DOMAIN q = 1..Len(q) /\ DOMAIN Append(q, e) = 1..(Len(q) + 1)
        /\ \A i \in 1..Len(q) : Append(q, e)[i] = q[i]
        /\ Append(q, e)[Len(q) + 1] = e
    BY LenProperties
  <1>2. \A i \in 1..Len(q) : q[i].frame \in Nat
    BY ElementOfSeq, FrameNat
  <1>3. e.frame \in Nat
    BY FrameNat
  <1> DEFINE r == Append(q, e)
  <1> HIDE DEF r
  <1>4. \A i \in DOMAIN r : (i \in DOMAIN q /\ r[i] = q[i]) \/ (i = Len(q) + 1 /\ r[i] = e)
    BY <1>1 DEF r
  <1>5. Increasing(q) /\ Below(q, e.frame) => Increasing(r)
    <2> SUFFICES ASSUME Increasing(q), Below(q, e.frame), NEW i \in DOMAIN r, NEW j \in DOMAIN r, i < j
                 PROVE  r[i].frame < r[j].frame
      BY DEF Increasing
    <2>1. i \in 1..Len(q) /\ r[i] = q[i]
      BY <1>1, <1>4 DEF r
    <2>2. CASE j \in DOMAIN q /\ r[j] = q[j]
      BY <1>1, <2>1, <2>2 DEF Increasing
    <2>3. CASE r[j] = e
      BY <1>1, <2>1, <2>3 DEF Below
    <2> QED BY <1>4, <2>2, <2>3
  <1>6. \A n \in Nat : Below(q, n) /\ e.frame < n => Below(r, n)
    BY <1>4 DEF Below
  <1>7. \A n \in Nat : Above(q, n) /\ n < e.frame => Above(r, n)
    BY <1>4 DEF Above
  <1> QED BY <1>4, <1>5, <1>6, <1>7 DEF r

\* Taking from the front.
LEMMA TailOrder ==
  ASSUME NEW q \in Seq(Items), q # <<>>, Increasing(q)
  PROVE  /\ Increasing(Tail(q)) /\ Above(Tail(q), Head(q).frame)
         /\ \A n \in Nat : Below(q, n) => Below(Tail(q), n) /\ Head(q).frame < n
         /\ \A n \in Nat : Above(q, n) => Above(Tail(q), n) /\ n < Head(q).frame
  <1>1. /\ Len(q) \in Nat \ {0} /\ DOMAIN q = 1..Len(q) /\ Tail(q) \in Seq(Items)
        /\ Len(Tail(q)) = Len(q) - 1 /\ DOMAIN Tail(q) = 1..(Len(q) - 1)
        /\ \A i \in 1..(Len(q) - 1) : Tail(q)[i] = q[i + 1]
    BY EmptySeq, LenProperties, HeadTailProperties
  <1>2. Head(q) = q[1] /\ 1 \in DOMAIN q
    BY <1>1
  <1> DEFINE r == Tail(q)
             h == Head(q)
             m == Len(q)
  <1>3. \A i \in DOMAIN r : i \in Nat /\ i >= 1 /\ i + 1 \in DOMAIN q /\ r[i] = q[i + 1]
    BY <1>1
  <1>4. h = q[1] /\ 1 \in DOMAIN q
    BY <1>2
  <1> HIDE DEF r, h, m
  <1>5. Increasing(r)
    BY <1>3 DEF Increasing
  <1>6. Above(r, h.frame)
    BY <1>3, <1>4 DEF Increasing, Above
  <1>7. \A n \in Nat : Below(q, n) => Below(r, n) /\ h.frame < n
    BY <1>3, <1>4 DEF Below
  <1>8. \A n \in Nat : Above(q, n) => Above(r, n) /\ n < h.frame
    BY <1>3, <1>4 DEF Above
  <1> QED BY <1>5, <1>6, <1>7, <1>8 DEF r, h

\* Nothing is in order.
LEMMA NothingSorted == Increasing(<<>>) /\ \A n : Below(<<>>, n) /\ Above(<<>>, n)
  BY DEF Increasing, Below, Above

\* The invariant of the order.
Ordered == Sorted /\ FramesFirst /\ NothingYet /\ HeardSorted

\* What the order is about has its type.
LEMMA OrderFacts ==
  ASSUME InOrder
  PROVE  /\ 1 \in Turns /\ frames \in Seq(Items) /\ preroll \in Seq(Items) /\ queue[1] \in Seq(Items)
         /\ sent \in Nat /\ Horizon \in Nat /\ Horizon <= sent + 1
         /\ \A i \in DOMAIN frames : frames[i].frame \in Nat
         /\ InHand => item[1] \in Items /\ item[1].frame \in Nat
  <1>1. /\ 1 \in Turns /\ frames \in Seq(Items) /\ preroll \in Seq(Items) /\ queue[1] \in Seq(Items)
        /\ sent \in Nat /\ arrived \in Nat
    BY DEF InOrder, Lone, Typed, TypeOK
  <1>2. \A i \in DOMAIN frames : frames[i].frame \in Nat
    BY <1>1, SeqSteps, FrameNat
  <1>3. InHand => item[1] \in Items
    BY <1>1 DEF InOrder, Typed, Held, InHand, Busy
  <1> QED BY <1>1, <1>2, <1>3, FrameNat DEF Horizon, InOrder, NothingYet

\* Steps that touch no frame keep the order.
LEMMA OrderStays ==
  ASSUME InOrder, UNCHANGED <<frames, preroll, queue, item, heard>>, InHand' => InHand,
         Horizon' = Horizon, NothingYet'
  PROVE  Ordered'
  BY DEF InOrder, Ordered, Sorted, FramesFirst, HeardSorted

\* The order does not mind a wider horizon.
LEMMA HorizonGrows ==
  ASSUME NEW q \in Seq(Items), NEW m \in Nat, NEW n \in Nat, m <= n, Below(q, m)
  PROVE  Below(q, n)
  BY SeqSteps, FrameNat DEF Below

\* A frame that arrives is the highest.
LEMMA ArrivalOrdered ==
  ASSUME InOrder, plan' = plan, BufferPreroll \/ CountArrival \/ Enqueue
  PROVE  Ordered'
  <1>0. /\ 1 \in Turns /\ frames \in Seq(Items) /\ preroll \in Seq(Items) /\ queue[1] \in Seq(Items)
        /\ sent \in Nat /\ Horizon \in Nat
        /\ \A i \in DOMAIN frames : frames[i].frame \in Nat
        /\ InHand => item[1].frame \in Nat
        /\ Sorted /\ FramesFirst /\ NothingYet /\ HeardSorted
    BY OrderFacts DEF InOrder
  <1>1. CASE BufferPreroll
    <2> DEFINE e == [turn |-> NoTurn, frame |-> sent + 1]
               longer == Append(preroll, e)
    <2>1. e \in Items /\ e.frame = sent + 1 /\ reader = "idle" /\ Horizon = sent + 1 /\ Horizon' = sent + 2
      BY <1>0, <1>1 DEF BufferPreroll, Items, Frames, NoTurn, Horizon, InOrder, Typed, TypeOK, Sessions
    <2>2. preroll' = IF Len(longer) > PrerollLimit THEN Tail(longer) ELSE longer
      BY <1>1 DEF BufferPreroll
    <2> HIDE DEF e
    <2>3. longer \in Seq(Items) /\ longer # <<>>
      <3>1. longer \in Seq(Items)
        BY <1>0, <2>1
      <3>2. Len(longer) = Len(preroll) + 1 /\ Len(preroll) \in Nat
        BY <1>0, <2>1
      <3>3. longer # <<>>
        BY <3>2
      <3> QED BY <3>1, <3>3
    <2>4. Increasing(longer) /\ Below(longer, sent + 2)
      <3>1. Below(preroll, sent + 1) /\ Below(preroll, sent + 2)
        BY <1>0, <2>1, HorizonGrows DEF Sorted
      <3> QED BY <1>0, <2>1, <3>1, AppendOrder DEF Sorted
    <2> HIDE DEF longer
    <2>5. Increasing(preroll') /\ Below(preroll', sent + 2)
      BY <1>0, <2>2, <2>3, <2>4, TailOrder
    <2>6. UNCHANGED <<frames, queue, worker, item, heard, live, reader>>
      BY <1>1 DEF BufferPreroll, queues, workers, answers
    <2>7. Below(frames, sent + 2) /\ Below(queue[1], sent + 2)
      BY <1>0, <2>1, HorizonGrows DEF Sorted
    <2>8. InHand => item[1].frame < sent + 2
      BY <1>0, <2>1 DEF FramesFirst
    <2>9. Sorted'
      BY <1>0, <2>1, <2>5, <2>6, <2>7 DEF Sorted
    <2>10. FramesFirst'
      BY <1>0, <2>1, <2>6, <2>8 DEF FramesFirst, InHand
    <2>11. NothingYet' /\ HeardSorted'
      BY <1>0, <2>1, <2>6 DEF NothingYet, HeardSorted
    <2> QED BY <2>9, <2>10, <2>11 DEF Ordered
  <1>2. CASE CountArrival
    <2>1. UNCHANGED <<frames, preroll, queue, worker, item, heard, live>> /\ reader' = "counted"
      BY <1>2 DEF CountArrival, queues, workers, answers
    <2>2. Horizon' = Horizon /\ NothingYet'
      BY <1>0, <1>2, <2>1 DEF CountArrival, Horizon, NothingYet
    <2> QED BY <2>1, <2>2, OrderStays DEF InHand
  <1>3. CASE Enqueue
    <2>1. live = 1 /\ reader = "counted" /\ Horizon = sent /\ arrived = sent /\ arrived \in Frames
      BY <1>0, <1>3 DEF Enqueue, InOrder, Lone, Typed, Room, Turns, NothingYet, Horizon
    <2>2. UNCHANGED <<frames, preroll, worker, item, heard, live, sent, arrived>> /\ reader' = "idle"
      BY <1>3 DEF Enqueue, workers, answers
    <2>3. Horizon' = sent + 1
      BY <2>2 DEF Horizon
    <2> DEFINE e == [turn |-> current, frame |-> arrived]
    <2>4. e \in Items /\ e.frame = sent
      BY <2>1 DEF Items, InOrder, Typed, TypeOK
    <2>5. queue'[1] = queue[1] \/ queue'[1] = Append(queue[1], e)
      BY <1>0, <1>3, <2>1 DEF Enqueue, InOrder, Typed, TypeOK
    <2> HIDE DEF e
    <2>6. /\ Below(queue[1], sent) /\ Below(queue[1], sent + 1)
          /\ Below(frames, sent) /\ Below(frames, sent + 1) /\ Below(preroll, sent + 1)
      BY <1>0, <2>1, HorizonGrows DEF Sorted
    <2>7. Increasing(queue'[1]) /\ Below(queue'[1], sent + 1)
      <3>1. Increasing(queue[1])
        BY <1>0 DEF Sorted
      <3>2. CASE queue'[1] = queue[1]
        BY <2>6, <3>1, <3>2
      <3>3. CASE queue'[1] = Append(queue[1], e)
        <4>1. Increasing(Append(queue[1], e)) /\ Below(Append(queue[1], e), sent + 1)
          BY <1>0, <2>4, <2>6, <3>1, AppendOrder
        <4> QED BY <3>3, <4>1
      <3> QED BY <2>5, <3>2, <3>3
    <2>8. \A n \in Nat : Above(queue[1], n) /\ n < sent => Above(queue'[1], n)
      BY <1>0, <2>4, <2>5, AppendOrder
    <2>9. Sorted'
      BY <1>0, <2>2, <2>3, <2>6, <2>7 DEF Sorted
    <2>10. \A i \in DOMAIN frames : Above(queue'[1], frames[i].frame)
      BY <1>0, <2>6, <2>8 DEF FramesFirst, Below
    <2>11. InHand => /\ Below(frames, item[1].frame) /\ Above(queue'[1], item[1].frame)
                     /\ item[1].frame < sent + 1
      BY <1>0, <2>1, <2>8 DEF FramesFirst
    <2>12. FramesFirst'
      BY <2>2, <2>3, <2>10, <2>11 DEF FramesFirst, InHand
    <2>13. NothingYet' /\ HeardSorted'
      BY <1>0, <2>1, <2>2 DEF NothingYet, HeardSorted
    <2> QED BY <2>9, <2>12, <2>13 DEF Ordered
  <1> QED BY <1>1, <1>2, <1>3

\* A message may forget frames, and puts the preroll where there are none.
LEMMA MessageOrdered ==
  ASSUME InOrder, plan' = plan,
         \/ ListenStart \/ StartTurn \/ ListenOn \/ ResetIngress \/ NewQueue \/ AttachPreroll
         \/ Suppress \/ Clear \/ ListenStop \/ StartDrain \/ Abort
  PROVE  Ordered'
  <1>0. /\ 1 \in Turns /\ frames \in Seq(Items) /\ preroll \in Seq(Items) /\ queue[1] \in Seq(Items)
        /\ Sorted /\ FramesFirst /\ NothingYet /\ HeardSorted
    BY OrderFacts DEF InOrder
  <1>1. reader # "counted" /\ reader' # "counted" /\ UNCHANGED <<sent, arrived, queue, item, heard>>
    BY DEF ListenStart, StartTurn, ListenOn, ResetIngress, NewQueue, AttachPreroll, Suppress, Clear,
           ListenStop, StartDrain, Abort, queues, workers, reading, answers
  <1>2. Horizon' = Horizon
    BY <1>1 DEF Horizon
  <1>3. CASE \/ ListenStart \/ StartTurn \/ ListenOn \/ Suppress \/ ListenStop \/ StartDrain \/ Abort
    <2>1. UNCHANGED <<frames, preroll, worker, live>> /\ (reader' # "attach" \/ reader' = reader)
      BY <1>3 DEF ListenStart, StartTurn, ListenOn, Suppress, ListenStop, StartDrain, Abort, queues, workers,
                  reading
    <2>2. NothingYet'
      BY <1>0, <1>1, <2>1 DEF NothingYet
    <2> QED BY <1>1, <1>2, <2>1, <2>2, OrderStays DEF InHand
  <1>4. CASE ResetIngress \/ Clear
    <2>1. frames' = <<>> /\ (preroll' = preroll \/ preroll' = <<>>) /\ UNCHANGED <<worker, live>>
          /\ reader' # "attach"
      BY <1>4 DEF ResetIngress, Clear, Reset, queues, workers
    <2>2. Sorted'
      BY <1>0, <1>1, <1>2, <2>1, NothingSorted DEF Sorted
    <2>3. FramesFirst'
      BY <1>0, <1>1, <1>2, <2>1, NothingSorted DEF FramesFirst, InHand
    <2>4. NothingYet' /\ HeardSorted'
      BY <1>0, <1>1, <2>1 DEF NothingYet, HeardSorted
    <2> QED BY <2>2, <2>3, <2>4 DEF Ordered
  <1>5. CASE NewQueue
    <2>1. live = 0 /\ nextTurn = 1
      BY <1>5 DEF NewQueue, InOrder, Lone, Making, Typed, Room, Turns
    <2>2. queue[1] = <<>> /\ frames = <<>> /\ worker'[1] = "idle" /\ UNCHANGED <<frames, preroll>>
          /\ live' = 1
      BY <1>0, <1>5, <2>1 DEF NewQueue, InOrder, Lone, NothingYet, Typed, TypeOK
    <2>3. NothingYet'
      BY <1>1, <2>2 DEF NothingYet
    <2>4. ~InHand'
      BY <2>2 DEF InHand
    <2> QED BY <1>1, <1>2, <2>2, <2>3, <2>4, OrderStays
  <1>6. CASE AttachPreroll
    <2>1. frames = <<>> /\ queue[1] = <<>> /\ worker[1] = "idle"
      BY <1>0, <1>6 DEF AttachPreroll, NothingYet
    <2>2. frames' = preroll /\ preroll' = <<>>
      BY <1>0, <1>6, <2>1, ConcatEmptySeq DEF AttachPreroll
    <2>3. UNCHANGED <<worker, live>> /\ reader' = "idle" /\ live = 1
      BY <1>6 DEF AttachPreroll, queues, workers, InOrder, Lone
    <2>4. Sorted'
      BY <1>0, <1>1, <1>2, <2>2, NothingSorted DEF Sorted
    <2>5. FramesFirst'
      BY <1>1, <2>1, <2>3, NothingSorted DEF FramesFirst, InHand
    <2>6. NothingYet' /\ HeardSorted'
      BY <1>0, <1>1, <2>3 DEF NothingYet, HeardSorted
    <2> QED BY <2>4, <2>5, <2>6 DEF Ordered
  <1> QED BY <1>3, <1>4, <1>5, <1>6

\* The worker takes the lowest frame of the queue and hands it over.
LEMMA WorkerOrdered ==
  ASSUME InOrder, plan' = plan, NEW w \in Turns, WorkerStep(w)
  PROVE  Ordered'
  <1>0. /\ 1 \in Turns /\ frames \in Seq(Items) /\ preroll \in Seq(Items) /\ queue[1] \in Seq(Items)
        /\ sent \in Nat /\ Horizon \in Nat
        /\ \A i \in DOMAIN frames : frames[i].frame \in Nat
        /\ InHand => item[1] \in Items /\ item[1].frame \in Nat
        /\ Sorted /\ FramesFirst /\ NothingYet /\ HeardSorted
    BY OrderFacts DEF InOrder
  <1>1. worker[w] # "none"
    BY DEF WorkerStep, Take, WorkerEnds, Decode, Observe, AutoStop, NoAutoStop, AutoAnswer, CountProcessed
  <1>2. w = live /\ w = 1
    BY <1>0, <1>1 DEF InOrder, Lone, Turns
  <1>3. UNCHANGED <<preroll, live, reader, sent, arrived>> /\ Horizon' = Horizon
    BY DEF WorkerStep, Take, WorkerEnds, Decode, Observe, AutoStop, NoAutoStop, AutoAnswer, CountProcessed,
           queues, reading, Horizon
  <1>4. CASE Take(1)
    <2>1. queue[1] # <<>> /\ queue'[1] = Tail(queue[1]) /\ item'[1] = Head(queue[1])
          /\ UNCHANGED <<frames, heard>> /\ reader # "attach"
      BY <1>0, <1>4 DEF Take, InOrder, Typed, TypeOK, answers, NothingYet
    <2>2. /\ Increasing(queue'[1]) /\ Above(queue'[1], item'[1].frame)
          /\ Below(queue'[1], Horizon) /\ item'[1].frame < Horizon
      BY <1>0, <2>1, TailOrder DEF Sorted
    <2>3. \A i \in DOMAIN frames : Above(queue'[1], frames[i].frame) /\ frames[i].frame < item'[1].frame
      BY <1>0, <2>1, TailOrder DEF Sorted, FramesFirst
    <2>4. Below(frames, item'[1].frame)
      BY <2>3 DEF Below
    <2>5. Sorted'
      BY <1>0, <1>3, <2>1, <2>2 DEF Sorted
    <2>6. FramesFirst'
      BY <1>3, <2>1, <2>2, <2>3, <2>4 DEF FramesFirst
    <2>7. NothingYet' /\ HeardSorted'
      BY <1>0, <1>3, <2>1 DEF NothingYet, HeardSorted
    <2> QED BY <2>5, <2>6, <2>7 DEF Ordered
  <1>5. CASE Observe(1)
    <2>1. InHand /\ frames' = Append(frames, item[1]) /\ UNCHANGED <<queue, item, heard>>
          /\ worker'[1] = "observed"
      BY <1>0, <1>5 DEF Observe, InOrder, Typed, TypeOK, queues, answers, InHand
    <2>2. Increasing(frames') /\ Below(frames', Horizon)
      BY <1>0, <2>1, AppendOrder DEF Sorted, FramesFirst
    <2>3. \A i \in DOMAIN frames' : Above(queue[1], frames'[i].frame)
      BY <1>0, <2>1, AppendOrder DEF FramesFirst
    <2>4. Sorted'
      BY <1>0, <1>3, <2>1, <2>2 DEF Sorted
    <2>5. FramesFirst'
      BY <2>1, <2>3 DEF FramesFirst, InHand
    <2>6. NothingYet' /\ HeardSorted'
      <3>1. HeardSorted'
        BY <1>0, <2>1 DEF HeardSorted
      <3>2. worker[1] = "decoded"
        BY <1>5 DEF Observe
      <3>3. reader # "attach"
        BY <1>0, <1>2, <3>2 DEF NothingYet
      <3>4. NothingYet'
        <4>1. live' = 1 /\ reader' = reader /\ arrived' = arrived /\ sent' = sent
          BY <1>2, <1>3
        <4>2. reader = "counted" => arrived = sent
          BY <1>0 DEF NothingYet
        <4> QED BY <3>3, <4>1, <4>2 DEF NothingYet
      <3> QED BY <3>1, <3>4
    <2> QED BY <2>4, <2>5, <2>6 DEF Ordered
  <1>6. CASE Decode(1) \/ NoAutoStop(1) \/ CountProcessed(1) \/ WorkerEnds(1)
    <2>1. UNCHANGED <<frames, queue, item, heard>> /\ (InHand' => InHand)
      BY <1>0, <1>6 DEF Decode, NoAutoStop, CountProcessed, WorkerEnds, InHand, queues, answers, InOrder, Typed,
                        TypeOK
    <2>2. reader = "attach" => FALSE
      BY <1>0, <1>2, <1>6 DEF Decode, NoAutoStop, CountProcessed, WorkerEnds, NothingYet
    <2>3. NothingYet'
      BY <1>0, <1>3, <2>1, <2>2 DEF NothingYet
    <2> QED BY <1>3, <2>1, <2>3, OrderStays
  <1>7. CASE AutoStop(1) \/ AutoAnswer(1)
    <2>1. UNCHANGED <<frames, queue>> /\ ~InHand' /\ reader # "attach"
      BY <1>0, <1>7 DEF AutoStop, AutoAnswer, InHand, queues, InOrder, Typed, TypeOK, NothingYet
    <2>2. \A t \in Turns : heard'[t] = heard[t] \/ heard'[t] = frames
      BY <1>7 DEF AutoStop, AutoAnswer, Answer, answers, InOrder, Typed, TypeOK
    <2>3. HeardSorted'
      BY <1>0, <2>2 DEF HeardSorted, Sorted
    <2>4. NothingYet' /\ Sorted' /\ FramesFirst'
      BY <1>0, <1>3, <2>1 DEF NothingYet, Sorted, FramesFirst
    <2> QED BY <2>3, <2>4 DEF Ordered
  <1> QED BY <1>2, <1>4, <1>5, <1>6, <1>7 DEF WorkerStep

\* A drain wait that ends gives the answer the frames as they are.
LEMMA DrainOrdered ==
  ASSUME InOrder, plan' = plan, NEW t \in Turns, DrainStep(t)
  PROVE  Ordered'
  <1>1. UNCHANGED <<frames, preroll, queue, live, worker, item, reader, arrived, sent>>
    BY DEF DrainStep, Drained, DrainTimeout, DrainAnswers, queues, workers, reading
  <1>2. \A u \in Turns : heard'[u] = heard[u] \/ heard'[u] = frames
    BY DEF DrainStep, Drained, DrainTimeout, DrainAnswers, Answer, answers, InOrder, Typed, TypeOK
  <1>3. HeardSorted'
    BY <1>2 DEF InOrder, HeardSorted, Sorted
  <1>4. Horizon' = Horizon /\ InHand' = InHand
    BY <1>1 DEF Horizon, InHand
  <1>5. NothingYet' /\ Sorted' /\ FramesFirst'
    BY <1>1, <1>4 DEF InOrder, NothingYet, Sorted, FramesFirst
  <1> QED BY <1>3, <1>5 DEF Ordered

\* The order is kept.
LEMMA NextOrdered == Typed /\ Lone /\ Order /\ [Next]_vars => Order'
  <1> SUFFICES ASSUME Typed, Lone, Order, [Next]_vars, plan.listens = 1 PROVE Ordered'
    BY PlanStays DEF Order, Ordered
  <1>0. InOrder /\ plan' = plan
    BY PlanStays DEF Order, InOrder
  <1>1. CASE TurnCompletes \/ TurnLost \/ Quiet \/ UNCHANGED vars
    <2>1. UNCHANGED <<frames, preroll, queue, live, worker, item, reader, arrived, sent, heard>>
      BY <1>1 DEF TurnCompletes, TurnLost, Quiet, vars, queues, workers, reading, answers
    <2>2. Horizon' = Horizon /\ InHand' = InHand /\ NothingYet'
      BY <1>0, <2>1 DEF Horizon, InHand, InOrder, NothingYet
    <2> QED BY <1>0, <2>1, <2>2, OrderStays
  <1> QED BY <1>0, <1>1, ArrivalOrdered, MessageOrdered, WorkerOrdered, DrainOrdered DEF Next, ReaderStep

\* Within one listen the user's words keep their order, the preroll in front,
\* whatever resets come.
THEOREM InOrderHeard == Spec => []HeardInOrder
  <1>1. Init => Typed /\ Lone /\ Order
    <2>1. Init => Lone
      BY DEF Init, Lone, Making, NoTurn, Sessions, Turns
    <2>2. Init => Order
      BY <2>1, NothingSorted DEF Init, Lone, Order, Sorted, FramesFirst, NothingYet, HeardSorted, InHand
    <2> QED BY <2>1, <2>2, InitTyped
  <1>2. Order => HeardInOrder
    BY DEF Order, HeardSorted, HeardInOrder
  <1> QED BY <1>1, <1>2, NextTyped, NextLone, NextOrdered, PTL DEF Spec

-----------------------------------------------------------------------------
(* Every frame is in one place.  However many listens there are, a frame   *)
(* that arrived is in the preroll, in one queue, in one worker's hands or  *)
(* among the frames for the answer, and new ones are above the horizon.    *)

\* no frame of q is n, q and r share none, and q has none twice
Free(q, n)  == \A i \in DOMAIN q : q[i].frame # n
Apart(q, r) == \A i \in DOMAIN q, j \in DOMAIN r : q[i].frame # r[j].frame
Single(q)   == \A i, j \in DOMAIN q : i # j => q[i].frame # q[j].frame

\* the workers that hold a frame they have not handed over
Hands == {w \in Turns : worker[w] \in {"taken", "decoded"}}

EachSingle ==
  /\ Single(frames) /\ Single(preroll)
  /\ \A t \in Turns : Single(queue[t]) /\ Single(heard[t])

PlacesApart ==
  /\ Apart(preroll, frames)
  /\ \A t \in Turns : Apart(queue[t], frames) /\ Apart(queue[t], preroll)
  /\ \A t, u \in Turns : t # u => Apart(queue[t], queue[u])

HandsApart ==
  /\ \A w \in Hands : /\ Free(frames, item[w].frame) /\ Free(preroll, item[w].frame)
                      /\ \A t \in Turns : Free(queue[t], item[w].frame)
  /\ \A v, w \in Hands : v # w => item[v].frame # item[w].frame

KnownFrames ==
  /\ reader = "counted" => arrived = sent
  /\ Below(frames, Horizon) /\ Below(preroll, Horizon)
  /\ \A t \in Turns : Below(queue[t], Horizon)
  /\ \A w \in Hands : item[w].frame < Horizon

OnceInv == EachSingle /\ PlacesApart /\ HandsApart /\ KnownFrames

\* Two sequences apart are so either way.
LEMMA ApartBoth == \A q, r : Apart(q, r) => Apart(r, q)
  BY DEF Apart

\* Nothing shares no frame.
LEMMA NothingShared == Single(<<>>) /\ \A r : Apart(<<>>, r) /\ Apart(r, <<>>) /\ Free(<<>>, r)
  BY DEF Single, Apart, Free

\* What is below a number is not that number.
LEMMA BelowFree ==
  ASSUME NEW q \in Seq(Items), NEW n \in Nat, Below(q, n)
  PROVE  Free(q, n)
  BY SeqSteps, FrameNat DEF Below, Free

\* A frame joins at the end.
LEMMA AppendOnce ==
  ASSUME NEW q \in Seq(Items), NEW e \in Items
  PROVE  /\ Single(q) /\ Free(q, e.frame) => Single(Append(q, e))
         /\ \A n : Free(q, n) /\ e.frame # n => Free(Append(q, e), n)
         /\ \A r : Apart(q, r) /\ Free(r, e.frame) => Apart(Append(q, e), r)
  <1> DEFINE c == Append(q, e)
  <1>1. /\ Len(q) \in Nat /\ DOMAIN q = 1..Len(q) /\ DOMAIN c = 1..(Len(q) + 1)
        /\ \A i \in 1..Len(q) : c[i] = q[i]
        /\ c[Len(q) + 1] = e
    BY LenProperties
  <1> HIDE DEF c
  <1>2. \A i \in DOMAIN c : (i \in DOMAIN q /\ c[i] = q[i]) \/ (i = Len(q) + 1 /\ c[i] = e)
    BY <1>1
  <1>3. Single(q) /\ Free(q, e.frame) => Single(c)
    <2> SUFFICES ASSUME Single(q), Free(q, e.frame), NEW i \in DOMAIN c, NEW j \in DOMAIN c, i # j
                 PROVE  c[i].frame # c[j].frame
      BY DEF Single
    <2> QED BY <1>2 DEF Single, Free
  <1>4. \A n : Free(q, n) /\ e.frame # n => Free(c, n)
    BY <1>2 DEF Free
  <1>5. \A r : Apart(q, r) /\ Free(r, e.frame) => Apart(c, r)
    BY <1>2 DEF Apart, Free
  <1> QED BY <1>3, <1>4, <1>5 DEF c

\* A frame leaves at the front.
LEMMA TailOnce ==
  ASSUME NEW q \in Seq(Items), q # <<>>
  PROVE  /\ Single(q) => Single(Tail(q)) /\ Free(Tail(q), Head(q).frame)
         /\ \A n : Free(q, n) => Free(Tail(q), n) /\ Head(q).frame # n
         /\ \A r : Apart(q, r) => Apart(Tail(q), r) /\ Free(r, Head(q).frame)
         /\ \A n : Below(q, n) => Below(Tail(q), n) /\ Head(q).frame < n
  <1> DEFINE r == Tail(q)
             h == Head(q)
  <1>1. /\ Len(q) \in Nat \ {0} /\ DOMAIN q = 1..Len(q) /\ DOMAIN r = 1..(Len(q) - 1)
        /\ \A i \in 1..(Len(q) - 1) : r[i] = q[i + 1]
    BY EmptySeq, LenProperties, HeadTailProperties
  <1>2. h = q[1] /\ 1 \in DOMAIN q
    BY <1>1
  <1>3. \A i \in DOMAIN r : i + 1 \in DOMAIN q /\ r[i] = q[i + 1] /\ i + 1 # 1
    BY <1>1
  <1>4. \A i, j \in DOMAIN r : i # j => i + 1 # j + 1
    BY <1>1
  <1> HIDE DEF r, h
  <1>5. Single(q) => Single(r) /\ Free(r, h.frame)
    BY <1>2, <1>3, <1>4 DEF Single, Free
  <1>6. \A n : Free(q, n) => Free(r, n) /\ h.frame # n
    BY <1>2, <1>3 DEF Free
  <1>7. \A s : Apart(q, s) => Apart(r, s) /\ Free(s, h.frame)
    BY <1>2, <1>3 DEF Apart, Free
  <1>8. \A n : Below(q, n) => Below(r, n) /\ h.frame < n
    BY <1>2, <1>3 DEF Below
  <1> QED BY <1>5, <1>6, <1>7, <1>8 DEF r, h

\* Two sequences become one.
LEMMA ConcatOnce ==
  ASSUME NEW q \in Seq(Items), NEW r \in Seq(Items)
  PROVE  /\ Single(q) /\ Single(r) /\ Apart(r, q) => Single(q \o r)
         /\ \A n : Free(q, n) /\ Free(r, n) => Free(q \o r, n)
         /\ \A s : Apart(s, q) /\ Apart(s, r) => Apart(s, q \o r)
         /\ \A n : Below(q, n) /\ Below(r, n) => Below(q \o r, n)
  <1> DEFINE c == q \o r
  <1>1. /\ Len(q) \in Nat /\ Len(r) \in Nat /\ DOMAIN q = 1..Len(q) /\ DOMAIN r = 1..Len(r)
        /\ DOMAIN c = 1..(Len(q) + Len(r))
        /\ \A i \in 1..(Len(q) + Len(r)) : c[i] = IF i <= Len(q) THEN q[i] ELSE r[i - Len(q)]
    BY LenProperties, ConcatProperties
  <1> HIDE DEF c
  <1>2. \A i \in DOMAIN c : \/ i \in DOMAIN q /\ c[i] = q[i]
                            \/ i \notin DOMAIN q /\ i - Len(q) \in DOMAIN r /\ c[i] = r[i - Len(q)]
    BY <1>1
  <1>3. \A i, j \in DOMAIN c : i # j => i - Len(q) # j - Len(q)
    BY <1>1
  <1>4. Single(q) /\ Single(r) /\ Apart(r, q) => Single(c)
    <2> SUFFICES ASSUME Single(q), Single(r), Apart(r, q), NEW i \in DOMAIN c, NEW j \in DOMAIN c, i # j
                 PROVE  c[i].frame # c[j].frame
      BY DEF Single
    <2>1. CASE i \in DOMAIN q /\ c[i] = q[i]
      BY <1>2, <2>1 DEF Single, Apart
    <2>2. CASE i - Len(q) \in DOMAIN r /\ c[i] = r[i - Len(q)]
      BY <1>2, <1>3, <2>2 DEF Single, Apart
    <2> QED BY <1>2, <2>1, <2>2
  <1>5. \A n : Free(q, n) /\ Free(r, n) => Free(c, n)
    BY <1>2 DEF Free
  <1>6. \A s : Apart(s, q) /\ Apart(s, r) => Apart(s, c)
    BY <1>2 DEF Apart
  <1>7. \A n : Below(q, n) /\ Below(r, n) => Below(c, n)
    BY <1>2 DEF Below
  <1> QED BY <1>4, <1>5, <1>6, <1>7 DEF c

\* Where the frames are has its type, and a hand holds a frame.
LEMMA OnceFacts ==
  ASSUME Typed, OnceInv
  PROVE  /\ frames \in Seq(Items) /\ preroll \in Seq(Items) /\ \A t \in Turns : queue[t] \in Seq(Items)
         /\ sent \in Nat /\ Horizon \in Nat /\ Horizon <= sent + 1
         /\ \A w \in Hands : w \in Turns /\ item[w] \in Items /\ item[w].frame \in Nat
  <1>1. sent \in Nat /\ arrived \in Nat
    BY DEF Typed, TypeOK
  <1>2. \A w \in Hands : w \in Turns /\ item[w] \in Items
    BY DEF Hands, Typed, Held, Busy
  <1> QED BY <1>1, <1>2, FrameNat DEF Typed, TypeOK, OnceInv, KnownFrames, Horizon

\* Steps that move no frame, or forget some.
LEMMA OnceStays ==
  ASSUME OnceInv, frames' \in {frames, <<>>}, preroll' \in {preroll, <<>>}, queue' = queue,
         \A t \in Turns : heard'[t] \in {heard[t], frames},
         Hands' \subseteq Hands, \A w \in Hands' : item'[w] = item[w],
         Horizon' = Horizon, reader' = "counted" => arrived' = sent'
  PROVE  OnceInv'
  <1>1. EachSingle'
    BY NothingShared DEF OnceInv, EachSingle
  <1>2. PlacesApart'
    BY NothingShared DEF OnceInv, PlacesApart
  <1>3. HandsApart'
    BY NothingShared DEF OnceInv, HandsApart
  <1>4. KnownFrames'
    BY NothingSorted DEF OnceInv, KnownFrames
  <1> QED BY <1>1, <1>2, <1>3, <1>4 DEF OnceInv

\* The frame that arrives is nowhere yet.
LEMMA FrameArrives ==
  ASSUME Typed, OnceInv, BufferPreroll \/ CountArrival \/ Enqueue
  PROVE  OnceInv'
  <1>0. /\ frames \in Seq(Items) /\ preroll \in Seq(Items) /\ \A t \in Turns : queue[t] \in Seq(Items)
        /\ sent \in Nat /\ Horizon \in Nat
        /\ \A w \in Hands : w \in Turns /\ item[w] \in Items /\ item[w].frame \in Nat
        /\ EachSingle /\ PlacesApart /\ HandsApart /\ KnownFrames
    BY OnceFacts DEF OnceInv
  <1>1. /\ Free(frames, Horizon) /\ Free(preroll, Horizon) /\ \A t \in Turns : Free(queue[t], Horizon)
        /\ \A w \in Hands : item[w].frame # Horizon
    BY <1>0, BelowFree DEF KnownFrames
  <1>2. \A n \in Nat : Horizon <= n => /\ Below(frames, n) /\ Below(preroll, n)
                                       /\ \A t \in Turns : Below(queue[t], n)
                                       /\ \A w \in Hands : item[w].frame < n
    BY <1>0, HorizonGrows DEF KnownFrames
  <1>3. CASE BufferPreroll
    <2> DEFINE e == [turn |-> NoTurn, frame |-> sent + 1]
               longer == Append(preroll, e)
    <2>1. e \in Items /\ e.frame = sent + 1 /\ reader = "idle" /\ Horizon = sent + 1 /\ Horizon' = sent + 2
      BY <1>0, <1>3 DEF BufferPreroll, Items, Frames, NoTurn, Horizon, Typed, TypeOK, Sessions
    <2>2. preroll' = IF Len(longer) > PrerollLimit THEN Tail(longer) ELSE longer
      BY <1>3 DEF BufferPreroll
    <2>3. UNCHANGED <<frames, queue, worker, item, heard, reader>> /\ Hands' = Hands
      BY <1>3 DEF BufferPreroll, queues, workers, answers, Hands
    <2> HIDE DEF e
    <2>4. longer \in Seq(Items) /\ longer # <<>>
      <3>1. longer \in Seq(Items)
        BY <1>0, <2>1
      <3>2. Len(longer) = Len(preroll) + 1 /\ Len(preroll) \in Nat
        BY <1>0, <2>1
      <3> QED BY <3>1, <3>2
    <2>5. Free(preroll, e.frame) /\ Free(frames, e.frame) /\ \A t \in Turns : Free(queue[t], e.frame)
      BY <1>1, <2>1
    <2>6. Single(longer) /\ Below(longer, sent + 2)
      <3>1. Below(preroll, sent + 2)
        BY <1>0, <1>2, <2>1
      <3> QED BY <1>0, <2>1, <2>5, <3>1, AppendOnce, AppendOrder DEF EachSingle
    <2>7. Apart(longer, frames) /\ \A t \in Turns : Apart(longer, queue[t])
      BY <1>0, <2>1, <2>5, AppendOnce, ApartBoth DEF PlacesApart
    <2>8. \A w \in Hands : Free(longer, item[w].frame)
      BY <1>0, <1>1, <2>1, AppendOnce DEF HandsApart
    <2> HIDE DEF longer
    <2>9. /\ Single(preroll') /\ Below(preroll', sent + 2) /\ Apart(preroll', frames)
          /\ \A t \in Turns : Apart(preroll', queue[t])
          /\ \A w \in Hands : Free(preroll', item[w].frame)
      BY <2>2, <2>4, <2>6, <2>7, <2>8, TailOnce
    <2>10. EachSingle' /\ PlacesApart'
      BY <1>0, <2>3, <2>9, ApartBoth DEF EachSingle, PlacesApart
    <2>11. HandsApart'
      BY <1>0, <2>3, <2>9 DEF HandsApart
    <2>12. KnownFrames'
      BY <1>0, <1>2, <2>1, <2>3, <2>9 DEF KnownFrames
    <2> QED BY <2>10, <2>11, <2>12 DEF OnceInv
  <1>4. CASE CountArrival
    <2>1. UNCHANGED <<frames, preroll, queue, worker, item, heard>> /\ Hands' = Hands
      BY <1>4 DEF CountArrival, queues, workers, answers, Hands
    <2>2. Horizon' = Horizon /\ arrived' = sent'
      BY <1>4 DEF CountArrival, Horizon
    <2> QED BY <2>1, <2>2, OnceStays
  <1>5. CASE Enqueue
    <2>1. live \in Turns /\ Horizon = sent /\ arrived = sent /\ arrived \in Frames
      BY <1>0, <1>5 DEF Enqueue, Typed, Room, KnownFrames, Horizon
    <2>2. UNCHANGED <<frames, preroll, worker, item, heard, sent>> /\ reader' = "idle" /\ Hands' = Hands
      BY <1>5 DEF Enqueue, workers, answers, Hands
    <2>3. Horizon' = sent + 1
      BY <2>2 DEF Horizon
    <2> DEFINE e == [turn |-> current, frame |-> arrived]
    <2>4. e \in Items /\ e.frame = sent
      BY <2>1 DEF Items, Typed, TypeOK
    <2>5. \/ queue' = queue
          \/ /\ \A t \in Turns : t # live => queue'[t] = queue[t]
             /\ queue'[live] = Append(queue[live], e)
      BY <1>5, <2>1 DEF Enqueue, Typed, TypeOK
    <2> HIDE DEF e
    <2>6. CASE queue' = queue
      <3>1. KnownFrames'
        BY <1>0, <1>2, <2>1, <2>2, <2>3, <2>6 DEF KnownFrames
      <3> QED BY <1>0, <2>2, <2>6, <3>1 DEF OnceInv, EachSingle, PlacesApart, HandsApart
    <2>7. CASE /\ \A t \in Turns : t # live => queue'[t] = queue[t]
               /\ queue'[live] = Append(queue[live], e)
      <3> DEFINE q == queue'[live]
      <3>1. /\ Single(q) /\ Apart(q, frames) /\ Apart(q, preroll)
            /\ \A t \in Turns : t # live => Apart(q, queue[t])
            /\ \A w \in Hands : Free(q, item[w].frame)
        <4>0. queue[live] \in Seq(Items) /\ Free(queue[live], e.frame) /\ Single(queue[live])
          BY <1>0, <1>1, <2>1, <2>4 DEF EachSingle
        <4>1. Single(q)
          BY <2>4, <2>7, <4>0, AppendOnce
        <4>2. Apart(q, frames) /\ Apart(q, preroll)
          BY <1>0, <1>1, <2>1, <2>4, <2>7, <4>0, AppendOnce DEF PlacesApart
        <4>3. ASSUME NEW t \in Turns, t # live PROVE Apart(q, queue[t])
          <5>1. Apart(queue[live], queue[t]) /\ Free(queue[t], e.frame)
            BY <1>0, <1>1, <2>1, <2>4, <4>3 DEF PlacesApart
          <5> QED BY <2>4, <2>7, <4>0, <5>1, AppendOnce
        <4>4. ASSUME NEW w \in Hands PROVE Free(q, item[w].frame)
          <5>1. Free(queue[live], item[w].frame) /\ e.frame # item[w].frame
            BY <1>0, <1>1, <2>1, <2>4 DEF HandsApart
          <5> QED BY <2>4, <2>7, <4>0, <5>1, AppendOnce
        <4> QED BY <4>1, <4>2, <4>3, <4>4
      <3>2. Below(q, sent + 1)
        <4>1. Below(queue[live], sent + 1) /\ queue[live] \in Seq(Items)
          BY <1>0, <1>2, <2>1
        <4> QED BY <1>0, <2>4, <2>7, <4>1, AppendOrder
      <3> HIDE DEF q
      <3>3. \A t \in Turns : queue'[t] = queue[t] \/ (t = live /\ queue'[t] = q)
        BY <2>7 DEF q
      <3>4. EachSingle'
        BY <1>0, <2>2, <3>1, <3>3 DEF EachSingle
      <3>5. PlacesApart'
        <4>1. \A t \in Turns : Apart(queue'[t], frames) /\ Apart(queue'[t], preroll)
          BY <1>0, <3>1, <3>3 DEF PlacesApart
        <4>2. ASSUME NEW t \in Turns, NEW u \in Turns, t # u PROVE Apart(queue'[t], queue'[u])
          <5>1. CASE t = live
            <6>1. queue'[u] = queue[u]
              BY <2>7, <4>2, <5>1
            <6> QED BY <1>0, <3>1, <3>3, <4>2, <5>1, <6>1 DEF PlacesApart
          <5>2. CASE u = live
            <6>1. queue'[t] = queue[t]
              BY <2>7, <4>2, <5>2
            <6> QED BY <1>0, <3>1, <3>3, <4>2, <5>2, <6>1, ApartBoth DEF PlacesApart
          <5>3. CASE t # live /\ u # live
            BY <1>0, <2>7, <4>2, <5>3 DEF PlacesApart
          <5> QED BY <5>1, <5>2, <5>3
        <4> QED BY <1>0, <2>2, <4>1, <4>2 DEF PlacesApart
      <3>6. HandsApart'
        BY <1>0, <2>2, <3>1, <3>3 DEF HandsApart
      <3>7. KnownFrames'
        BY <1>0, <1>2, <2>1, <2>2, <2>3, <3>2, <3>3 DEF KnownFrames
      <3> QED BY <3>4, <3>5, <3>6, <3>7 DEF OnceInv
    <2> QED BY <2>5, <2>6, <2>7
  <1> QED BY <1>3, <1>4, <1>5

\* A message moves the preroll to the frames, or forgets one of them.
LEMMA MessageOnce ==
  ASSUME Typed, OnceInv,
         \/ ListenStart \/ StartTurn \/ ListenOn \/ ResetIngress \/ NewQueue \/ AttachPreroll
         \/ Suppress \/ Clear \/ ListenStop \/ StartDrain \/ Abort
  PROVE  OnceInv'
  <1>1. reader # "counted" /\ reader' # "counted" /\ UNCHANGED <<sent, arrived, queue, item, heard>>
    BY DEF ListenStart, StartTurn, ListenOn, ResetIngress, NewQueue, AttachPreroll, Suppress, Clear,
           ListenStop, StartDrain, Abort, queues, workers, reading, answers
  <1>2. Horizon' = Horizon
    BY <1>1 DEF Horizon
  <1>3. Hands' \subseteq Hands
    <2>1. CASE NewQueue
      BY <2>1 DEF NewQueue, Hands, Typed, TypeOK
    <2>2. CASE ~NewQueue
      BY <2>2 DEF ListenStart, StartTurn, ListenOn, ResetIngress, AttachPreroll, Suppress, Clear,
                  ListenStop, StartDrain, Abort, workers, Hands
    <2> QED BY <2>1, <2>2
  <1>4. CASE ~AttachPreroll
    <2>1. frames' \in {frames, <<>>} /\ preroll' \in {preroll, <<>>}
      BY <1>4 DEF ListenStart, StartTurn, ListenOn, ResetIngress, NewQueue, Suppress, Clear, Reset,
                  ListenStop, StartDrain, Abort
    <2> QED BY <1>1, <1>2, <1>3, <2>1, OnceStays
  <1>5. CASE AttachPreroll
    <2>0. /\ frames \in Seq(Items) /\ preroll \in Seq(Items)
          /\ EachSingle /\ PlacesApart /\ HandsApart /\ KnownFrames
      BY OnceFacts DEF OnceInv
    <2>1. frames' = frames \o preroll /\ preroll' = <<>>
      BY <1>5 DEF AttachPreroll
    <2>2. /\ Single(frames') /\ Below(frames', Horizon)
          /\ \A t \in Turns : Apart(queue[t], frames')
          /\ \A w \in Hands : Free(frames', item[w].frame)
      BY <2>0, <2>1, ConcatOnce DEF EachSingle, PlacesApart, HandsApart, KnownFrames
    <2>3. EachSingle' /\ PlacesApart'
      BY <1>1, <2>0, <2>1, <2>2, NothingShared DEF EachSingle, PlacesApart
    <2>4. HandsApart' /\ KnownFrames'
      BY <1>1, <1>2, <1>3, <2>0, <2>1, <2>2, NothingShared, NothingSorted DEF HandsApart, KnownFrames
    <2> QED BY <2>3, <2>4 DEF OnceInv
  <1> QED BY <1>4, <1>5

\* A worker takes its frame out of its queue and puts it among the frames.
LEMMA WorkerOnce ==
  ASSUME Typed, OnceInv, NEW w \in Turns, WorkerStep(w)
  PROVE  OnceInv'
  <1>0. /\ frames \in Seq(Items) /\ \A t \in Turns : queue[t] \in Seq(Items)
        /\ \A v \in Hands : v \in Turns /\ item[v] \in Items
        /\ EachSingle /\ PlacesApart /\ HandsApart /\ KnownFrames
    BY OnceFacts DEF OnceInv
  <1>1. UNCHANGED <<preroll, reader, sent, arrived>> /\ Horizon' = Horizon
    BY DEF WorkerStep, Take, WorkerEnds, Decode, Observe, AutoStop, NoAutoStop, AutoAnswer, CountProcessed,
           queues, reading, Horizon
  <1>2. CASE Take(w)
    <2>1. /\ queue[w] # <<>> /\ queue[w] \in Seq(Items) /\ w \notin Hands
          /\ queue' = [queue EXCEPT ![w] = Tail(queue[w])]
          /\ item' = [item EXCEPT ![w] = Head(queue[w])] /\ worker' = [worker EXCEPT ![w] = "taken"]
          /\ UNCHANGED <<frames, heard>>
      BY <1>0, <1>2 DEF Take, Hands, answers
    <2>2. /\ queue'[w] = Tail(queue[w]) /\ item'[w] = Head(queue[w])
          /\ \A t \in Turns : t # w => queue'[t] = queue[t] /\ item'[t] = item[t]
      BY <2>1 DEF Typed, TypeOK
    <2>3. Hands' = Hands \cup {w}
      BY <2>1 DEF Typed, TypeOK, Hands
    <2> DEFINE n == item'[w].frame
    <2>4. /\ Single(queue'[w]) /\ Free(queue'[w], n)
          /\ \A m : Free(queue[w], m) => Free(queue'[w], m) /\ n # m
          /\ \A r : Apart(queue[w], r) => Apart(queue'[w], r) /\ Free(r, n)
          /\ Below(queue'[w], Horizon) /\ n < Horizon
      BY <1>0, <2>1, <2>2, TailOnce DEF EachSingle, KnownFrames
    <2> HIDE DEF n
    <2>5. EachSingle'
      BY <1>0, <1>1, <2>1, <2>2, <2>4 DEF EachSingle
    <2>6. PlacesApart'
      <3>1. \A t \in Turns : Apart(queue'[t], frames) /\ Apart(queue'[t], preroll)
        BY <1>0, <2>2, <2>4 DEF PlacesApart
      <3>2. ASSUME NEW t \in Turns, NEW u \in Turns, t # u PROVE Apart(queue'[t], queue'[u])
        <4>1. Apart(queue[t], queue[u]) /\ Apart(queue[u], queue[t])
          BY <1>0, <3>2 DEF PlacesApart
        <4>2. CASE t = w
          BY <2>2, <2>4, <3>2, <4>1, <4>2
        <4>3. CASE u = w
          BY <2>2, <2>4, <3>2, <4>1, <4>3, ApartBoth
        <4>4. CASE t # w /\ u # w
          BY <2>2, <4>1, <4>4
        <4> QED BY <4>2, <4>3, <4>4
      <3> QED BY <1>0, <1>1, <2>1, <3>1, <3>2 DEF PlacesApart
    <2>7. HandsApart'
      <3>1. /\ Free(frames, n) /\ Free(preroll, n)
            /\ \A t \in Turns : Free(queue'[t], n)
        <4>1. \A t \in Turns : t # w => Free(queue[t], n)
          BY <1>0, <2>4 DEF PlacesApart
        <4> QED BY <1>0, <2>2, <2>4, <4>1 DEF PlacesApart
      <3>2. ASSUME NEW v \in Hands
            PROVE  /\ v # w /\ item'[v] = item[v] /\ n # item[v].frame
                   /\ Free(frames, item[v].frame) /\ Free(preroll, item[v].frame)
                   /\ \A t \in Turns : Free(queue'[t], item[v].frame)
        BY <1>0, <2>1, <2>2, <2>4 DEF HandsApart
      <3>3. \A v, u \in Hands : v # u => item[v].frame # item[u].frame
        BY <1>0 DEF HandsApart
      <3> QED BY <1>1, <2>1, <2>3, <3>1, <3>2, <3>3 DEF HandsApart, n
    <2>8. KnownFrames'
      <3>1. \A v \in Hands : v # w /\ item'[v] = item[v]
        BY <1>0, <2>1, <2>2
      <3> QED BY <1>0, <1>1, <2>1, <2>2, <2>3, <2>4, <3>1 DEF KnownFrames, n
    <2> QED BY <2>5, <2>6, <2>7, <2>8 DEF OnceInv
  <1>3. CASE Observe(w)
    <2>1. /\ w \in Hands /\ frames' = Append(frames, item[w])
          /\ UNCHANGED <<queue, item, heard>> /\ Hands' = Hands \ {w}
      BY <1>3 DEF Observe, Typed, TypeOK, Hands, queues, answers
    <2> DEFINE n == item[w].frame
    <2>2. /\ item[w] \in Items /\ Free(frames, n) /\ Free(preroll, n) /\ n < Horizon
          /\ \A t \in Turns : Free(queue[t], n)
          /\ \A v \in Hands' : v \in Hands /\ n # item[v].frame
      BY <1>0, <2>1 DEF HandsApart, KnownFrames
    <2> HIDE DEF n
    <2>3. /\ Single(frames') /\ \A r : Apart(frames, r) /\ Free(r, n) => Apart(frames', r)
          /\ \A m : Free(frames, m) /\ n # m => Free(frames', m)
      BY <1>0, <2>1, <2>2, AppendOnce DEF EachSingle, n
    <2>4. Below(frames', Horizon)
      <3>1. Horizon \in Nat /\ Below(frames, Horizon)
        BY <1>0, OnceFacts DEF KnownFrames
      <3> QED BY <1>0, <2>1, <2>2, <3>1, AppendOrder DEF n
    <2>5. EachSingle'
      BY <1>0, <1>1, <2>1, <2>3 DEF EachSingle
    <2>6. PlacesApart'
      <3>1. Apart(preroll, frames') /\ \A t \in Turns : Apart(queue[t], frames')
        BY <1>0, <2>2, <2>3, ApartBoth DEF PlacesApart
      <3> QED BY <1>0, <1>1, <2>1, <3>1 DEF PlacesApart
    <2>7. HandsApart'
      <3>1. \A v \in Hands' : Free(frames', item[v].frame)
        BY <1>0, <2>2, <2>3 DEF HandsApart
      <3> QED BY <1>0, <1>1, <2>1, <2>2, <3>1 DEF HandsApart
    <2>8. KnownFrames'
      BY <1>0, <1>1, <2>1, <2>2, <2>4 DEF KnownFrames
    <2> QED BY <2>5, <2>6, <2>7, <2>8 DEF OnceInv
  <1>4. CASE WorkerEnds(w) \/ Decode(w) \/ NoAutoStop(w) \/ CountProcessed(w) \/ AutoStop(w) \/ AutoAnswer(w)
    <2>1. UNCHANGED <<frames, queue>>
      BY <1>4 DEF WorkerEnds, Decode, NoAutoStop, CountProcessed, AutoStop, AutoAnswer, queues
    <2>2. Hands' \subseteq Hands /\ \A v \in Hands' : item'[v] = item[v]
      BY <1>4 DEF WorkerEnds, Decode, NoAutoStop, CountProcessed, AutoStop, AutoAnswer, Hands, Typed, TypeOK
    <2>3. \A t \in Turns : heard'[t] \in {heard[t], frames}
      BY <1>4 DEF WorkerEnds, Decode, NoAutoStop, CountProcessed, AutoStop, AutoAnswer, Answer, answers,
                  Typed, TypeOK
    <2>4. reader = "counted" => arrived = sent
      BY <1>0 DEF KnownFrames
    <2> QED BY <1>1, <2>1, <2>2, <2>3, <2>4, OnceStays
  <1> QED BY <1>2, <1>3, <1>4 DEF WorkerStep

\* Every frame stays in one place.
LEMMA NextOnce == Typed /\ OnceInv /\ [Next]_vars => OnceInv'
  <1> SUFFICES ASSUME Typed, OnceInv, [Next]_vars PROVE OnceInv'
    OBVIOUS
  <1>1. ASSUME NEW t \in Turns, DrainStep(t) \/ TurnCompletes \/ TurnLost \/ Quiet \/ UNCHANGED vars
        PROVE  OnceInv'
    <2>1. UNCHANGED <<frames, preroll, queue, worker, item, reader, arrived, sent>>
      BY <1>1 DEF DrainStep, Drained, DrainTimeout, DrainAnswers, TurnCompletes, TurnLost, Quiet, vars, queues,
                  workers, reading
    <2>2. \A u \in Turns : heard'[u] \in {heard[u], frames}
      BY <1>1 DEF DrainStep, Drained, DrainTimeout, DrainAnswers, TurnCompletes, TurnLost, Quiet, vars, Answer,
                  answers, Typed, TypeOK
    <2>3. Horizon' = Horizon /\ Hands' = Hands
      BY <2>1 DEF Horizon, Hands
    <2> QED BY <2>1, <2>2, <2>3, OnceStays DEF OnceInv, KnownFrames
  <1>2. 1 \in Turns
    BY DEF Turns
  <1> QED BY <1>1, <1>2, FrameArrives, MessageOnce, WorkerOnce DEF Next, ReaderStep

\* No frame is given twice to an answer, for any number of listens and however
\* they overlap: an old worker that still hands over its frame adds one that the
\* new listen does not have.
THEOREM FramesHeardOnce == Spec => []HeardOnce
  <1>1. Init => OnceInv
    BY NothingShared, NothingSorted DEF Init, OnceInv, EachSingle, PlacesApart, HandsApart, KnownFrames, Hands
  <1>2. OnceInv => HeardOnce
    BY DEF OnceInv, EachSingle, Single, HeardOnce
  <1> QED BY <1>1, <1>2, InitTyped, NextTyped, NextOnce, PTL DEF Spec
=============================================================================
