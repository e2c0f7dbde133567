------------------------- MODULE StageReceiveProofs -------------------------
(***************************************************************************)
(* For any lanes, any number of messages and any kinds: the messages of a  *)
(* lane take effect in order, and an aborted request leaves nothing in the *)
(* stage.  The heart of it is that a task whose predecessor is done has no *)
(* unfinished task before it (ReadyIsFirst), although the chain of futures *)
(* only ever names one predecessor.                                        *)
(***************************************************************************)
EXTENDS StageReceive, TLAPS

\* Messages that have not arrived have no task.
Known(l) ==
    \A i \in Items :
        /\ i > arrived[l] => phase[l][i] = "unsent" /\ i \notin handed[l]
        /\ i <= arrived[l] => phase[l][i] # "unsent"

\* Until the stage stops, a future is complete exactly when its task is over,
\* and a task that is over had its effect, unless it raised or its request
\* was aborted.
Outcome(l) ==
    running = "running" =>
        \A i \in Items :
            /\ completion[l][i] # "cancelled"
            /\ phase[l][i] \notin {"ended", "raised"} => completion[l][i] = "open"
            /\ phase[l][i] \in {"draining", "closing", "failing"} =>
                   RequestOf[l] \in aborted
            /\ phase[l][i] = "ended" =>
                   i \in handed[l] \/ RequestOf[l] \in aborted

\* Until the stage stops, only the predecessor of a task, or tasks before it
\* as long as that one is unfinished, may be unfinished before the task.
Chain(l) ==
    running = "running" =>
        \A i \in Items, j \in Items :
            Live(l, i) /\ Live(l, j) /\ j < i =>
                /\ behind[l][i] >= j
                /\ behind[l][i] < i
                /\ Live(l, behind[l][i])

\* The task is the first unfinished one of its lane.
First(l, i) == \A j \in Items : j < i => ~Live(l, j)

\* A task that fails its request had its turn.
Failing(l) ==
    running = "running" =>
        \A i \in Items : phase[l][i] = "failing" => First(l, i)

Tails(l) ==
    running = "running" =>
        IF tail[l] = 0
        THEN \A i \in Items : ~Live(l, i)
        ELSE Live(l, tail[l]) /\ \A i \in Items : i > tail[l] => ~Live(l, i)

InOrder(l) ==
    \A i \in handed[l] : \A j \in Items :
        j < i => j \in handed[l] \/ phase[l][j] = "raised"

Answered(l) ==
    running = "running" =>
        \A i \in Items :
            /\ kind[l][i] \in Relayed
            /\ phase[l][i] \in {"turn", "broken", "failing", "closing", "ended"}
            => answer[l][i] # "none"

\* Once the stage stops, its tasks only end.
Quiet(l) ==
    running # "running" =>
        \A i \in Items : phase[l][i] \in {"unsent", "closing", "ended", "raised"}

Lane(l) ==
    /\ Known(l) /\ Outcome(l) /\ Chain(l) /\ Tails(l)
    /\ InOrder(l) /\ Answered(l) /\ Quiet(l) /\ Failing(l)

IInv == TypeOK /\ \A l \in Lanes : Lane(l)

-----------------------------------------------------------------------------
\* The stage starts with no message and no task (Stage.__init__).
LEMMA StageInitially == Init => IInv
  BY StageAssumption
  DEF Init, IInv, TypeOK, Lane, Known, Outcome, Chain, Tails, InOrder, Answered,
      Quiet, Failing, First, Live, Items, Phases

\* The types of the variables of the lanes, and of the requests.
LaneTypes ==
    /\ arrived \in [Lanes -> 0..Limit]
    /\ kind \in [Lanes -> [Items -> AllKinds \union {"none"}]]
    /\ phase \in [Lanes -> [Items -> Phases]]
    /\ completion \in [Lanes -> [Items -> {"open", "set", "cancelled"}]]
    /\ behind \in [Lanes -> [Items -> 0..Limit]]
    /\ tail \in [Lanes -> 0..Limit]
    /\ answer \in [Lanes -> [Items -> {"none", "acked", "nacked"}]]
    /\ handed \in [Lanes -> SUBSET Items]

RequestTypes ==
    /\ active \subseteq Requests
    /\ streams \subseteq Requests
    /\ inputs \subseteq Lanes
    /\ aborted \subseteq Requests
    /\ jobs \subseteq Requests
    /\ routing \subseteq Requests

\* The type invariant, variable group by variable group.
LEMMA TypesSplit ==
  /\ TypeOK <=> LaneTypes /\ RequestTypes /\ running \in {"running", "stopping", "stopped"}
  /\ TypeOK' <=> LaneTypes' /\ RequestTypes' /\ running' \in {"running", "stopping", "stopped"}
  BY DEF TypeOK, LaneTypes, RequestTypes

\* What the step of a task changes.
LEMMA TaskFrame ==
  ASSUME NEW l \in Lanes, NEW i \in Items, TaskStep(l, i) \/ AckRaises(l, i)
  PROVE  /\ \E p \in Phases :
                /\ Become(l, i, p)
                /\ \/ Finish(l, i, p)
                   \/ UNCHANGED <<arrived, kind, completion, behind, tail>>
         /\ \/ UNCHANGED answer
            \/ \E a \in {"acked", "nacked"} : answer' = [answer EXCEPT ![l][i] = a]
         /\ UNCHANGED handed \/ handed' = [handed EXCEPT ![l] = @ \union {i}]
         /\ running' = running /\ aborted \subseteq aborted'
  <1> USE DEF TaskStep, Begin, ReadEnds, DrainEnds, PayloadTurn, ChunkTurn,
             SignalTurn, BrokenTurn, FailureSent, Close, AckRaises, Skip, Hand,
             StartFailure, FailStream
  <1>1. \E p \in Phases :
           /\ Become(l, i, p)
           /\ \/ Finish(l, i, p)
              \/ UNCHANGED <<arrived, kind, completion, behind, tail>>
    BY DEF Finish, Phases
  <1>2. /\ \/ UNCHANGED answer
           \/ \E a \in {"acked", "nacked"} : answer' = [answer EXCEPT ![l][i] = a]
        /\ UNCHANGED handed \/ handed' = [handed EXCEPT ![l] = @ \union {i}]
    OBVIOUS
  <1>3. running' = running /\ aborted \subseteq aborted'
    BY DEF requests
  <1> QED BY <1>1, <1>2, <1>3

\* Every step keeps the types of the lanes' variables.
LEMMA StageLaneTypes == ASSUME LaneTypes, [Next]_vars PROVE LaneTypes'
  <1> USE StageAssumption DEF LaneTypes, Items
  <1>1. CASE UNCHANGED lanes  BY <1>1 DEF lanes
  <1>2. CASE \E l \in Lanes : MessageArrives(l) \/ ChunkOfBatchArrives(l)
    <2>1. PICK l \in Lanes : MessageArrives(l) \/ ChunkOfBatchArrives(l)
      BY <1>2
    <2>2. arrived[l] + 1 \in Items
      BY <2>1 DEF MessageArrives, ChunkOfBatchArrives
    <2>3. ASSUME NEW k \in AllKinds, ScheduleTask(l, k)  PROVE LaneTypes'
      BY <2>2, <2>3, SMTT(30) DEF ScheduleTask, Phases
    <2>4. ASSUME NEW S, NoTask(l, S)  PROVE LaneTypes'
      <3>1. /\ arrived' \in [Lanes -> 0..Limit]
            /\ kind' \in [Lanes -> [Items -> AllKinds \union {"none"}]]
            /\ UNCHANGED <<behind, tail, answer>>
        BY <2>2, <2>4 DEF NoTask, AllKinds
      <3>2. phase' \in [Lanes -> [Items -> Phases]]
        BY <2>2, <2>4 DEF NoTask, Phases
      <3>3. completion' \in [Lanes -> [Items -> {"open", "set", "cancelled"}]]
        BY <2>2, <2>4 DEF NoTask
      <3>4. handed' \in [Lanes -> SUBSET Items]
        BY <2>2, <2>4 DEF NoTask
      <3> QED BY <3>1, <3>2, <3>3, <3>4
    <2>5. CASE MessageArrives(l)
      BY <2>3, <2>5 DEF MessageArrives
    <2>6. CASE ChunkOfBatchArrives(l)
      BY <2>3, <2>4, <2>6 DEF ChunkOfBatchArrives, AllKinds
    <2> QED BY <2>1, <2>5, <2>6
  <1>3. CASE \E l \in Lanes, i \in Items : TaskStep(l, i) \/ AckRaises(l, i)
    <2>1. PICK l \in Lanes, i \in Items : TaskStep(l, i) \/ AckRaises(l, i)
      BY <1>3
    <2>4. PICK p \in Phases :
             /\ Become(l, i, p)
             /\ \/ Finish(l, i, p)
                \/ UNCHANGED <<arrived, kind, completion, behind, tail>>
      BY <2>1, TaskFrame
    <2>3. /\ \/ UNCHANGED answer
             \/ \E a \in {"acked", "nacked"} : answer' = [answer EXCEPT ![l][i] = a]
          /\ UNCHANGED handed \/ handed' = [handed EXCEPT ![l] = @ \union {i}]
      BY <2>1, TaskFrame
    <2>5. /\ arrived' \in [Lanes -> 0..Limit]
          /\ kind' \in [Lanes -> [Items -> AllKinds \union {"none"}]]
          /\ phase' \in [Lanes -> [Items -> Phases]]
      BY <2>4 DEF Become, Finish
    <2>6. completion' \in [Lanes -> [Items -> {"open", "set", "cancelled"}]]
      <3>1. CASE UNCHANGED completion  BY <3>1
      <3>2. CASE completion' = [completion EXCEPT ![l][i] =
                                   IF @ = "open" THEN "set" ELSE @]
        BY <3>2
      <3> QED BY <2>4, <3>1, <3>2 DEF Finish
    <2>7. behind' \in [Lanes -> [Items -> 0..Limit]]
      BY <2>4 DEF Finish
    <2>8. tail' \in [Lanes -> 0..Limit]
      <3>1. CASE UNCHANGED tail  BY <3>1
      <3>2. CASE tail' = [tail EXCEPT ![l] = IF @ = i THEN 0 ELSE @]
        BY <3>2
      <3> QED BY <2>4, <3>1, <3>2 DEF Finish
    <2>9. answer' \in [Lanes -> [Items -> {"none", "acked", "nacked"}]]
      <3>1. CASE UNCHANGED answer  BY <3>1
      <3>2. ASSUME NEW a \in {"acked", "nacked"}, answer' = [answer EXCEPT ![l][i] = a]
            PROVE  answer' \in [Lanes -> [Items -> {"none", "acked", "nacked"}]]
        BY <3>2
      <3> QED BY <2>3, <3>1, <3>2
    <2>10. handed' \in [Lanes -> SUBSET Items]
      <3>1. CASE UNCHANGED handed  BY <3>1
      <3>2. CASE handed' = [handed EXCEPT ![l] = @ \union {i}]  BY <3>2
      <3> QED BY <2>3, <3>1, <3>2
    <2> QED BY <2>5, <2>6, <2>7, <2>8, <2>9, <2>10
  <1>4. CASE Stop      BY <1>4 DEF Stop, Cancelled, Phases
  <1>5. CASE StopEnds  BY <1>5 DEF StopEnds
  <1>6. CASE \E r \in Requests :
                Submit(r) \/ OnAbort(r) \/ ResultEmitted(r) \/ ResultRouted(r)
    BY <1>1, <1>6 DEF Submit, OnAbort, ResultEmitted, ResultRouted
  <1> QED BY <1>1, <1>2, <1>3, <1>4, <1>5, <1>6 DEF Next, vars

\* Every step keeps the types of the requests' variables.
LEMMA StageRequestTypes == ASSUME RequestTypes, [Next]_vars PROVE RequestTypes'
  <1> USE StageAssumption DEF RequestTypes, requests, Clear
  <1>1. CASE \E r \in Requests :
                Submit(r) \/ OnAbort(r) \/ ResultEmitted(r) \/ ResultRouted(r)
    BY <1>1 DEF Submit, OnAbort, ResultEmitted, ResultRouted
  <1>2. CASE \E l \in Lanes : MessageArrives(l) \/ ChunkOfBatchArrives(l)
    BY <1>2 DEF MessageArrives, ChunkOfBatchArrives
  <1>3. CASE \E l \in Lanes, i \in Items : TaskStep(l, i) \/ AckRaises(l, i)
    <2>1. PICK l \in Lanes, i \in Items : TaskStep(l, i) \/ AckRaises(l, i)
      BY <1>3
    <2>2. CASE Begin(l, i)        BY <2>2 DEF Begin
    <2>3. CASE PayloadTurn(l, i)
      BY <2>3 DEF PayloadTurn, Skip, Hand, ReceivePayload
    <2>4. CASE ChunkTurn(l, i) \/ SignalTurn(l, i) \/ BrokenTurn(l, i)
      BY <2>4 DEF ChunkTurn, SignalTurn, BrokenTurn, Skip, Hand, StartFailure,
                  FailStream, RouteStream
    <2>5. CASE FailureSent(l, i)  BY <2>5 DEF FailureSent
    <2>6. CASE ReadEnds(l, i) \/ DrainEnds(l, i) \/ Close(l, i) \/ AckRaises(l, i)
      BY <2>6 DEF ReadEnds, DrainEnds, Close, AckRaises
    <2> QED BY <2>1, <2>2, <2>3, <2>4, <2>5, <2>6 DEF TaskStep
  <1>4. CASE Stop      BY <1>4 DEF Stop
  <1>5. CASE StopEnds  BY <1>5 DEF StopEnds
  <1>6. CASE UNCHANGED vars  BY <1>6 DEF vars
  <1> QED BY <1>1, <1>2, <1>3, <1>4, <1>5, <1>6 DEF Next

\* The chain of futures: a task whose predecessor is done is the first
\* unfinished one of its lane (wait_for_receive_predecessor).
LEMMA ReadyIsFirst ==
  ASSUME TypeOK, NEW l \in Lanes, NEW i \in Items, running = "running",
         Outcome(l), Chain(l), Live(l, i), Ready(l, i)
  PROVE  First(l, i)
  <1> SUFFICES ASSUME NEW j \in Items, j < i, Live(l, j)  PROVE FALSE
    BY DEF First
  <1>1. /\ behind[l][i] >= j
        /\ behind[l][i] < i
        /\ Live(l, behind[l][i])
    BY DEF Chain
  <1>2. behind[l][i] \in Items
    BY <1>1, StageAssumption DEF TypeOK, Items
  <1>3. completion[l][behind[l][i]] = "open"
    BY <1>1, <1>2 DEF Outcome, Live
  <1> QED BY <1>2, <1>3 DEF Ready

\* A step that leaves a lane alone and aborts requests at most keeps its
\* invariant.
LEMMA OtherLane ==
  ASSUME NEW k \in Lanes, Lane(k), running' = running, aborted \subseteq aborted',
         arrived'[k] = arrived[k], kind'[k] = kind[k], phase'[k] = phase[k],
         completion'[k] = completion[k], behind'[k] = behind[k],
         tail'[k] = tail[k], answer'[k] = answer[k], handed'[k] = handed[k]
  PROVE  Lane(k)'
  BY DEF Lane, Known, Outcome, Chain, Tails, InOrder, Answered,
      Quiet, Failing, First, Live

\* schedule_lane_task keeps the invariant of its lane.
LEMMA SchedulesLane ==
  ASSUME TypeOK, NEW l \in Lanes, Lane(l), NEW k \in AllKinds, running = "running",
         arrived[l] < Limit, ScheduleTask(l, k), aborted' = aborted,
         running' = running
  PROVE  Lane(l)'
  <1> DEFINE n == arrived[l] + 1
  <1>1. n \in Items /\ arrived[l] \in 0..Limit /\ Limit \in Nat
    BY StageAssumption DEF TypeOK, Items
  <1>2. /\ arrived'[l] = n /\ phase'[l][n] = "scheduled" /\ kind'[l][n] = k
        /\ behind'[l][n] = tail[l] /\ tail'[l] = n
        /\ \A i \in Items \ {n} : /\ phase'[l][i] = phase[l][i]
                                  /\ kind'[l][i] = kind[l][i]
                                  /\ behind'[l][i] = behind[l][i]
        /\ completion' = completion /\ answer' = answer /\ handed' = handed
    BY <1>1 DEF ScheduleTask, TypeOK
  <1>3. Known(l)'
    BY <1>1, <1>2 DEF Lane, Known, Items
  <1>4. Outcome(l)'
    BY <1>1, <1>2 DEF Lane, Known, Outcome
  <1>5. Chain(l)' /\ Tails(l)' /\ Failing(l)'
    <2>1. \A i \in Items : i > n => ~Live(l, i)' /\ ~Live(l, i)
      BY <1>1, <1>2 DEF Lane, Known, Live, Items
    <2>2. \A i \in Items \ {n} : Live(l, i)' <=> Live(l, i)
      BY <1>2 DEF Live
    <2>3. ~Live(l, n) /\ tail[l] \in 0..Limit
      BY <1>1 DEF Lane, Known, Live, TypeOK
    <2>4. tail[l] # 0 => tail[l] \in Items /\ Live(l, tail[l]) /\ tail[l] < n
      BY <2>1, <2>3, <1>1 DEF Lane, Tails, Items
    <2>5. \A i \in Items : Live(l, i) => tail[l] # 0 /\ i <= tail[l] /\ i < n
      BY <2>1, <2>3, <1>1 DEF Lane, Tails, Items
    <2>6. Chain(l)'
      <3> SUFFICES ASSUME NEW i \in Items, NEW j \in Items,
                          Live(l, i)', Live(l, j)', j < i
                   PROVE  /\ behind'[l][i] >= j /\ behind'[l][i] < i
                          /\ Live(l, behind[l][i])'
        BY DEF Chain
      <3>1. CASE i = n
        BY <1>2, <2>2, <2>4, <2>5, <3>1 DEF Live
      <3>2. CASE i # n
        <4>1. Live(l, i) /\ Live(l, j) /\ behind'[l][i] = behind[l][i]
          BY <1>1, <1>2, <2>1, <2>2, <3>2 DEF Items
        <4>2. /\ behind[l][i] >= j /\ behind[l][i] < i /\ Live(l, behind[l][i])
          BY <4>1 DEF Lane, Chain
        <4>3. behind[l][i] \in Items \ {n}
          BY <4>2, <2>3, <1>1 DEF TypeOK, Items
        <4> QED BY <4>1, <4>2, <4>3, <2>2 DEF Live
      <3> QED BY <3>1, <3>2
    <2>7. Tails(l)'
      BY <1>1, <1>2, <2>1, <2>3 DEF Tails, Live, Items
    <2>8. Failing(l)'
      <3> SUFFICES ASSUME NEW i \in Items, phase'[l][i] = "failing",
                          NEW j \in Items, j < i, Live(l, j)'
                   PROVE  FALSE
        BY DEF Failing, First
      <3>1. i # n /\ phase[l][i] = "failing" /\ i < n
        BY <1>1, <1>2, <2>5 DEF Live
      <3>2. Live(l, j) /\ First(l, i)
        BY <1>1, <2>2, <3>1 DEF Lane, Failing, Items
      <3> QED BY <3>2 DEF First
    <2> QED BY <2>6, <2>7, <2>8
  <1>6. InOrder(l)'
    BY <1>1, <1>2 DEF Lane, Known, InOrder, Items
  <1>7. Answered(l)' /\ Quiet(l)'
    BY <1>1, <1>2 DEF Lane, Answered, Quiet
  <1> QED BY <1>3, <1>4, <1>5, <1>6, <1>7 DEF Lane

\* A batched chunk that is dropped, or routed on a lane without unfinished
\* tasks (schedule_stream_chunk_batch).
LEMMA BypassesLane ==
  ASSUME TypeOK, NEW l \in Lanes, Lane(l), NEW S, running = "running",
         arrived[l] < Limit, NoTask(l, S), aborted' = aborted, running' = running,
         \/ RequestOf[l] \in aborted /\ S = {}
         \/ RequestOf[l] \notin aborted /\ S = Items /\ tail[l] = 0
  PROVE  Lane(l)'
  <1> DEFINE n == arrived[l] + 1
  <1>1. n \in Items /\ arrived[l] \in 0..Limit /\ Limit \in Nat
    BY StageAssumption DEF TypeOK, Items
  <1>2. /\ arrived'[l] = n /\ phase'[l][n] = "ended" /\ kind'[l][n] = "batched"
        /\ completion'[l][n] = "set"
        /\ \A i \in Items \ {n} : /\ phase'[l][i] = phase[l][i]
                                  /\ kind'[l][i] = kind[l][i]
                                  /\ completion'[l][i] = completion[l][i]
        /\ behind' = behind /\ answer' = answer /\ tail' = tail
        /\ handed'[l] = handed[l] \union (S \intersect {n})
    BY <1>1 DEF NoTask, TypeOK
  <1>3. Known(l)'
    BY <1>1, <1>2 DEF Lane, Known, Items
  <1>4. Outcome(l)'
    BY <1>1, <1>2 DEF Lane, Outcome
  <1>5. \A i \in Items : Live(l, i)' <=> Live(l, i)
    BY <1>1, <1>2 DEF Lane, Known, Live, Items
  <1>6. Chain(l)' /\ Tails(l)'
    <2>2. Chain(l)'
      <3> SUFFICES ASSUME NEW i \in Items, NEW j \in Items,
                          Live(l, i), Live(l, j), j < i
                   PROVE  /\ behind[l][i] >= j /\ behind[l][i] < i
                          /\ phase'[l][behind[l][i]] \notin {"unsent", "ended", "raised"}
        BY <1>2, <1>5 DEF Chain, Live
      <3>1. /\ behind[l][i] >= j /\ behind[l][i] < i /\ Live(l, behind[l][i])
        BY DEF Lane, Chain
      <3>2. behind[l][i] \in Items
        BY <3>1, <1>1 DEF TypeOK, Items
      <3> QED BY <3>1, <3>2, <1>5 DEF Live
    <2>3. Tails(l)'
      <3>1. tail[l] = 0 \/ tail[l] \in Items
        BY <1>1 DEF TypeOK, Items
      <3> QED BY <1>2, <1>5, <3>1 DEF Lane, Tails, Live
    <2> QED BY <2>2, <2>3
  <1>7. InOrder(l)'
    <2>1. CASE S = {}
      BY <1>1, <1>2, <2>1 DEF Lane, Known, InOrder, Items
    <2>2. CASE S = Items /\ RequestOf[l] \notin aborted /\ tail[l] = 0
      <3>1. \A j \in Items : j < n => j \in handed[l] \/ phase[l][j] = "raised"
        BY <1>1, <2>2 DEF Lane, Known, Outcome, Tails, Live, TypeOK, Phases, Items
      <3> QED BY <1>1, <1>2, <2>2, <3>1 DEF Lane, Known, InOrder, Items
    <2> QED BY <2>1, <2>2
  <1>8. Answered(l)' /\ Quiet(l)'
    BY <1>1, <1>2 DEF Lane, Answered, Quiet, Relayed
  <1>9. Failing(l)'
    BY <1>1, <1>2, <1>5 DEF Lane, Failing, First
  <1> QED BY <1>3, <1>4, <1>6, <1>7, <1>8, <1>9 DEF Lane

\* A task goes on to another await.
LEMMA MovesLane ==
  ASSUME TypeOK, NEW l \in Lanes, Lane(l), NEW i \in Items, running = "running",
         NEW p \in Phases \ {"unsent", "ended", "raised"}, Live(l, i),
         Become(l, i, p), UNCHANGED <<arrived, kind, completion, behind, tail, handed>>,
         running' = running, aborted \subseteq aborted',
         p \in {"draining", "closing", "failing"} => RequestOf[l] \in aborted',
         p = "failing" => First(l, i),
         \/ /\ answer' = answer
            /\ kind[l][i] \in Relayed /\ p \notin {"reading", "draining", "raising"}
                   => answer[l][i] # "none"
         \/ \E a \in {"acked", "nacked"} : answer' = [answer EXCEPT ![l][i] = a]
  PROVE  Lane(l)'
  <1>1. /\ phase'[l][i] = p
        /\ \A j \in Items \ {i} : phase'[l][j] = phase[l][j]
    BY DEF Become, TypeOK
  <1>2. Known(l)' /\ Outcome(l)'
    BY <1>1 DEF Lane, Known, Outcome, Live
  <1>3. \A j \in Items : Live(l, j)' <=> Live(l, j)
    BY <1>1 DEF Live
  <1>4. Limit \in Nat /\ tail[l] \in 0..Limit
    BY StageAssumption DEF TypeOK
  <1>5. Chain(l)'
    <2> SUFFICES ASSUME NEW m \in Items, NEW j \in Items,
                        Live(l, m), Live(l, j), j < m
                 PROVE  /\ behind[l][m] >= j /\ behind[l][m] < m
                        /\ phase'[l][behind[l][m]] \notin {"unsent", "ended", "raised"}
      BY <1>3 DEF Chain, Live
    <2>1. /\ behind[l][m] >= j /\ behind[l][m] < m /\ Live(l, behind[l][m])
      BY DEF Lane, Chain
    <2>2. behind[l][m] \in Items
      BY <2>1, <1>4 DEF TypeOK, Items
    <2> QED BY <2>1, <2>2, <1>3 DEF Live
  <1>6. Tails(l)'
    <2>1. tail[l] = 0 \/ tail[l] \in Items
      BY <1>4 DEF Items
    <2> QED BY <1>3, <2>1 DEF Lane, Tails, Live
  <1>7. InOrder(l)'
    BY <1>1 DEF Lane, InOrder, Live
  <1>8. Answered(l)' /\ Quiet(l)'
    <2>1. /\ \A j \in Items \ {i} : answer'[l][j] = answer[l][j]
          /\ kind[l][i] \in Relayed /\ p \notin {"reading", "draining", "raising"}
                => answer'[l][i] # "none"
      BY DEF TypeOK
    <2> QED BY <1>1, <2>1 DEF Lane, Answered, Quiet
  <1>9. Failing(l)'
    BY <1>1, <1>3 DEF Lane, Failing, First
  <1> QED BY <1>2, <1>5, <1>6, <1>7, <1>8, <1>9 DEF Lane

\* A task ends its turn, and its future is completed.
LEMMA FinishesLane ==
  ASSUME TypeOK, NEW l \in Lanes, Lane(l), NEW i \in Items, running = "running",
         NEW p \in {"ended", "raised"}, Live(l, i), First(l, i), Finish(l, i, p),
         UNCHANGED answer, running' = running, aborted' = aborted,
         \/ handed' = handed /\ (p = "ended" => RequestOf[l] \in aborted)
         \/ /\ handed' = [handed EXCEPT ![l] = @ \union {i}]
            /\ RequestOf[l] \notin aborted,
         kind[l][i] \in Relayed /\ p = "ended" => answer[l][i] # "none"
  PROVE  Lane(l)'
  <1>1. \A j \in Items : j < i => ~Live(l, j)
    BY DEF First
  <1>2. /\ phase'[l][i] = p
        /\ \A j \in Items \ {i} : /\ phase'[l][j] = phase[l][j]
                                  /\ completion'[l][j] = completion[l][j]
        /\ tail'[l] = IF tail[l] = i THEN 0 ELSE tail[l]
        /\ UNCHANGED <<arrived, kind, behind, answer>>
    BY DEF Finish, Become, TypeOK
  <1>3. \/ handed'[l] = handed[l]
        \/ handed'[l] = handed[l] \union {i} /\ RequestOf[l] \notin aborted
    BY DEF TypeOK
  <1>4. Limit \in Nat /\ tail[l] \in 0..Limit /\ i \in 1..Limit
    BY StageAssumption DEF TypeOK, Items
  <1>6. Known(l)'
    <2>1. i <= arrived[l]
      BY <1>4 DEF Lane, Known, Live, TypeOK
    <2>2. \A j \in Items \ {i} : j \in handed'[l] <=> j \in handed[l]
      BY <1>3
    <2>3. phase'[l][i] # "unsent" /\ arrived' = arrived
      BY <1>2
    <2>4. arrived[l] \in Nat /\ i \in Nat
      BY <1>4 DEF TypeOK
    <2> QED BY <1>2, <2>1, <2>2, <2>3, <2>4 DEF Lane, Known
  <1>7. Outcome(l)'
    <2>1. i \in handed'[l] \/ RequestOf[l] \in aborted \/ p = "raised"
      BY DEF TypeOK
    <2>2. completion'[l][i] = "set"
      <3>1. completion[l][i] = "open"
        BY DEF Lane, Outcome, Live
      <3> QED BY <3>1 DEF Finish, TypeOK
    <2> QED BY <1>2, <1>3, <2>1, <2>2 DEF Lane, Outcome
  <1>8. \A j \in Items : Live(l, j)' <=> Live(l, j) /\ j # i
    BY <1>2 DEF Live
  <1>9. Chain(l)'
    <2> SUFFICES ASSUME NEW m \in Items, NEW j \in Items,
                        Live(l, m)', Live(l, j)', j < m
                 PROVE  /\ behind[l][m] >= j /\ behind[l][m] < m
                        /\ phase'[l][behind[l][m]] \notin {"unsent", "ended", "raised"}
      BY <1>2 DEF Chain, Live
    <2>1. /\ behind[l][m] >= j /\ behind[l][m] < m /\ Live(l, behind[l][m])
      BY <1>8 DEF Lane, Chain
    <2>2. behind[l][m] \in Items
      BY <2>1, <1>4 DEF TypeOK, Items
    <2>3. j > i
      BY <1>1, <1>4, <1>8 DEF Items
    <2>4. behind[l][m] \in Items \ {i}
      BY <2>1, <2>2, <2>3, <1>4 DEF Items
    <2> QED BY <2>1, <2>4, <1>2 DEF Live
  <1>10. Tails(l)'
    <2>1. tail[l] \in Items /\ tail[l] >= i /\ Live(l, tail[l])
      BY <1>4 DEF Lane, Tails, Items
    <2>2. CASE tail[l] = i
      BY <1>1, <1>2, <1>4, <1>8, <2>1, <2>2 DEF Lane, Tails, Items, Live
    <2>3. CASE tail[l] # i
      BY <1>2, <1>4, <1>8, <2>1, <2>3 DEF Lane, Tails, Items, Live
    <2> QED BY <2>2, <2>3
  <1>11. InOrder(l)'
    <2>1. CASE handed'[l] = handed[l]
      BY <1>2, <2>1 DEF Lane, InOrder, Live
    <2>2. CASE handed'[l] = handed[l] \union {i} /\ RequestOf[l] \notin aborted
      <3>1. \A j \in Items : j < i => j \in handed[l] \/ phase[l][j] = "raised"
        BY <1>1, <1>4, <2>2 DEF Lane, Known, Outcome, Live, TypeOK, Phases, Items
      <3> QED BY <1>2, <2>2, <3>1 DEF Lane, InOrder, Live
    <2> QED BY <1>3, <2>1, <2>2
  <1>12. Answered(l)' /\ Quiet(l)'
    BY <1>2 DEF Lane, Answered, Quiet
  <1>13. Failing(l)'
    BY <1>2, <1>8 DEF Lane, Failing, First
  <1> QED BY <1>6, <1>7, <1>9, <1>10, <1>11, <1>12, <1>13 DEF Lane

\* While the stage stops, a step that only ends tasks and hands nothing over
\* keeps the invariant of a lane.
LEMMA EndsLane ==
  ASSUME TypeOK, NEW l \in Lanes, Lane(l), running' # "running",
         arrived' = arrived, handed' = handed,
         \A i \in Items : /\ phase[l][i] = "raised" => phase'[l][i] = "raised"
                          /\ phase[l][i] = "unsent" <=> phase'[l][i] = "unsent"
                          /\ phase'[l][i] \in {"unsent", "closing", "ended", "raised"}
  PROVE  Lane(l)'
  BY DEF Lane, Known, Outcome, Chain, Tails, InOrder, Answered, Quiet,
         Failing

\* A step of a task keeps the invariant of its lane.
LEMMA TaskKeepsLane ==
  ASSUME TypeOK, NEW l \in Lanes, Lane(l), NEW i \in Items, running = "running",
         TaskStep(l, i) \/ AckRaises(l, i)
  PROVE  Lane(l)'
  <1>1. CASE Begin(l, i)
    <2>1. PICK p \in Phases \ {"unsent", "failing", "ended", "raised"} :
             /\ Become(l, i, p)
             /\ p \in {"draining", "closing"} => RequestOf[l] \in aborted
             /\ kind[l][i] \in Relayed => p \in {"reading", "draining"}
      BY <1>1 DEF Begin, Phases, Relayed
    <2>2. Live(l, i) /\ UNCHANGED <<arrived, kind, completion, behind, tail, answer,
                                    handed, aborted, running>>
      BY <1>1 DEF Begin, Live
    <2> QED BY <2>1, <2>2, MovesLane
  <1>2. CASE ReadEnds(l, i)
    <2>1. PICK p \in {"turn", "broken"}, a \in {"acked", "nacked"} :
             Become(l, i, p) /\ answer' = [answer EXCEPT ![l][i] = a]
      BY <1>2 DEF ReadEnds
    <2>2. Live(l, i) /\ UNCHANGED <<arrived, kind, completion, behind, tail, handed,
                                    aborted, running>>
      BY <1>2 DEF ReadEnds, Live, requests
    <2> QED BY <2>1, <2>2, MovesLane DEF Phases
  <1>3. CASE DrainEnds(l, i)
    <2>1. RequestOf[l] \in aborted
      BY <1>3 DEF DrainEnds, Lane, Outcome
    <2>2. Live(l, i) /\ UNCHANGED <<arrived, kind, completion, behind, tail, handed,
                                    aborted, running>>
      BY <1>3 DEF DrainEnds, Live, requests
    <2> QED BY <1>3, <2>1, <2>2, MovesLane DEF DrainEnds, Phases
  <1>4. CASE AckRaises(l, i)
    <2>1. Live(l, i) /\ UNCHANGED <<arrived, kind, completion, behind, tail, answer,
                                    handed, aborted, running>>
      BY <1>4 DEF AckRaises, Live, requests
    <2> QED BY <1>4, <2>1, MovesLane DEF AckRaises, Phases
  <1>5. kind[l][i] \in Relayed /\ phase[l][i] \in {"turn", "broken", "failing", "closing"}
           => answer[l][i] # "none"
    BY DEF Lane, Answered
  <1>6. Live(l, i) /\ Ready(l, i) => First(l, i)
    BY ReadyIsFirst DEF Lane
  <1>7. ASSUME Skip(l, i), phase[l][i] \in {"turn", "broken"}, Ready(l, i)
        PROVE  Lane(l)'
    <2>1. Live(l, i) /\ First(l, i) /\ UNCHANGED <<answer, handed, aborted, running>>
      BY <1>6, <1>7 DEF Skip, Live, requests
    <2> QED BY <1>5, <1>7, <2>1, FinishesLane DEF Skip
  <1>8. ASSUME Hand(l, i), phase[l][i] = "turn", Ready(l, i), RequestOf[l] \notin aborted
        PROVE  Lane(l)'
    <2>1. Live(l, i) /\ First(l, i) /\ UNCHANGED <<answer, aborted, running>>
      BY <1>6, <1>8 DEF Hand, Live
    <2> QED BY <1>5, <1>8, <2>1, FinishesLane DEF Hand
  <1>9. ASSUME StartFailure(l, i), phase[l][i] \in {"turn", "broken"}, Ready(l, i)
        PROVE  Lane(l)'
    <2>1. /\ Live(l, i) /\ First(l, i)
          /\ UNCHANGED <<arrived, kind, completion, behind, tail, answer, handed, running>>
          /\ RequestOf[l] \in aborted' /\ aborted \subseteq aborted'
      BY <1>6, <1>9 DEF StartFailure, Live
    <2> QED BY <1>5, <1>9, <2>1, MovesLane DEF StartFailure, Phases
  <1>10. CASE PayloadTurn(l, i)
    BY <1>7, <1>8, <1>10 DEF PayloadTurn
  <1>11. CASE ChunkTurn(l, i)
    BY <1>7, <1>8, <1>9, <1>11 DEF ChunkTurn, FailStream
  <1>12. CASE SignalTurn(l, i)
    BY <1>7, <1>8, <1>9, <1>12 DEF SignalTurn, FailStream
  <1>13. CASE BrokenTurn(l, i)
    BY <1>7, <1>9, <1>13 DEF BrokenTurn, FailStream
  <1>14. CASE FailureSent(l, i)
    <2>1. PICK p \in {"ended", "raised"} : Finish(l, i, p)
      BY <1>14 DEF FailureSent
    <2>2. /\ Live(l, i) /\ First(l, i) /\ RequestOf[l] \in aborted
          /\ UNCHANGED <<answer, handed, aborted, running>>
      BY <1>14 DEF FailureSent, Lane, Failing, Outcome, Live
    <2> QED BY <1>5, <1>14, <2>1, <2>2, FinishesLane DEF FailureSent
  <1>15. CASE Close(l, i)
    <2>1. Live(l, i) /\ UNCHANGED <<answer, handed, aborted, running>>
      BY <1>15 DEF Close, Live, requests
    <2>2. CASE Ready(l, i) /\ phase[l][i] = "closing"
      <3>1. Finish(l, i, "ended") /\ First(l, i) /\ RequestOf[l] \in aborted
        BY <1>6, <1>15, <2>1, <2>2 DEF Close, Lane, Outcome, Ready
      <3> QED BY <1>5, <2>1, <2>2, <3>1, FinishesLane
    <2>3. CASE Ready(l, i) /\ phase[l][i] = "raising"
      <3>1. Finish(l, i, "raised") /\ First(l, i)
        BY <1>6, <1>15, <2>1, <2>3 DEF Close, Ready
      <3> QED BY <2>1, <2>3, <3>1, FinishesLane
    <2>4. CASE ~Ready(l, i)
      BY <1>15, <2>4 DEF Close, Lane, Outcome
    <2> QED BY <1>15, <2>2, <2>3, <2>4 DEF Close
  <1> QED
    BY <1>1, <1>2, <1>3, <1>4, <1>10, <1>11, <1>12, <1>13, <1>14, <1>15 DEF TaskStep

\* Every step keeps the invariant of every lane.
LEMMA StageSteps == ASSUME IInv, [Next]_vars PROVE IInv'
  <1>1. TypeOK /\ TypeOK'
    <2>1. LaneTypes' /\ RequestTypes'
      BY TypesSplit, StageLaneTypes, StageRequestTypes DEF IInv
    <2>2. running' \in {"running", "stopping", "stopped"}
      <3>1. ASSUME NEW l \in Lanes, NEW i \in Items, TaskStep(l, i) \/ AckRaises(l, i)
            PROVE  running' = running
        BY <3>1, TaskFrame
      <3> QED
        BY <3>1 DEF IInv, TypeOK, Next, vars, Submit, OnAbort, ResultEmitted,
                    ResultRouted, MessageArrives, ChunkOfBatchArrives, Stop, StopEnds
    <2> QED BY <2>1, <2>2, TypesSplit DEF IInv
  <1> SUFFICES ASSUME NEW k \in Lanes  PROVE Lane(k)'
    BY <1>1 DEF IInv
  <1>2. Lane(k)
    BY DEF IInv
  <1>3. CASE UNCHANGED <<lanes, running>> /\ aborted \subseteq aborted'
    BY <1>2, <1>3, OtherLane DEF lanes
  <1>4. CASE \E l \in Lanes : MessageArrives(l) \/ ChunkOfBatchArrives(l)
    <2>1. PICK l \in Lanes : MessageArrives(l) \/ ChunkOfBatchArrives(l)
      BY <1>4
    <2>2. CASE l = k
      <3>1. ASSUME MessageArrives(k)  PROVE Lane(k)'
        <4>1. PICK kd \in AllKinds : ScheduleTask(k, kd)
          BY <3>1, StageAssumption DEF MessageArrives
        <4> QED BY <1>1, <1>2, <3>1, <4>1, SchedulesLane DEF MessageArrives, requests
      <3>2. ASSUME ChunkOfBatchArrives(k)  PROVE Lane(k)'
        <4>1. /\ running = "running" /\ arrived[k] < Limit
              /\ aborted' = aborted /\ running' = running
          BY <3>2 DEF ChunkOfBatchArrives
        <4>2. \/ ScheduleTask(k, "batched")
              \/ NoTask(k, {}) /\ RequestOf[k] \in aborted
              \/ NoTask(k, Items) /\ RequestOf[k] \notin aborted /\ tail[k] = 0
          BY <3>2 DEF ChunkOfBatchArrives
        <4>3. CASE ScheduleTask(k, "batched")
          BY <1>1, <1>2, <4>1, <4>3, SchedulesLane DEF AllKinds
        <4>4. CASE NoTask(k, {}) /\ RequestOf[k] \in aborted
          BY <1>1, <1>2, <4>1, <4>4, BypassesLane
        <4>5. CASE NoTask(k, Items) /\ RequestOf[k] \notin aborted /\ tail[k] = 0
          BY <1>1, <1>2, <4>1, <4>5, BypassesLane
        <4> QED BY <4>2, <4>3, <4>4, <4>5
      <3> QED BY <2>1, <2>2, <3>1, <3>2
    <2>3. CASE l # k
      <3>1. /\ running' = running /\ aborted' = aborted
            /\ \E x : ScheduleTask(l, x) \/ NoTask(l, x)
        BY <2>1 DEF MessageArrives, ChunkOfBatchArrives, requests
      <3>2. /\ arrived'[k] = arrived[k] /\ kind'[k] = kind[k] /\ phase'[k] = phase[k]
            /\ completion'[k] = completion[k] /\ behind'[k] = behind[k]
            /\ tail'[k] = tail[k] /\ answer'[k] = answer[k] /\ handed'[k] = handed[k]
        BY <1>1, <2>3, <3>1 DEF ScheduleTask, NoTask, TypeOK
      <3> QED BY <1>2, <3>1, <3>2, OtherLane
    <2> QED BY <2>2, <2>3
  <1>5. CASE \E l \in Lanes, i \in Items : TaskStep(l, i) \/ AckRaises(l, i)
    <2>1. PICK l \in Lanes, i \in Items : TaskStep(l, i) \/ AckRaises(l, i)
      BY <1>5
    <2>2. CASE l = k /\ running = "running"
      BY <1>1, <1>2, <2>1, <2>2, TaskKeepsLane
    <2>3. CASE l = k /\ running # "running"
      <3>1. phase[k][i] \in {"unsent", "closing", "ended", "raised"}
        BY <1>2, <2>3 DEF Lane, Quiet
      <3>2. Close(k, i)
        BY <2>1, <2>3, <3>1
        DEF TaskStep, AckRaises, Begin, ReadEnds, DrainEnds, PayloadTurn, ChunkTurn,
            SignalTurn, BrokenTurn, FailureSent
      <3>3. phase[k][i] = "closing" /\ Become(k, i, "ended")
            /\ UNCHANGED <<arrived, handed, running>>
        BY <3>1, <3>2 DEF Close, Finish
      <3>4. /\ phase'[k][i] = "ended"
            /\ \A j \in Items \ {i} : phase'[k][j] = phase[k][j]
        BY <1>1, <3>3 DEF Become, TypeOK
      <3> QED BY <1>1, <1>2, <2>3, <3>3, <3>4, EndsLane DEF Lane, Quiet
    <2>4. CASE l # k
      <3>1. PICK p \in Phases :
               /\ Become(l, i, p)
               /\ \/ Finish(l, i, p)
                  \/ UNCHANGED <<arrived, kind, completion, behind, tail>>
        BY <2>1, TaskFrame
      <3>2. /\ \/ UNCHANGED answer
               \/ \E a \in {"acked", "nacked"} : answer' = [answer EXCEPT ![l][i] = a]
            /\ UNCHANGED handed \/ handed' = [handed EXCEPT ![l] = @ \union {i}]
            /\ running' = running /\ aborted \subseteq aborted'
        BY <2>1, TaskFrame
      <3>3. phase'[k] = phase[k] /\ answer'[k] = answer[k] /\ handed'[k] = handed[k]
        BY <1>1, <2>4, <3>1, <3>2 DEF Become, TypeOK
      <3>4. /\ arrived'[k] = arrived[k] /\ kind'[k] = kind[k]
            /\ completion'[k] = completion[k] /\ behind'[k] = behind[k]
            /\ tail'[k] = tail[k]
        <4>1. CASE Finish(l, i, p)
          BY <1>1, <2>4, <4>1 DEF Finish, TypeOK
        <4>2. CASE UNCHANGED <<arrived, kind, completion, behind, tail>>
          BY <4>2
        <4> QED BY <3>1, <4>1, <4>2
      <3> QED BY <1>2, <3>2, <3>3, <3>4, OtherLane
    <2> QED BY <2>2, <2>3, <2>4
  <1>6. CASE Stop
    <2>1. /\ arrived' = arrived /\ handed' = handed /\ running' # "running"
          /\ \A i \in Items : phase'[k][i] = Cancelled(k, i)
      BY <1>6 DEF Stop
    <2>2. \A i \in Items : /\ phase[k][i] = "raised" => Cancelled(k, i) = "raised"
                           /\ phase[k][i] = "unsent" <=> Cancelled(k, i) = "unsent"
                           /\ Cancelled(k, i) \in {"unsent", "closing", "ended", "raised"}
      BY DEF Cancelled, Awaiting
    <2> QED BY <1>1, <1>2, <2>1, <2>2, EndsLane
  <1>7. CASE StopEnds
    BY <1>1, <1>2, <1>7, EndsLane DEF StopEnds, Lane, Quiet
  <1>8. CASE \E r \in Requests :
                Submit(r) \/ OnAbort(r) \/ ResultEmitted(r) \/ ResultRouted(r)
    BY <1>3, <1>8 DEF Submit, OnAbort, ResultEmitted, ResultRouted
  <1> QED BY <1>3, <1>4, <1>5, <1>6, <1>7, <1>8 DEF Next, vars, requests

-----------------------------------------------------------------------------
\* The inductive invariant of the stage's lanes.
THEOREM StageInvariant == Spec => []IInv
  <1>1. Init => IInv
    BY StageInitially
  <1>2. IInv /\ [Next]_vars => IInv'
    BY StageSteps
  <1> QED BY <1>1, <1>2, PTL DEF Spec

\* The messages of a lane take effect in the order of their arrival, without
\* a hole, whatever the reads do (schedule_lane_task, run_receive_task,
\* schedule_stream_chunk_batch).
THEOREM DeliveredInOrder == Spec => []LaneInOrder
  <1>1. IInv => LaneInOrder
    BY StageAssumption DEF IInv, TypeOK, Lane, InOrder, LaneInOrder, Items
  <1> QED BY <1>1, StageInvariant, PTL

\* A lane without a tail has no unfinished task (receive_lane_tails).
THEOREM TailsExact == Spec => []TailIsLast
  <1>1. IInv => TailIsLast
    BY DEF IInv, Lane, Tails, TailIsLast
  <1> QED BY <1>1, StageInvariant, PTL

\* Every relayed message is answered, also those of aborted requests
\* (send_data_ack, discard_data, discard_stream_chunk_data).
THEOREM AllAnswered == Spec => []EndedIsAnswered
  <1>1. IInv => EndedIsAnswered
    BY DEF IInv, Lane, Answered, EndedIsAnswered
  <1> QED BY <1>1, StageInvariant, PTL

-----------------------------------------------------------------------------
(* Aborts.                                                                 *)

\* What the stage holds of r, and who is about to clear it.
Empty(r) == r \notin active /\ r \notin streams /\ \A l \in inputs : RequestOf[l] # r
FailureOf(r) == \E l \in Lanes, i \in Items : RequestOf[l] = r /\ phase[l][i] = "failing"

\* AbortLeavesNothing, request by request.
Gone == \A r \in aborted : Empty(r) \/ FailureOf(r)

LEMMA AbortPointwise ==
  ASSUME TypeOK
  PROVE  AbortLeavesNothing <=> Gone
  <1>1. ASSUME NEW r
        PROVE  (inputs \intersect LanesOf(r) = {}) <=> \A l \in inputs : RequestOf[l] # r
    BY DEF LanesOf, TypeOK
  <1>2. ASSUME NEW r
        PROVE  (\E l \in LanesOf(r), i \in Items : phase[l][i] = "failing") <=> FailureOf(r)
    BY DEF LanesOf, FailureOf
  <1> QED BY <1>1, <1>2, Zenon DEF AbortLeavesNothing, Gone, Empty

\* A step of a task that is not in send_failure leaves those that are alone.
LEMMA FailureStays ==
  ASSUME TypeOK, NEW r, NEW k \in Lanes, NEW n \in Items, NEW p,
         Become(k, n, p), phase[k][n] # "failing", FailureOf(r)
  PROVE  FailureOf(r)'
  BY DEF FailureOf, Become, TypeOK

\* The step of a task outside send_failure that adds state only to its own
\* request, and only if that one is not aborted.
LEMMA AddsToLiving ==
  ASSUME TypeOK, Gone, NEW k \in Lanes, NEW n \in Items, NEW p,
         Become(k, n, p), phase[k][n] # "failing", aborted' = aborted,
         \/ UNCHANGED <<active, streams, inputs>>
         \/ /\ RequestOf[k] \notin aborted
            /\ active' \subseteq active \union {RequestOf[k]}
            /\ streams' \subseteq streams \union {RequestOf[k]}
            /\ inputs' \subseteq inputs \union {k}
  PROVE  Gone'
  <1>1. ASSUME NEW r \in aborted, Empty(r)  PROVE Empty(r)'
    BY <1>1 DEF Empty
  <1> QED BY <1>1, FailureStays DEF Gone

\* send_failure marks its request, and will clear it.
LEMMA FailureBegins ==
  ASSUME TypeOK, Gone, NEW k \in Lanes, NEW n \in Items, phase[k][n] # "failing",
         StartFailure(k, n), active' \subseteq active \union {RequestOf[k]}
  PROVE  Gone'
  <1>1. FailureOf(RequestOf[k])'
    BY DEF StartFailure, Become, FailureOf, TypeOK
  <1>2. ASSUME NEW r \in aborted, r # RequestOf[k], Empty(r)  PROVE Empty(r)'
    BY <1>2 DEF Empty, StartFailure
  <1>3. ASSUME NEW r \in aborted, FailureOf(r)  PROVE FailureOf(r)'
    BY <1>3, FailureStays DEF StartFailure
  <1> QED BY <1>1, <1>2, <1>3 DEF Gone, StartFailure

\* Every step of a task keeps Gone.
LEMMA TaskKeepsGone ==
  ASSUME TypeOK, Gone, NEW k \in Lanes, NEW n \in Items, TaskStep(k, n) \/ AckRaises(k, n)
  PROVE  Gone'
  <1> DEFINE q == RequestOf[k]
             Adds == \/ UNCHANGED <<active, streams, inputs>>
                     \/ /\ q \notin aborted
                        /\ active' \subseteq active \union {q}
                        /\ streams' \subseteq streams \union {q}
                        /\ inputs' \subseteq inputs \union {k}
             Ends == (\E p : Become(k, n, p)) /\ aborted' = aborted /\ Adds
  <1>1. ASSUME Ends, phase[k][n] # "failing"  PROVE Gone'
    BY <1>1, AddsToLiving
  <1>2. ASSUME Begin(k, n) \/ ReadEnds(k, n) \/ DrainEnds(k, n) \/ AckRaises(k, n) \/ Close(k, n)
        PROVE  Ends /\ phase[k][n] # "failing"
    BY <1>2 DEF Begin, ReadEnds, DrainEnds, AckRaises, Close, Finish, requests
  <1>3. ASSUME Skip(k, n)  PROVE Ends
    BY <1>3 DEF Skip, Finish, requests
  <1>4. ASSUME q \notin aborted, ReceivePayload(k), Hand(k, n)  PROVE Ends
    BY <1>4 DEF ReceivePayload, Hand, Finish
  <1>5. ASSUME q \notin aborted, RouteStream(q), Hand(k, n)  PROVE Ends
    BY <1>5 DEF RouteStream, Hand, Finish
  <1>6. ASSUME FailStream(k, n), phase[k][n] # "failing"  PROVE Gone'
    BY <1>6, FailureBegins DEF FailStream
  <1>7. CASE PayloadTurn(k, n)
    BY <1>1, <1>3, <1>4, <1>7 DEF PayloadTurn
  <1>8. CASE ChunkTurn(k, n)
    BY <1>1, <1>3, <1>5, <1>6, <1>8 DEF ChunkTurn
  <1>9. CASE SignalTurn(k, n)
    BY <1>1, <1>3, <1>5, <1>6, <1>9 DEF SignalTurn
  <1>10. CASE BrokenTurn(k, n)
    BY <1>1, <1>3, <1>6, <1>10, FailureBegins DEF BrokenTurn
  <1>11. CASE FailureSent(k, n)
    <2>1. Empty(q)' /\ aborted' = aborted
      BY <1>11 DEF FailureSent, Clear, Empty, LanesOf, TypeOK
    <2>2. ASSUME NEW r \in aborted, Empty(r)  PROVE Empty(r)'
      BY <1>11, <2>2 DEF FailureSent, Clear, Empty
    <2>3. ASSUME NEW r \in aborted, r # q, FailureOf(r)  PROVE FailureOf(r)'
      BY <1>11, <2>3 DEF FailureSent, Finish, Become, FailureOf, TypeOK
    <2> QED BY <2>1, <2>2, <2>3 DEF Gone
  <1> QED BY <1>1, <1>2, <1>7, <1>8, <1>9, <1>10, <1>11 DEF TaskStep

\* on_abort, send_failure and every check of aborted keep AbortLeavesNothing.
LEMMA AbortSteps ==
  ASSUME IInv, Gone, [Next]_vars
  PROVE  Gone'
  <1> USE DEF IInv
  <1>1. CASE UNCHANGED vars
    BY <1>1 DEF vars, lanes, requests, Gone, Empty, FailureOf
  <1>2. ASSUME NEW q \in Requests,
               Submit(q) \/ OnAbort(q) \/ ResultEmitted(q) \/ ResultRouted(q)
        PROVE  Gone'
    <2>1. phase' = phase
      BY <1>2 DEF Submit, OnAbort, ResultEmitted, ResultRouted, lanes
    <2>2. CASE Submit(q)
      BY <2>1, <2>2 DEF Gone, Submit, Clear, Empty, FailureOf
    <2>3. CASE OnAbort(q)
      BY <2>1, <2>3 DEF Gone, OnAbort, Clear, Empty, FailureOf, LanesOf, TypeOK
    <2>4. CASE ResultEmitted(q)
      BY <2>1, <2>4 DEF Gone, ResultEmitted, Empty, FailureOf
    <2>5. CASE ResultRouted(q)
      BY <2>1, <2>5 DEF Gone, ResultRouted, Clear, Empty, FailureOf
    <2> QED BY <1>2, <2>2, <2>3, <2>4, <2>5
  <1>3. ASSUME NEW k \in Lanes, MessageArrives(k) \/ ChunkOfBatchArrives(k)
        PROVE  Gone'
    <2> DEFINE n == arrived[k] + 1
    <2>1. n \in Items /\ phase[k][n] # "failing"
      <3>1. arrived[k] < Limit /\ arrived[k] \in Nat
        BY <1>3 DEF TypeOK, MessageArrives, ChunkOfBatchArrives
      <3>2. n \in Items /\ n > arrived[k]
        BY <3>1, StageAssumption DEF Items
      <3> QED BY <3>2 DEF Lane, Known
    <2>2. \E p : Become(k, n, p)
      BY <1>3 DEF MessageArrives, ChunkOfBatchArrives, ScheduleTask, NoTask, Become
    <2>3. /\ aborted' = aborted
          /\ \/ UNCHANGED <<active, streams, inputs>>
             \/ /\ RequestOf[k] \notin aborted
                /\ active' \subseteq active \union {RequestOf[k]}
                /\ streams' \subseteq streams \union {RequestOf[k]}
                /\ inputs' \subseteq inputs \union {k}
      BY <1>3 DEF MessageArrives, ChunkOfBatchArrives, requests
    <2> QED BY <2>1, <2>2, <2>3, AddsToLiving
  <1>4. ASSUME NEW k \in Lanes, NEW n \in Items, TaskStep(k, n) \/ AckRaises(k, n)
        PROVE  Gone'
    BY <1>4, TaskKeepsGone
  <1>5. CASE Stop
    <2>1. ASSUME NEW r \in aborted, Empty(r)  PROVE Empty(r)'
      BY <1>5, <2>1 DEF Stop, Empty
    <2>2. ASSUME NEW r \in aborted, FailureOf(r)  PROVE Empty(r)'
      BY <1>5, <2>2 DEF Stop, Empty, FailureOf
    <2> QED BY <1>5, <2>1, <2>2 DEF Gone, Stop
  <1>6. CASE StopEnds
    BY <1>6 DEF StopEnds, requests, Gone, Empty, FailureOf
  <1> QED BY <1>1, <1>2, <1>3, <1>4, <1>5, <1>6 DEF Next

\* An aborted request leaves nothing in the stage: it is not active, has no
\* stream queue and no collected input, unless send_failure is about to clear
\* them (on_abort, clear_request_state, and the checks after each await).
THEOREM AbortsLeaveNothing == Spec => []AbortLeavesNothing
  <1>1. Init => Gone
    BY DEF Init, Gone
  <1>2. IInv /\ Gone /\ [Next]_vars => Gone'
    BY AbortSteps
  <1>3. IInv /\ Gone => AbortLeavesNothing
    BY AbortPointwise DEF IInv
  <1> QED BY <1>1, <1>2, <1>3, StageInvariant, PTL DEF Spec

\* Nothing of an aborted request is handed on, even if it was read before the
\* abort (the checks after wait_for_receive_predecessor).
THEOREM NothingHandedAfterAbort == Spec => NothingAfterAbort
  <1>1. ASSUME IInv, [Next]_vars, NEW l \in Lanes, RequestOf[l] \in aborted
        PROVE  handed'[l] = handed[l]
    <2> USE DEF IInv
    <2>1. ASSUME NEW k \in Lanes, NEW n \in Items, Hand(k, n), RequestOf[k] \notin aborted
          PROVE  handed'[l] = handed[l]
      BY <1>1, <2>1 DEF Hand, TypeOK
    <2>2. ASSUME NEW k \in Lanes, NEW n \in Items, TaskStep(k, n) \/ AckRaises(k, n)
          PROVE  UNCHANGED handed \/ (Hand(k, n) /\ RequestOf[k] \notin aborted)
      BY <2>2 DEF TaskStep, Begin, ReadEnds, DrainEnds, PayloadTurn, ChunkTurn,
          SignalTurn, BrokenTurn, FailureSent, Close, AckRaises, Skip,
          StartFailure, FailStream
    <2>3. ASSUME NEW k \in Lanes, MessageArrives(k) \/ ChunkOfBatchArrives(k)
          PROVE  handed'[l] = handed[l]
      <3>1. \/ UNCHANGED handed
            \/ NoTask(k, {})
            \/ NoTask(k, Items) /\ RequestOf[k] \notin aborted
        BY <2>3 DEF MessageArrives, ChunkOfBatchArrives, ScheduleTask
      <3> QED BY <1>1, <3>1 DEF NoTask, TypeOK
    <2>4. CASE UNCHANGED vars
      BY <2>4 DEF vars, lanes
    <2>5. CASE Stop \/ StopEnds \/ \E r \in Requests :
                  Submit(r) \/ OnAbort(r) \/ ResultEmitted(r) \/ ResultRouted(r)
      BY <2>5 DEF Stop, StopEnds, Submit, OnAbort, ResultEmitted, ResultRouted, lanes
    <2> QED BY <1>1, <2>1, <2>2, <2>3, <2>4, <2>5 DEF Next
  <1>2. IInv /\ [Next]_vars =>
           [\A l \in Lanes : handed'[l] # handed[l] => RequestOf[l] \notin aborted]_vars
    BY <1>1
  <1> QED BY <1>2, StageInvariant, PTL DEF Spec, NothingAfterAbort
=============================================================================
