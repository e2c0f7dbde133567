---------------------------- MODULE StageReceive ----------------------------
(***************************************************************************)
(* The receiving half of a pipeline stage (pipeline/stage/runtime.py).     *)
(* Every message from another stage is handled by a task of its own, so    *)
(* that a slow relay read holds nobody up; the tasks of one lane (a        *)
(* request and a sending stage) nevertheless take effect in the order in   *)
(* which their messages arrived, because each waits for the completion     *)
(* future of the one before it.  Aborts, failures, finished results and a  *)
(* stop of the stage happen at any of the tasks' awaits.                   *)
(***************************************************************************)
EXTENDS Naturals

CONSTANTS
    Lanes,      \* the (request, from_stage) pairs
    Requests,   \* request ids
    RequestOf,  \* the request of each lane
    Limit,      \* bound: how many messages arrive on a lane
    Kinds,      \* the kinds of message that arrive, see AllKinds
    WaitFor,    \* the lanes an AggregatedInput merges; {}: DirectInput
    PrePayload, \* {"yes"} if can_accept_stream_before_payload
    Stops       \* {"shutdown"} if a ShutdownMessage may arrive

\* A payload and a chunk are read from a relay and acknowledged.  A direct
\* chunk (CUDA IPC) and a batched one come inside their message.
AllKinds == {"payload", "chunk", "direct", "batched", "done", "error"}
Relayed == {"payload", "chunk"}

ASSUME StageAssumption ==
    /\ RequestOf \in [Lanes -> Requests]
    /\ Limit \in Nat
    /\ Kinds \subseteq AllKinds
    /\ WaitFor \subseteq Lanes

Items == 1..Limit

VARIABLES
    arrived,     \* how many messages of each lane the stage has received
    kind,        \* the kind of each message, "none" until it arrives
    phase,       \* where the task of each message is
    completion,  \* its completion future: "open", "set" or "cancelled"
    behind,      \* its predecessor in the lane, or 0
    tail,        \* receive_lane_tails: the last task of each lane, or 0
    answer,      \* the DataAck sent for the message, or "none"
    handed,      \* the messages handed to the scheduler or the input handler
    active,      \* active_requests
    streams,     \* the requests with an open stream queue
    inputs,      \* AggregatedInput.pending: the lanes whose payload is held
    aborted,     \* the aborted set
    jobs,        \* the requests the scheduler was given (new_request)
    routing,     \* the results drain_outbox is sending
    running      \* "running", "stopping" (in the gather of stop) or "stopped"

lanes == <<arrived, kind, phase, completion, behind, tail, answer, handed>>
requests == <<active, streams, inputs, aborted, jobs, routing>>
vars == <<lanes, requests, running>>

Phases == {"unsent", "scheduled", "reading", "draining", "turn", "broken",
           "failing", "closing", "raising", "ended", "raised"}

TypeOK ==
    /\ arrived \in [Lanes -> 0..Limit]
    /\ kind \in [Lanes -> [Items -> AllKinds \union {"none"}]]
    /\ phase \in [Lanes -> [Items -> Phases]]
    /\ completion \in [Lanes -> [Items -> {"open", "set", "cancelled"}]]
    /\ behind \in [Lanes -> [Items -> 0..Limit]]
    /\ tail \in [Lanes -> 0..Limit]
    /\ answer \in [Lanes -> [Items -> {"none", "acked", "nacked"}]]
    /\ handed \in [Lanes -> SUBSET Items]
    /\ active \subseteq Requests
    /\ streams \subseteq Requests
    /\ inputs \subseteq Lanes
    /\ aborted \subseteq Requests
    /\ jobs \subseteq Requests
    /\ routing \subseteq Requests
    /\ running \in {"running", "stopping", "stopped"}

Init ==
    /\ arrived = [l \in Lanes |-> 0]
    /\ kind = [l \in Lanes |-> [i \in Items |-> "none"]]
    /\ phase = [l \in Lanes |-> [i \in Items |-> "unsent"]]
    /\ completion = [l \in Lanes |-> [i \in Items |-> "open"]]
    /\ behind = [l \in Lanes |-> [i \in Items |-> 0]]
    /\ tail = [l \in Lanes |-> 0]
    /\ answer = [l \in Lanes |-> [i \in Items |-> "none"]]
    /\ handed = [l \in Lanes |-> {}]
    /\ active = {}
    /\ streams = {}
    /\ inputs = {}
    /\ aborted = {}
    /\ jobs = {}
    /\ routing = {}
    /\ running = "running"

-----------------------------------------------------------------------------
(* Requests.                                                               *)

LanesOf(r) == {l \in Lanes : RequestOf[l] = r}

\* clear_request_state
Clear(r) ==
    /\ active' = active \ {r}
    /\ streams' = streams \ {r}
    /\ inputs' = inputs \ LanesOf(r)

\* open_pre_payload_stream_if_allowed returns True: the queue is open, or may
\* be opened before the payload has come.
StreamAllowed(r) == r \in streams \/ "yes" \in PrePayload

\* A stream item or signal of r goes to the scheduler's inbox.
RouteStream(r) ==
    /\ StreamAllowed(r)
    /\ active' = active \union {r}
    /\ streams' = streams \union {r}
    /\ UNCHANGED <<inputs, jobs>>

\* receive_payload_from_stage: the input handler keeps the payload until all
\* the lanes that it waits for have theirs, then execute passes the merged
\* one on.  A payload from a stage it does not wait for is ignored.
ReceivePayload(l) ==
    LET r == RequestOf[l]
        Held == (inputs \union {l}) \intersect LanesOf(r)
    IN  /\ active' = active \union {r}
        /\ streams' = streams \union {r}
        /\ \/ WaitFor = {} /\ jobs' = jobs \union {r} /\ UNCHANGED inputs
           \/ WaitFor # {} /\ l \notin WaitFor /\ UNCHANGED <<jobs, inputs>>
           \/ /\ l \in WaitFor
              /\ IF Held = WaitFor \intersect LanesOf(r)
                 THEN jobs' = jobs \union {r} /\ inputs' = inputs \ LanesOf(r)
                 ELSE inputs' = inputs \union {l} /\ UNCHANGED jobs

\* on_submit.  A request that the stage has aborted is answered by a failure,
\* and its state cleared once more.
Submit(r) ==
    /\ running = "running"
    /\ \/ /\ r \notin aborted
          /\ active' = active \union {r}
          /\ streams' = streams \union {r}
          /\ jobs' = jobs \union {r}
          /\ UNCHANGED inputs
       \/ r \in aborted /\ Clear(r) /\ UNCHANGED jobs
    /\ UNCHANGED <<lanes, aborted, routing, running>>

\* on_abort, called by the abort listener: record it, clear the state and
\* abort the request in the scheduler.
OnAbort(r) ==
    /\ running # "stopped"
    /\ aborted' = aborted \union {r}
    /\ Clear(r)
    /\ jobs' = jobs \ {r}
    /\ UNCHANGED <<lanes, routing, running>>

\* drain_outbox takes a result from the scheduler.  That of a request that is
\* no longer active is dropped.
ResultEmitted(r) ==
    /\ running # "stopped"
    /\ r \in jobs
    /\ routing = {}
    /\ jobs' = jobs \ {r}
    /\ routing' = IF r \in active THEN {r} ELSE {}
    /\ UNCHANGED <<lanes, active, streams, inputs, aborted, running>>

\* route_result has sent it on, and clears the request's state.
ResultRouted(r) ==
    /\ r \in routing
    /\ routing' = {}
    /\ Clear(r)
    /\ UNCHANGED <<lanes, aborted, jobs, running>>

-----------------------------------------------------------------------------
(* The tasks of a lane.                                                    *)

\* schedule_lane_task: a task behind the last one of its lane.
ScheduleTask(l, k) ==
    LET i == arrived[l] + 1
    IN  /\ arrived' = [arrived EXCEPT ![l] = i]
        /\ kind' = [kind EXCEPT ![l][i] = k]
        /\ phase' = [phase EXCEPT ![l][i] = "scheduled"]
        /\ behind' = [behind EXCEPT ![l][i] = tail[l]]
        /\ tail' = [tail EXCEPT ![l] = i]
        /\ UNCHANGED <<completion, answer, handed>>

\* schedule_receive_task.  A request id may be used again, so the kinds come
\* in any order.
MessageArrives(l) ==
    /\ running = "running"
    /\ arrived[l] < Limit
    /\ \E k \in Kinds \ {"batched"} : ScheduleTask(l, k)
    /\ UNCHANGED <<requests, running>>

\* A chunk of a batch that needs no task: routed, or dropped.
NoTask(l, S) ==
    LET i == arrived[l] + 1
    IN  /\ arrived' = [arrived EXCEPT ![l] = i]
        /\ kind' = [kind EXCEPT ![l][i] = "batched"]
        /\ phase' = [phase EXCEPT ![l][i] = "ended"]
        /\ completion' = [completion EXCEPT ![l][i] = "set"]
        /\ handed' = [handed EXCEPT ![l] = @ \union (S \intersect {i})]
        /\ UNCHANGED <<behind, tail, answer>>

\* Mutant: an open stream is enough for a batched chunk to be routed at once.
ChunkOfBatchArrives_Overtakes(l) ==
    LET r == RequestOf[l]
        AtOnce == StreamAllowed(r)
    IN  /\ running = "running"
        /\ "batched" \in Kinds
        /\ arrived[l] < Limit
        /\ \/ r \in aborted /\ NoTask(l, {}) /\ UNCHANGED <<active, streams>>
           \/ /\ r \notin aborted
              /\ active' = active \union {r}
              /\ \/ AtOnce /\ NoTask(l, Items) /\ streams' = streams \union {r}
                 \/ ~AtOnce /\ ScheduleTask(l, "batched") /\ UNCHANGED streams
        /\ UNCHANGED <<inputs, aborted, jobs, routing, running>>

\* schedule_stream_chunk_batch, for one of its chunks: it is routed at once if
\* its lane has no unfinished task, and otherwise behind that task.
ChunkOfBatchArrives(l) ==
    LET r == RequestOf[l]
        AtOnce == tail[l] = 0 /\ StreamAllowed(r)
    IN  /\ running = "running"
        /\ "batched" \in Kinds
        /\ arrived[l] < Limit
        /\ \/ r \in aborted /\ NoTask(l, {}) /\ UNCHANGED <<active, streams>>
           \/ /\ r \notin aborted
              /\ active' = active \union {r}
              /\ \/ AtOnce /\ NoTask(l, Items) /\ streams' = streams \union {r}
                 \/ ~AtOnce /\ ScheduleTask(l, "batched") /\ UNCHANGED streams
        /\ UNCHANGED <<inputs, aborted, jobs, routing, running>>

Become(l, i, p) == phase' = [phase EXCEPT ![l][i] = p]

\* The predecessor future of the task has its result.
Ready(l, i) == \A j \in Items : behind[l][i] = j => completion[l][j] = "set"

\* The end of run_receive_task, once the predecessor is done.
Finish(l, i, p) ==
    /\ Become(l, i, p)
    /\ completion' = [completion EXCEPT ![l][i] = IF @ = "open" THEN "set" ELSE @]
    /\ tail' = [tail EXCEPT ![l] = IF @ = i THEN 0 ELSE @]
    /\ UNCHANGED <<arrived, kind, behind>>

\* Mutant: the message of an aborted request is dropped unread.
Begin_Drops(l, i) ==
    LET r == RequestOf[l]
        k == kind[l][i]
    IN  /\ phase[l][i] = "scheduled"
        /\ \/ k \in Relayed /\ Become(l, i, IF r \in aborted THEN "closing" ELSE "reading")
           \/ k \notin Relayed /\ Become(l, i, "turn")
        /\ UNCHANGED <<arrived, kind, completion, behind, tail, answer, handed>>
        /\ UNCHANGED <<requests, running>>

\* The first step of the task.  What was sent through a relay is read, and
\* that of an aborted request drained; a direct chunk is deserialized, which
\* may fail; a signal and a batched chunk only wait for their turn.  The loop
\* starts tasks in the order of their creation.
Begin(l, i) ==
    LET r == RequestOf[l]
        k == kind[l][i]
    IN  /\ phase[l][i] = "scheduled"
        /\ \A j \in Items : j < i => phase[l][j] # "scheduled"
        /\ \/ k \in Relayed /\ r \notin aborted /\ Become(l, i, "reading")
           \/ k \in Relayed /\ r \in aborted /\ Become(l, i, "draining")
           \/ /\ k = "direct" /\ r \notin aborted
              /\ \E p \in {"turn", "broken"} : Become(l, i, p)
           \/ /\ k = "direct" /\ r \in aborted
              /\ \E p \in {"closing", "raising"} : Become(l, i, p)
           \/ k \notin Relayed \union {"direct"} /\ Become(l, i, "turn")
        /\ active' = IF k \in {"chunk", "direct"} /\ r \notin aborted
                     THEN active \union {r} ELSE active
        /\ UNCHANGED <<arrived, kind, completion, behind, tail, answer, handed,
                       streams, inputs, aborted, jobs, routing, running>>

\* read_data or read_stream_chunk ends, well or badly, and the DataAck is sent.
ReadEnds(l, i) ==
    /\ phase[l][i] = "reading"
    /\ \E a \in {"acked", "nacked"} :
          /\ answer' = [answer EXCEPT ![l][i] = a]
          /\ Become(l, i, IF a = "acked" THEN "turn" ELSE "broken")
    /\ UNCHANGED <<arrived, kind, completion, behind, tail, handed>>
    /\ UNCHANGED <<requests, running>>

\* The same for what is only drained: discard_data, discard_stream_chunk_data.
DrainEnds(l, i) ==
    /\ phase[l][i] = "draining"
    /\ \E a \in {"acked", "nacked"} : answer' = [answer EXCEPT ![l][i] = a]
    /\ Become(l, i, "closing")
    /\ UNCHANGED <<arrived, kind, completion, behind, tail, handed>>
    /\ UNCHANGED <<requests, running>>

\* Sending the DataAck raises.
AckRaises(l, i) ==
    /\ phase[l][i] \in {"reading", "draining"}
    /\ Become(l, i, "raising")
    /\ UNCHANGED <<arrived, kind, completion, behind, tail, answer, handed>>
    /\ UNCHANGED <<requests, running>>

\* send_failure up to its send: the request is aborted from here on.
StartFailure(l, i) ==
    /\ Become(l, i, "failing")
    /\ aborted' = aborted \union {RequestOf[l]}
    /\ UNCHANGED <<arrived, kind, completion, behind, tail, answer, handed>>
    /\ UNCHANGED <<streams, inputs, routing, running>>

\* The request was aborted in the meantime: the message is dropped.
Skip(l, i) ==
    /\ RequestOf[l] \in aborted
    /\ Finish(l, i, "ended")
    /\ UNCHANGED <<answer, handed, requests, running>>

\* The message takes effect, and the task ends.
Hand(l, i) ==
    /\ handed' = [handed EXCEPT ![l] = @ \union {i}]
    /\ Finish(l, i, "ended")
    /\ UNCHANGED <<answer, aborted, routing, running>>

\* queue_stream_error, and the refusal of a stream that the stage does not
\* accept before the payload: the scheduler aborts the request, which fails.
FailStream(l, i) ==
    /\ StartFailure(l, i)
    /\ active' = IF kind[l][i] \in {"done", "error"}
                 THEN active \union {RequestOf[l]} ELSE active
    /\ jobs' = jobs \ {RequestOf[l]}

\* Mutant: a payload is handed on without looking at aborted again.
PayloadTurn_Unchecked(l, i) ==
    /\ phase[l][i] = "turn"
    /\ kind[l][i] = "payload"
    /\ Ready(l, i)
    /\ ReceivePayload(l)
    /\ Hand(l, i)

\* The rest of on_data_ready, after the wait for the predecessor.
PayloadTurn(l, i) ==
    /\ phase[l][i] = "turn"
    /\ kind[l][i] = "payload"
    /\ Ready(l, i)
    /\ \/ Skip(l, i)
       \/ RequestOf[l] \notin aborted /\ ReceivePayload(l) /\ Hand(l, i)

\* Mutant: a chunk goes straight to the inbox, whatever became of its request.
ChunkTurn_Unchecked(l, i) ==
    /\ phase[l][i] = "turn"
    /\ kind[l][i] \in {"chunk", "direct", "batched"}
    /\ Ready(l, i)
    /\ Hand(l, i)
    /\ UNCHANGED <<active, streams, inputs, jobs>>

\* The rest of on_stream_chunk and of route_batched_stream_chunk.
ChunkTurn(l, i) ==
    /\ phase[l][i] = "turn"
    /\ kind[l][i] \in {"chunk", "direct", "batched"}
    /\ Ready(l, i)
    /\ \/ Skip(l, i)
       \/ /\ RequestOf[l] \notin aborted
          /\ \/ RouteStream(RequestOf[l]) /\ Hand(l, i)
             \/ ~StreamAllowed(RequestOf[l]) /\ FailStream(l, i)

\* receive_stream_signal: the end of the stream goes to the inbox, an error
\* fails the request.
SignalTurn(l, i) ==
    /\ phase[l][i] = "turn"
    /\ kind[l][i] \in {"done", "error"}
    /\ Ready(l, i)
    /\ \/ Skip(l, i)
       \/ /\ RequestOf[l] \notin aborted
          /\ \/ kind[l][i] = "done" /\ RouteStream(RequestOf[l]) /\ Hand(l, i)
             \/ /\ kind[l][i] = "error" \/ ~StreamAllowed(RequestOf[l])
                /\ FailStream(l, i)

\* The turn of a message that could not be read.  A payload fails its request
\* whether or not it was aborted, and leaves the scheduler alone.
BrokenTurn(l, i) ==
    /\ phase[l][i] = "broken"
    /\ Ready(l, i)
    /\ \/ kind[l][i] # "payload" /\ Skip(l, i)
       \/ /\ kind[l][i] # "payload" /\ RequestOf[l] \notin aborted
          /\ FailStream(l, i)
       \/ /\ kind[l][i] = "payload"
          /\ StartFailure(l, i)
          /\ UNCHANGED <<active, jobs>>

\* send_failure has sent its CompleteMessage, or raises; either way it clears
\* the request's state.
FailureSent(l, i) ==
    /\ phase[l][i] = "failing"
    /\ \E p \in {"ended", "raised"} : Finish(l, i, p)
    /\ Clear(RequestOf[l])
    /\ UNCHANGED <<answer, handed, aborted, jobs, routing, running>>

\* Mutant: a task that skipped its turn leaves its future open.
Close_Silent(l, i) ==
    /\ phase[l][i] \in {"closing", "raising"}
    /\ Ready(l, i)
    /\ Become(l, i, IF phase[l][i] = "raising" THEN "raised" ELSE "ended")
    /\ tail' = [tail EXCEPT ![l] = IF @ = i THEN 0 ELSE @]
    /\ UNCHANGED <<arrived, kind, completion, behind, answer, handed>>
    /\ UNCHANGED <<requests, running>>

\* The finally clause of run_receive_task, where a task that skipped its turn
\* waits for its predecessor.  If that future was cancelled, so is the task,
\* and its own future is never completed.
Close(l, i) ==
    LET p == IF phase[l][i] = "raising" THEN "raised" ELSE "ended"
    IN  /\ phase[l][i] \in {"closing", "raising"}
        /\ \/ Ready(l, i) /\ Finish(l, i, p)
           \/ /\ \E j \in Items : behind[l][i] = j /\ completion[l][j] = "cancelled"
              /\ Become(l, i, "ended")
              /\ UNCHANGED <<arrived, kind, completion, behind, tail>>
        /\ UNCHANGED <<answer, handed, requests, running>>

-----------------------------------------------------------------------------
(* Stopping.                                                               *)

Live(l, i) == phase[l][i] \notin {"unsent", "ended", "raised"}

\* The task awaits its predecessor's future.  Cancelling it there cancels that
\* future, unless it is done.
Awaiting(l, i) == phase[l][i] \in {"turn", "broken", "closing", "raising"}

\* Where cancel leaves a task.  One that has not begun ends at once, without
\* its finally clause; one whose predecessor is not done finds that future
\* cancelled in its finally clause and ends there; any other can complete.
Cancelled(l, i) ==
    CASE phase[l][i] \in {"reading", "draining", "failing"} -> "closing"
      [] Awaiting(l, i) /\ Ready(l, i) -> "closing"
      [] phase[l][i] \in {"unsent", "raised"} -> phase[l][i]
      [] OTHER -> "ended"

\* stop, up to its gather: after a ShutdownMessage, or when a receive task has
\* raised (on_background_task_done), every receive task is cancelled.
Stop ==
    LET Failing == {RequestOf[l] : l \in {k \in Lanes : \E i \in Items :
                                             phase[k][i] = "failing"}}
    IN  /\ running = "running"
        /\ \/ "shutdown" \in Stops
           \/ \E l \in Lanes, i \in Items : phase[l][i] = "raised"
        /\ running' = "stopping"
        /\ phase' = [l \in Lanes |-> [i \in Items |-> Cancelled(l, i)]]
        /\ completion' = [l \in Lanes |-> [i \in Items |->
               IF /\ completion[l][i] = "open"
                  /\ \E j \in Items : behind[l][j] = i /\ Awaiting(l, j)
               THEN "cancelled" ELSE completion[l][i]]]
        /\ active' = active \ Failing
        /\ streams' = streams \ Failing
        /\ inputs' = {l \in inputs : RequestOf[l] \notin Failing}
        /\ UNCHANGED <<arrived, kind, behind, tail, answer, handed, aborted,
                       jobs, routing>>

\* The gather returns; stop goes on to stop the scheduler, finish the outbox
\* and close the control plane and the relays.
StopEnds ==
    /\ running = "stopping"
    /\ \A l \in Lanes, i \in Items : ~Live(l, i)
    /\ running' = "stopped"
    /\ tail' = [l \in Lanes |-> 0]
    /\ UNCHANGED <<arrived, kind, phase, completion, behind, answer, handed>>
    /\ UNCHANGED requests

-----------------------------------------------------------------------------
TaskStep(l, i) ==
    \/ Begin(l, i)
    \/ ReadEnds(l, i)
    \/ DrainEnds(l, i)
    \/ PayloadTurn(l, i)
    \/ ChunkTurn(l, i)
    \/ SignalTurn(l, i)
    \/ BrokenTurn(l, i)
    \/ FailureSent(l, i)
    \/ Close(l, i)

Next ==
    \/ \E r \in Requests :
          Submit(r) \/ OnAbort(r) \/ ResultEmitted(r) \/ ResultRouted(r)
    \/ \E l \in Lanes : MessageArrives(l) \/ ChunkOfBatchArrives(l)
    \/ \E l \in Lanes, i \in Items : TaskStep(l, i) \/ AckRaises(l, i)
    \/ Stop
    \/ StopEnds

Spec == Init /\ [][Next]_vars

\* asyncio runs every ready task; reads and sends are assumed to end.
LiveSpec ==
    /\ Spec
    /\ \A l \in Lanes, i \in Items : WF_vars(TaskStep(l, i))
    /\ WF_vars(StopEnds)

-----------------------------------------------------------------------------
(* What the stage promises.                                                *)

\* The messages of a lane reach the scheduler in the order in which they
\* arrived and without a hole, although their reads end in any order and
\* batched chunks need no task (schedule_lane_task, run_receive_task,
\* schedule_stream_chunk_batch).  Only a message whose task has raised, which
\* stops the stage, may be missing.
LaneInOrder ==
    \A l \in Lanes : \A i \in handed[l] : \A j \in 1..(i - 1) :
        j \in handed[l] \/ phase[l][j] = "raised"

\* What arrives or is read after the abort of its request leaves nothing
\* behind: the request stays active, keeps its stream queue and its collected
\* inputs only while send_failure is on its way to clear them (on_abort,
\* send_failure, and the checks after each await).
AbortLeavesNothing ==
    \A r \in aborted :
        \/ r \notin active /\ r \notin streams /\ inputs \intersect LanesOf(r) = {}
        \/ \E l \in LanesOf(r), i \in Items : phase[l][i] = "failing"

\* A lane without a tail has no unfinished task, which is why a batched chunk
\* may bypass the tasks; and the tail is the last unfinished task
\* (receive_lane_tails).
TailIsLast ==
    running = "running" =>
        \A l \in Lanes :
            IF tail[l] = 0
            THEN \A i \in Items : ~Live(l, i)
            ELSE Live(l, tail[l]) /\ \A i \in Items : i > tail[l] => ~Live(l, i)

\* A relayed message is answered before its task ends, whatever happens to its
\* request: without the answer the sender would keep its slots
\* (discard_data, discard_stream_chunk_data, send_data_ack).
EndedIsAnswered ==
    running = "running" =>
        \A l \in Lanes, i \in Items :
            phase[l][i] = "ended" /\ kind[l][i] \in Relayed => answer[l][i] # "none"

\* Nothing of a request is handed to the scheduler once it has been aborted,
\* even if it was read before (the checks after wait_for_receive_predecessor).
NothingAfterAbort ==
    [][\A l \in Lanes : handed'[l] # handed[l] => RequestOf[l] \notin aborted]_vars

\* Every message that arrives is dealt with: no task of a lane waits for ever
\* for the others, as long as the stage runs.
TasksEnd ==
    \A l \in Lanes, i \in Items :
        Live(l, i) ~> (~Live(l, i) \/ running # "running")

\* stop returns, after which the relays are closed.
StopReturns == running = "stopping" ~> running = "stopped"
=============================================================================
