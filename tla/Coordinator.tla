---------------------------- MODULE Coordinator ----------------------------
(***************************************************************************)
(* The request side of the pipeline Coordinator                            *)
(* (sglang_omni/pipeline/coordinator.py): submitting a unary or a          *)
(* streaming call, the completion loop, stream delivery under the total    *)
(* backlog cap, aborts, and failing everything when the server stops.      *)
(*                                                                         *)
(* The Coordinator lives on one asyncio loop, so a handler is atomic       *)
(* between two suspension points.  The points that really suspend, and are *)
(* therefore boundaries between actions here, are: the PUSH send of        *)
(* submit_request, the abort task (create_task + shield), the unary        *)
(* caller's await of its future, the reader's queue.get and its yield.     *)
(* Not boundaries: Queue.put on an unbounded queue, and publishing on the  *)
(* PUB socket, which drops instead of waiting; a publish may still raise.  *)
(***************************************************************************)
EXTENDS Integers, Sequences, FiniteSets, FiniteSetsExt

CONSTANTS
    Calls,         \* one element per call of submit() or stream()
    Ids,           \* request ids; two calls may use the same one
    Stages,        \* terminal stages of the pipeline
    NoCall,        \* "absent" in the maps keyed by request id
    IdOf,          \* the request id each call uses
    Streaming,     \* the calls of stream(); the others are calls of submit()
    Expected,      \* resolve_terminal_stages of each call's request
    MaxInFlight,   \* max_in_flight
    MaxBacklog,    \* max_total_backlog_bytes
    ChunkBytes,    \* payload bytes of a stream chunk
    ResultBytes,   \* payload bytes of a successful completion
    MaxChunks,     \* bound: chunks the stages emit per call
    MaxFailures    \* bound: failure messages the stages emit per call

ASSUME CallsAssumption ==
    /\ NoCall \notin Calls
    /\ IdOf \in [Calls -> Ids]
    /\ Streaming \subseteq Calls
    /\ Expected \in [Calls -> SUBSET Stages]

ASSUME BoundsAssumption ==
    /\ MaxInFlight \in Nat
    /\ MaxBacklog \in Nat
    /\ ChunkBytes \in Nat
    /\ ResultBytes \in Nat
    /\ MaxChunks \in Nat
    /\ MaxFailures \in Nat

VARIABLES
    requests,             \* request id -> the call that owns it, or NoCall
    state,                \* RequestInfo.state of each call's request
    completion_futures,   \* request id -> the call whose future is registered
    future,               \* the completion future object of each call
    stream_queues,        \* request id -> the call whose queue is registered
    queue,                \* the queue object of each call
    stream_backlogs,      \* the request ids that have a StreamBacklog
    undelivered,          \* undelivered_bytes, 0 for an id without backlog
    idle_longer,          \* <<i, j>>: i's reader_idle_since_s is before j's
    stream_backlog_bytes, \* the Coordinator's running total
    partial_results,      \* request id -> terminals whose result is collected
    abort_tasks,          \* request id -> the call its abort was created for
    fatal,                \* fatal_error is not None
    dropping,             \* the call whose abort the completion loop awaits
    loop_exited,          \* run_completion_loop has returned
    pc,                   \* where each caller is suspended
    succeeded,            \* the calls that returned a result
    taken,                \* chunks each reader has been given
    completed_stages,     \* terminals whose completion each reader was given
    sent,                 \* ZMQ accepted the call's SubmitMessage
    told,                 \* an abort of the call was published to the stages
    chunks,               \* chunks the stages have emitted for each call
    finished,             \* terminals that have emitted their success
    failures              \* failure messages emitted for each call

requestVars == <<requests, state, partial_results>>
futureVars  == <<completion_futures, future>>
streamVars  == <<stream_queues, queue, stream_backlogs, undelivered,
                 idle_longer, stream_backlog_bytes>>
loopVars    == <<dropping, loop_exited>>
callerVars  == <<pc, succeeded, taken, completed_stages>>
stageVars   == <<chunks, finished, failures>>
vars == <<requestVars, futureVars, streamVars, abort_tasks, fatal, loopVars,
          callerVars, sent, told, stageVars>>

CallOrNone == Calls \cup {NoCall}

Chunk(n)    == [kind |-> "chunk", n |-> n, bytes |-> ChunkBytes]
Complete(s) == [kind |-> "complete", stage |-> s, bytes |-> ResultBytes]
Failure     == [kind |-> "failure", bytes |-> 0]

Message == [kind : {"chunk"}, n : 1..MaxChunks, bytes : {ChunkBytes}]
             \cup [kind : {"complete"}, stage : Stages, bytes : {ResultBytes}]
             \cup {Failure}

\* The types of the maps that register requests, and of the callers they name
RegistryTypeOK ==
    /\ requests \in [Ids -> CallOrNone]
    /\ state \in [Calls -> {"NEW", "PENDING", "RUNNING", "COMPLETED",
                            "FAILED", "ABORTED"}]
    /\ completion_futures \in [Ids -> CallOrNone]
    /\ stream_queues \in [Ids -> CallOrNone]
    /\ stream_backlogs \in SUBSET Ids
    /\ abort_tasks \in [Ids -> CallOrNone]
    /\ fatal \in BOOLEAN
    /\ dropping \in CallOrNone
    /\ pc \in [Calls -> {"new", "sending", "waiting", "release_wait",
                         "release", "close_wait", "close", "done"}]
    /\ sent \in SUBSET Calls
    /\ told \in SUBSET Calls

\* The types of the stream queues and of their accounting
QueueTypeOK ==
    /\ queue \in [Calls -> Seq(Message)]
    /\ undelivered \in [Ids -> Int]
    /\ chunks \in [Calls -> 0..MaxChunks]

\* The types of what the callers hold and have seen, and of what remains
CallerTypeOK ==
    /\ future \in [Calls -> {"unset", "pending", "result", "exception",
                             "cancelled"}]
    /\ idle_longer \in SUBSET (Ids \X Ids)
    /\ partial_results \in [Ids -> SUBSET Stages]
    /\ loop_exited \in BOOLEAN
    /\ succeeded \in SUBSET Calls
    /\ taken \in [Calls -> 0..MaxChunks]
    /\ completed_stages \in [Calls -> SUBSET Stages]
    /\ finished \in [Calls -> SUBSET Stages]
    /\ failures \in [Calls -> 0..MaxFailures]

\* Every map, set and counter keeps its type; in particular the maps only name
\* calls, and a queue only holds messages the stages or the Coordinator made.
\* (stream_backlog_bytes is the number BacklogExact says.)
TypeOK == RegistryTypeOK /\ QueueTypeOK /\ CallerTypeOK

Init ==
    /\ requests = [i \in Ids |-> NoCall]
    /\ state = [c \in Calls |-> "NEW"]
    /\ completion_futures = [i \in Ids |-> NoCall]
    /\ future = [c \in Calls |-> "unset"]
    /\ stream_queues = [i \in Ids |-> NoCall]
    /\ queue = [c \in Calls |-> <<>>]
    /\ stream_backlogs = {}
    /\ undelivered = [i \in Ids |-> 0]
    /\ idle_longer = {}
    /\ stream_backlog_bytes = 0
    /\ partial_results = [i \in Ids |-> {}]
    /\ abort_tasks = [i \in Ids |-> NoCall]
    /\ fatal = FALSE
    /\ dropping = NoCall
    /\ loop_exited = FALSE
    /\ pc = [c \in Calls |-> "new"]
    /\ succeeded = {}
    /\ taken = [c \in Calls |-> 0]
    /\ completed_stages = [c \in Calls |-> {}]
    /\ sent = {}
    /\ told = {}
    /\ chunks = [c \in Calls |-> 0]
    /\ finished = [c \in Calls |-> {}]
    /\ failures = [c \in Calls |-> 0]

----------------------------------------------------------------------------
(* Stream backlogs                                                         *)

Forget(i) == {p \in idle_longer : p[1] # i /\ p[2] # i}

\* reader_idle_since_s = time.monotonic(): every other reader is idle longer
Touch(i) == Forget(i) \cup {<<j, i>> : j \in stream_backlogs \ {i}}

\* Fault: the running total keeps the bytes of a backlog that is gone
PopBacklog_TotalKept(i) ==
    /\ stream_backlogs' = stream_backlogs \ {i}
    /\ undelivered' = [undelivered EXCEPT ![i] = 0]
    /\ idle_longer' = Forget(i)
    /\ UNCHANGED stream_backlog_bytes

PopBacklog(i) ==
    /\ stream_backlogs' = stream_backlogs \ {i}
    /\ undelivered' = [undelivered EXCEPT ![i] = 0]
    /\ stream_backlog_bytes' = stream_backlog_bytes - undelivered[i]
    /\ idle_longer' = Forget(i)

\* The finally blocks of stream() and of release_submission()
PopSubmission(i) ==
    /\ completion_futures' = [completion_futures EXCEPT ![i] = NoCall]
    /\ stream_queues' = [stream_queues EXCEPT ![i] = NoCall]
    /\ PopBacklog(i)

\* Longest idle first, streams fail until the rest fits under the cap: i fails
\* when failing every stream that is idle longer than i was not enough.
StreamsToFail(bytes, total, longer) ==
    {i \in Ids :
        /\ bytes[i] > 0
        /\ LET before == {j \in Ids : <<j, i>> \in longer} IN
           total - MapThenSumSet(LAMBDA j : bytes[j], before) > MaxBacklog}

\* msg is put on i's queue; the queues of failed streams are drained and get
\* the failure instead
QueuesAfter(i, msg, failed) ==
    [c \in Calls |->
        IF \E j \in failed : stream_queues[j] = c THEN <<Failure>>
        ELSE IF stream_queues[i] = c THEN Append(queue[c], msg)
        ELSE queue[c]]

\* Fault: over the cap, the message is dropped instead of a stream
QueueStreamMessage_DropMessage(i, msg, R, S, P) ==
    LET fits == stream_backlog_bytes + msg.bytes <= MaxBacklog IN
    /\ queue' = IF fits THEN QueuesAfter(i, msg, {}) ELSE queue
    /\ undelivered' = IF fits THEN [undelivered EXCEPT ![i] = @ + msg.bytes]
                      ELSE undelivered
    /\ stream_backlog_bytes' =
           IF fits THEN stream_backlog_bytes + msg.bytes ELSE stream_backlog_bytes
    /\ idle_longer' = IF undelivered[i] = 0 THEN Touch(i) ELSE idle_longer
    /\ requests' = R /\ state' = S /\ partial_results' = P
    /\ UNCHANGED <<stream_backlogs, completion_futures, told, stream_queues>>

\* queue_stream_message(i, msg), from the requests R, states S and partial
\* results P its caller leaves behind.  reached: the failed streams whose abort
\* could be published.
QueueStreamMessage(i, msg, R, S, P) ==
    LET bytes  == [undelivered EXCEPT ![i] = @ + msg.bytes]
        total  == stream_backlog_bytes + msg.bytes
        longer == IF undelivered[i] = 0 THEN Touch(i) ELSE idle_longer
        failed == StreamsToFail(bytes, total, longer)
        active == {j \in failed : R[j] # NoCall /\ S[R[j]] # "FAILED"}
    IN
    \E reached \in SUBSET active :
        /\ stream_backlogs' = stream_backlogs \ failed
        /\ undelivered' = [j \in Ids |-> IF j \in failed THEN 0 ELSE bytes[j]]
        /\ stream_backlog_bytes' =
               total - MapThenSumSet(LAMBDA j : bytes[j], failed)
        /\ idle_longer' =
               {p \in longer : p[1] \notin failed /\ p[2] \notin failed}
        /\ completion_futures' =
               [j \in Ids |-> IF j \in failed THEN NoCall
                              ELSE completion_futures[j]]
        /\ queue' = QueuesAfter(i, msg, failed)
        /\ requests' = [j \in Ids |-> IF j \in reached THEN NoCall ELSE R[j]]
        /\ state' = [c \in Calls |->
               IF \E j \in active : R[j] = c THEN "FAILED" ELSE S[c]]
        /\ partial_results' = [j \in Ids |-> IF j \in active THEN {} ELSE P[j]]
        /\ told' = told \cup {R[j] : j \in reached}
        /\ UNCHANGED stream_queues

\* reject_completion_future for every id in I
RejectFutures(I) ==
    [c \in Calls |->
        LET registered == {i \in I : completion_futures[i] = c} IN
        IF registered = {} \/ future[c] # "pending" THEN future[c]
        ELSE IF \E i \in registered : stream_queues[i] # NoCall
        THEN "cancelled" ELSE "exception"]

\* Fault: only the futures hear of the failure
PutFailures_None(I) == queue

\* A failed CompleteMessage is put on the stream queue of every id in I
PutFailures(I) ==
    [c \in Calls |-> IF \E i \in I : stream_queues[i] = c
                     THEN Append(queue[c], Failure) ELSE queue[c]]

----------------------------------------------------------------------------
(* abort()                                                                 *)

\* abort(i) creates a task
AbortStarts(i) ==
    /\ abort_tasks[i] = NoCall
    /\ requests[i] # NoCall
    /\ state[requests[i]] \notin {"COMPLETED", "ABORTED"}

\* abort(i) suspends its caller: it joins a task or creates one
AbortSuspends(i) == abort_tasks[i] # NoCall \/ AbortStarts(i)

BeginAbort(i) ==
    abort_tasks' = IF AbortStarts(i)
                   THEN [abort_tasks EXCEPT ![i] = requests[i]]
                   ELSE abort_tasks

\* Client.abort, or the aborts that end pause_generation
Abort(i) ==
    /\ AbortStarts(i)
    /\ BeginAbort(i)
    /\ UNCHANGED <<requestVars, futureVars, streamVars, fatal, loopVars,
                   callerVars, sent, told, stageVars>>

\* The callers suspended in abort(i) are scheduled again
WakeAborters(i) ==
    [c \in Calls |->
        IF IdOf[c] = i /\ pc[c] = "release_wait" THEN "release"
        ELSE IF IdOf[c] = i /\ pc[c] = "close_wait" THEN "close"
        ELSE pc[c]]

\* The completion loop is suspended in abort(i)
LoopAwaits(i) == dropping # NoCall /\ IdOf[dropping] = i

\* run_abort whose broadcast is published, with its done callback.  A
\* completion loop that awaits this task goes back to receiving.
RunAbort(i) ==
    LET c == requests[i] IN
    /\ abort_tasks[i] # NoCall
    /\ IF c = NoCall
       THEN UNCHANGED <<requestVars, future, queue>>
       ELSE /\ requests' = [requests EXCEPT ![i] = NoCall]
            /\ state' = [state EXCEPT ![c] = "ABORTED"]
            /\ partial_results' = [partial_results EXCEPT ![i] = {}]
            /\ future' = RejectFutures({i})
            /\ queue' = PutFailures({i})
    /\ abort_tasks' = [abort_tasks EXCEPT ![i] = NoCall]
    /\ told' = told \cup {abort_tasks[i]}
    /\ pc' = WakeAborters(i)
    /\ IF LoopAwaits(i)
       THEN dropping' = NoCall /\ loop_exited' = fatal
       ELSE UNCHANGED loopVars
    /\ UNCHANGED <<completion_futures, stream_queues, stream_backlogs,
                   undelivered, idle_longer, stream_backlog_bytes, fatal,
                   succeeded, taken, completed_stages, sent, stageVars>>

\* run_abort whose broadcast raises: the request stays owned
FailAbort(i) ==
    /\ abort_tasks[i] # NoCall
    /\ ~LoopAwaits(i)
    /\ abort_tasks' = [abort_tasks EXCEPT ![i] = NoCall]
    /\ pc' = WakeAborters(i)
    /\ UNCHANGED <<requestVars, futureVars, streamVars, fatal, loopVars,
                   succeeded, taken, completed_stages, sent, told, stageVars>>

----------------------------------------------------------------------------
(* The completion loop                                                     *)

LoopReady == dropping = NoCall /\ ~loop_exited

\* The loop goes around: while self.running
LoopAgain == loop_exited' = fatal /\ UNCHANGED dropping

\* Fault: a request that failed but is still owned is taken for active
Ignores_OnlyAbsent(i) == requests[i] = NoCall

\* handle_completion ignores what is not, or no longer, an active request
Ignores(i) == requests[i] = NoCall \/ state[requests[i]] = "FAILED"

\* Fault: the request is dropped although its abort was not delivered
FailRequest_DropsUndelivered(i, c, ok) ==
    /\ state' = [state EXCEPT ![c] = "FAILED"]
    /\ requests' = [requests EXCEPT ![i] = NoCall]
    /\ told' = IF ok THEN told \cup {c} ELSE told
    /\ partial_results' = [partial_results EXCEPT ![i] = {}]
    /\ future' = RejectFutures({i})
    /\ queue' = PutFailures({i})
    /\ UNCHANGED <<completion_futures, stream_queues, stream_backlogs,
                   undelivered, idle_longer, stream_backlog_bytes>>

\* Fault: the request is kept, and its partial results with it
FailRequest_Keeps(i, c, ok) ==
    /\ state' = [state EXCEPT ![c] = "FAILED"]
    /\ told' = IF ok THEN told \cup {c} ELSE told
    /\ future' = RejectFutures({i})
    /\ queue' = PutFailures({i})
    /\ UNCHANGED <<requests, partial_results, completion_futures,
                   stream_queues, stream_backlogs, undelivered, idle_longer,
                   stream_backlog_bytes>>

\* The fail-fast branch of handle_completion for the request of call c; ok:
\* its abort could be published
FailRequest(i, c, ok) ==
    /\ state' = [state EXCEPT ![c] = "FAILED"]
    /\ requests' = IF ok THEN [requests EXCEPT ![i] = NoCall] ELSE requests
    /\ told' = IF ok THEN told \cup {c} ELSE told
    /\ partial_results' = [partial_results EXCEPT ![i] = {}]
    /\ future' = RejectFutures({i})
    /\ queue' = PutFailures({i})
    /\ UNCHANGED <<completion_futures, stream_queues, stream_backlogs,
                   undelivered, idle_longer, stream_backlog_bytes>>

\* A stage reports that it failed call c
HandleFailure(c) ==
    LET i == IdOf[c] IN
    /\ LoopReady
    /\ c \in sent /\ failures[c] < MaxFailures /\ finished[c] # Stages
    /\ failures' = [failures EXCEPT ![c] = @ + 1]
    /\ IF Ignores(i)
       THEN UNCHANGED <<requestVars, futureVars, streamVars, told>>
       ELSE \E ok \in BOOLEAN : FailRequest(i, requests[i], ok)
    /\ LoopAgain
    /\ UNCHANGED <<abort_tasks, fatal, callerVars, sent, chunks, finished>>

\* A stage reports that an admin action dropped call c: the loop aborts it
HandleAdminDrop(c) ==
    LET i == IdOf[c] IN
    /\ LoopReady
    /\ c \in sent /\ failures[c] < MaxFailures /\ finished[c] # Stages
    /\ ~Ignores(i)
    /\ failures' = [failures EXCEPT ![c] = @ + 1]
    /\ BeginAbort(i)
    /\ dropping' = requests[i]
    /\ UNCHANGED <<requestVars, futureVars, streamVars, fatal, loop_exited,
                   callerVars, sent, told, chunks, finished>>

\* run_abort raises under the completion loop, which falls back to failing the
\* request.  The loop is woken by the next turns of the event loop, before any
\* abort task created in between can have ended, so this is one step.
FailDroppedAbort(i) ==
    /\ abort_tasks[i] # NoCall
    /\ LoopAwaits(i)
    /\ abort_tasks' = [abort_tasks EXCEPT ![i] = NoCall]
    /\ pc' = WakeAborters(i)
    /\ \E ok \in BOOLEAN : FailRequest(i, dropping, ok)
    /\ dropping' = NoCall /\ loop_exited' = fatal
    /\ UNCHANGED <<fatal, succeeded, taken, completed_stages, sent, stageVars>>

\* Fault: the first terminal to finish resolves the request
Completes_First(o, parts) == parts # {}

\* The request of call o has heard from every terminal it waits for
Completes(o, parts) ==
    Cardinality(Expected[o]) <= 1 \/ Expected[o] \subseteq parts

\* Terminal s reports the success of call c
HandleSuccess(c, s) ==
    LET i        == IdOf[c]
        o        == requests[i]
        parts    == partial_results[i] \cup {s}
        single   == Cardinality(Expected[o]) <= 1
        complete == Completes(o, parts)
        R == IF complete THEN [requests EXCEPT ![i] = NoCall] ELSE requests
        S == IF complete THEN [state EXCEPT ![o] = "COMPLETED"] ELSE state
        P == IF single THEN partial_results
             ELSE [partial_results EXCEPT ![i] = IF complete THEN {} ELSE parts]
    IN
    /\ LoopReady
    /\ c \in sent /\ s \notin finished[c]
    /\ finished' = [finished EXCEPT ![c] = @ \cup {s}]
    /\ IF Ignores(i) \/ (Expected[o] # {} /\ s \notin Expected[o])
       THEN UNCHANGED <<requestVars, futureVars, streamVars, told>>
       ELSE /\ future' = IF /\ complete
                            /\ completion_futures[i] # NoCall
                            /\ future[completion_futures[i]] = "pending"
                         THEN [future EXCEPT
                                   ![completion_futures[i]] = "result"]
                         ELSE future
            /\ IF stream_queues[i] # NoCall
               THEN QueueStreamMessage(i, Complete(s), R, S, P)
               ELSE /\ requests' = R /\ state' = S /\ partial_results' = P
                    /\ UNCHANGED <<completion_futures, streamVars, told>>
    /\ LoopAgain
    /\ UNCHANGED <<abort_tasks, fatal, callerVars, sent, chunks, failures>>

\* handle_stream: the next chunk of call c arrives
HandleStream(c) ==
    LET i == IdOf[c] IN
    /\ LoopReady
    /\ c \in sent /\ chunks[c] < MaxChunks /\ finished[c] # Stages
    /\ chunks' = [chunks EXCEPT ![c] = @ + 1]
    /\ IF i \in stream_backlogs
       THEN QueueStreamMessage(i, Chunk(chunks[c] + 1), requests, state,
                               partial_results)
       ELSE UNCHANGED <<requestVars, completion_futures, streamVars, told>>
    /\ LoopAgain
    /\ UNCHANGED <<future, abort_tasks, fatal, callerVars, sent, finished,
                   failures>>

\* fail_pending_requests, on a fatal stage error or from stop()
FailPendingRequests ==
    LET owned == {i \in Ids : requests[i] # NoCall} IN
    /\ ~fatal
    /\ fatal' = TRUE
    /\ state' = [c \in Calls |-> IF \E i \in owned : requests[i] = c
                                 THEN "FAILED" ELSE state[c]]
    /\ future' = RejectFutures(owned)
    /\ queue' = PutFailures(owned)
    /\ requests' = [i \in Ids |-> NoCall]
    /\ partial_results' = [i \in Ids |-> {}]
    /\ UNCHANGED <<completion_futures, stream_queues, stream_backlogs,
                   undelivered, idle_longer, stream_backlog_bytes, abort_tasks,
                   loopVars, callerVars, sent, told, stageVars>>

----------------------------------------------------------------------------
(* Callers: submit() and stream()                                          *)

\* Fault: a pending abort does not reserve its id
Reserved_NoAbortTasks(i) ==
    \/ requests[i] # NoCall
    \/ completion_futures[i] # NoCall
    \/ stream_queues[i] # NoCall

\* Fault: the id is free once its request is no longer tracked
Reserved_RequestOnly(i) == requests[i] # NoCall \/ abort_tasks[i] # NoCall

\* request_id_is_reserved
Reserved(i) ==
    \/ requests[i] # NoCall
    \/ completion_futures[i] # NoCall
    \/ stream_queues[i] # NoCall
    \/ abort_tasks[i] # NoCall

InFlight == {i \in Ids : requests[i] # NoCall}

\* Fault: one request too many
Admits_OneMore(i) ==
    ~fatal /\ ~Reserved(i) /\ Cardinality(InFlight) <= MaxInFlight

\* Fault: submissions go on after a fatal error
Admits_Stopped(i) == ~Reserved(i) /\ Cardinality(InFlight) < MaxInFlight

\* The checks of submit_request that come before it tracks the request
Admits(i) == ~fatal /\ ~Reserved(i) /\ Cardinality(InFlight) < MaxInFlight

Refuse(c) ==
    /\ pc[c] = "new"
    /\ ~Admits(IdOf[c])
    /\ pc' = [pc EXCEPT ![c] = "done"]
    /\ UNCHANGED <<requestVars, futureVars, streamVars, abort_tasks, fatal,
                   loopVars, succeeded, taken, completed_stages, sent, told,
                   stageVars>>

\* submit_request up to its send
Submit(c) ==
    LET i == IdOf[c] IN
    /\ pc[c] = "new"
    /\ Admits(i)
    /\ requests' = [requests EXCEPT ![i] = c]
    /\ state' = [state EXCEPT ![c] = "PENDING"]
    /\ completion_futures' = [completion_futures EXCEPT ![i] = c]
    /\ future' = [future EXCEPT ![c] = "pending"]
    /\ IF c \in Streaming
       THEN /\ stream_queues' = [stream_queues EXCEPT ![i] = c]
            /\ stream_backlogs' = stream_backlogs \cup {i}
            /\ idle_longer' = Touch(i)
       ELSE UNCHANGED <<stream_queues, stream_backlogs, idle_longer>>
    /\ pc' = [pc EXCEPT ![c] = "sending"]
    /\ UNCHANGED <<queue, undelivered, stream_backlog_bytes, partial_results,
                   abort_tasks, fatal, loopVars, succeeded, taken,
                   completed_stages, sent, told, stageVars>>

\* The send is accepted and submit_request returns.  Its caller is scheduled
\* before an answer of the stage can be.
SendDone(c) ==
    LET o == requests[IdOf[c]] IN
    /\ pc[c] = "sending"
    /\ pc' = [pc EXCEPT ![c] = "waiting"]
    /\ sent' = sent \cup {c}
    /\ state' = IF o # NoCall THEN [state EXCEPT ![o] = "RUNNING"] ELSE state
    /\ UNCHANGED <<requests, partial_results, futureVars, streamVars,
                   abort_tasks, fatal, loopVars, succeeded, taken,
                   completed_stages, told, stageVars>>

\* The outer finally block of stream(): a call that still holds its queue
\* aborts the request it owns, then gives everything back.  Does nothing for a
\* unary call.
CloseStream(c) ==
    LET i == IdOf[c] IN
    IF stream_queues[i] # c
    THEN /\ pc' = [pc EXCEPT ![c] = "done"]
         /\ UNCHANGED <<completion_futures, stream_queues, stream_backlogs,
                        undelivered, idle_longer, stream_backlog_bytes,
                        abort_tasks>>
    ELSE /\ BeginAbort(i)
         /\ IF requests[i] # NoCall /\ AbortSuspends(i)
            THEN /\ pc' = [pc EXCEPT ![c] = "close_wait"]
                 /\ UNCHANGED <<completion_futures, stream_queues,
                                stream_backlogs, undelivered, idle_longer,
                                stream_backlog_bytes>>
            ELSE /\ pc' = [pc EXCEPT ![c] = "done"]
                 /\ PopSubmission(i)

\* release_submission: settle the future, then abort; only an abort that
\* suspends delays the finally block
ReleaseSubmission(c) ==
    LET i == IdOf[c] IN
    IF completion_futures[i] # c
    THEN CloseStream(c) /\ UNCHANGED future
    ELSE /\ future' = IF future[c] = "pending"
                      THEN [future EXCEPT ![c] = "cancelled"] ELSE future
         /\ BeginAbort(i)
         /\ IF AbortSuspends(i)
            THEN /\ pc' = [pc EXCEPT ![c] = "release_wait"]
                 /\ UNCHANGED <<completion_futures, stream_queues,
                                stream_backlogs, undelivered, idle_longer,
                                stream_backlog_bytes>>
            ELSE /\ pc' = [pc EXCEPT ![c] = "done"]
                 /\ PopSubmission(i)

\* The send raises: no stage holds the request, it is dropped unaborted.  A
\* client's abort that is already under way is still joined, unless the cap has
\* removed the future meanwhile.
SendFails(c) ==
    LET i == IdOf[c] IN
    /\ pc[c] = "sending"
    /\ requests' = [requests EXCEPT ![i] = NoCall]
    /\ future' = IF completion_futures[i] = c /\ future[c] = "pending"
                 THEN [future EXCEPT ![c] = "cancelled"] ELSE future
    /\ IF completion_futures[i] = c /\ abort_tasks[i] # NoCall
       THEN /\ pc' = [pc EXCEPT ![c] = "release_wait"]
            /\ UNCHANGED <<completion_futures, streamVars>>
       ELSE /\ pc' = [pc EXCEPT ![c] = "done"]
            /\ PopSubmission(i)
            /\ UNCHANGED queue
    /\ UNCHANGED <<state, partial_results, abort_tasks, fatal, loopVars,
                   succeeded, taken, completed_stages, sent, told, stageVars>>

\* The caller is cancelled in the send, which ZMQ may have accepted
SendCancelled(c) ==
    /\ pc[c] = "sending"
    /\ \E accepted \in BOOLEAN :
           sent' = IF accepted THEN sent \cup {c} ELSE sent
    /\ ReleaseSubmission(c)
    /\ UNCHANGED <<requestVars, queue, fatal, loopVars, succeeded, taken,
                   completed_stages, told, stageVars>>

\* submit(): the future is done
Return(c) ==
    /\ pc[c] = "waiting" /\ c \notin Streaming
    /\ future[c] # "pending"
    /\ succeeded' = IF future[c] = "result" THEN succeeded \cup {c}
                    ELSE succeeded
    /\ ReleaseSubmission(c)
    /\ UNCHANGED <<requestVars, queue, fatal, loopVars, taken, completed_stages,
                   sent, told, stageVars>>

\* submit(): the caller is cancelled while it awaits the future
Cancel(c) ==
    /\ pc[c] = "waiting" /\ c \notin Streaming
    /\ future[c] = "pending"
    /\ ReleaseSubmission(c)
    /\ UNCHANGED <<requestVars, queue, fatal, loopVars, succeeded, taken,
                   completed_stages, sent, told, stageVars>>

\* The finally block of release_submission, once its abort has ended or its
\* caller is cancelled out of waiting for it.  A stream whose future the cap
\* has removed meanwhile is given back by stream() instead.
ReleaseFinally(c) ==
    LET i == IdOf[c] IN
    /\ pc[c] \in {"release_wait", "release"}
    /\ IF completion_futures[i] = c
       THEN /\ pc' = [pc EXCEPT ![c] = "done"]
            /\ PopSubmission(i)
            /\ UNCHANGED abort_tasks
       ELSE CloseStream(c)
    /\ UNCHANGED <<requestVars, future, queue, fatal, loopVars, succeeded,
                   taken, completed_stages, sent, told, stageVars>>

\* stream(): the reader has been given every terminal it expects
StreamEnded(c) ==
    completed_stages[c] # {} /\ Expected[c] \subseteq completed_stages[c]

\* The reader takes a chunk or a completion and yields it
Take(c) ==
    LET i == IdOf[c]
        m == Head(queue[c])
    IN
    /\ pc[c] = "waiting" /\ c \in Streaming /\ ~StreamEnded(c)
    /\ queue[c] # <<>> /\ m.kind # "failure"
    /\ i \in stream_backlogs       \* else a KeyError: see LookupsSucceed
    /\ queue' = [queue EXCEPT ![c] = Tail(@)]
    /\ undelivered' = [undelivered EXCEPT ![i] = @ - m.bytes]
    /\ stream_backlog_bytes' = stream_backlog_bytes - m.bytes
    /\ idle_longer' = Touch(i)
    /\ taken' = IF m.kind = "chunk" THEN [taken EXCEPT ![c] = m.n] ELSE taken
    /\ completed_stages' = IF m.kind = "complete"
           THEN [completed_stages EXCEPT ![c] = @ \cup {m.stage}]
           ELSE completed_stages
    /\ UNCHANGED <<requestVars, futureVars, stream_queues, stream_backlogs,
                   abort_tasks, fatal, loopVars, pc, succeeded, sent, told,
                   stageVars>>

\* The reader takes a failure and raises it
TakeFailure(c) ==
    /\ pc[c] = "waiting" /\ c \in Streaming /\ ~StreamEnded(c)
    /\ queue[c] # <<>> /\ Head(queue[c]).kind = "failure"
    /\ queue' = [queue EXCEPT ![c] = Tail(@)]
    /\ CloseStream(c)
    /\ UNCHANGED <<requestVars, future, fatal, loopVars, succeeded, taken,
                   completed_stages, sent, told, stageVars>>

\* The reader returns after the last completion
EndStream(c) ==
    /\ pc[c] = "waiting" /\ c \in Streaming /\ StreamEnded(c)
    /\ succeeded' = succeeded \cup {c}
    /\ CloseStream(c)
    /\ UNCHANGED <<requestVars, future, queue, fatal, loopVars, taken,
                   completed_stages, sent, told, stageVars>>

\* The consumer closes the generator, or is cancelled in queue.get
CloseEarly(c) ==
    /\ pc[c] = "waiting" /\ c \in Streaming /\ ~StreamEnded(c)
    /\ CloseStream(c)
    /\ UNCHANGED <<requestVars, future, queue, fatal, loopVars, succeeded,
                   taken, completed_stages, sent, told, stageVars>>

\* The inner finally block of stream(), once its abort has ended or its
\* consumer is cancelled out of waiting for it
CloseFinally(c) ==
    LET i == IdOf[c] IN
    /\ pc[c] \in {"close_wait", "close"}
    /\ pc' = [pc EXCEPT ![c] = "done"]
    /\ IF stream_queues[i] = c
       THEN PopSubmission(i) /\ UNCHANGED queue
       ELSE UNCHANGED <<completion_futures, streamVars>>
    /\ UNCHANGED <<requestVars, future, abort_tasks, fatal, loopVars, succeeded,
                   taken, completed_stages, sent, told, stageVars>>

----------------------------------------------------------------------------
Next ==
    \/ \E c \in Calls : \/ Submit(c) \/ Refuse(c)
                        \/ SendDone(c) \/ SendFails(c) \/ SendCancelled(c)
                        \/ Return(c) \/ Cancel(c) \/ ReleaseFinally(c)
                        \/ Take(c) \/ TakeFailure(c) \/ EndStream(c)
                        \/ CloseEarly(c) \/ CloseFinally(c)
                        \/ HandleFailure(c) \/ HandleAdminDrop(c)
                        \/ HandleStream(c)
    \/ \E c \in Calls, s \in Stages : HandleSuccess(c, s)
    \/ \E i \in Ids : \/ Abort(i) \/ RunAbort(i) \/ FailAbort(i)
                      \/ FailDroppedAbort(i)
    \/ FailPendingRequests

Spec == Init /\ [][Next]_vars

\* What the event loop guarantees: a send ends, a created abort task runs, a
\* caller that can continue does, and a reader keeps reading.  Nothing is
\* assumed of the stages or of the clients.
Fairness ==
    /\ \A c \in Calls :
           /\ WF_vars(SendDone(c) \/ SendFails(c))
           /\ WF_vars(Return(c))
           /\ WF_vars(pc[c] = "release" /\ ReleaseFinally(c))
           /\ WF_vars(Take(c) \/ TakeFailure(c) \/ EndStream(c))
           /\ WF_vars(pc[c] = "close" /\ CloseFinally(c))
    /\ \A i \in Ids :
           WF_vars(RunAbort(i) \/ FailAbort(i) \/ FailDroppedAbort(i))

FairSpec == Spec /\ Fairness

----------------------------------------------------------------------------
(* Properties                                                              *)

\* The calls that hold some registration of request id i
Holders(i) ==
    {requests[i], completion_futures[i], stream_queues[i]} \ {NoCall}

\* The three maps that register one submission never name two calls: a second
\* call never takes over a request id, a future or a queue while an earlier
\* call with that id still holds any of them (request_id_is_reserved).
OneOwner == \A i \in Ids : \A c, d \in Holders(i) : c = d /\ IdOf[c] = i

\* An abort carries only the request id.  The abort task created for one call
\* never runs against another: while the task exists, no other call owns the
\* id, waits on its future or reads its queue (abort_tasks in
\* request_id_is_reserved).
AbortHitsItsCall ==
    \A i \in Ids : abort_tasks[i] # NoCall => Holders(i) \subseteq {abort_tasks[i]}

\* The dictionary lookups that would raise KeyError out of the completion
\* loop, ending it for every request, always succeed: queue_stream_message
\* finds the backlog of a stream it completes, and the future of a stream it
\* fails.  The reader finds its backlog when it takes anything but a failure.
LookupsSucceed ==
    /\ \A i \in Ids :
           ~Ignores(i) /\ stream_queues[i] # NoCall => i \in stream_backlogs
    /\ \A i \in stream_backlogs :
           completion_futures[i] # NoCall /\ stream_queues[i] # NoCall
    /\ \A c \in Calls :
           /\ pc[c] = "waiting" /\ c \in Streaming
           /\ queue[c] # <<>> /\ Head(queue[c]).kind # "failure"
           => IdOf[c] \in stream_backlogs

\* Whatever a stage may still be working on stays owned, with its id and its
\* admission slot, until the stages are told to abort it, it completes, or the
\* Coordinator stops: no failed broadcast, cancelled caller or cancelled send
\* orphans a request that was sent.
SentStaysOwned ==
    \A c \in sent : \/ requests[IdOf[c]] = c
                    \/ c \in told
                    \/ state[c] = "COMPLETED"
                    \/ fatal

\* A request is still owned in state FAILED only when its abort was not
\* delivered, which is why abort() retries it.
FailedOwnedIsUntold ==
    \A c \in Calls :
        requests[IdOf[c]] = c /\ state[c] = "FAILED" => c \notin told

\* Partial results of a multi-terminal request never outlive it: they would
\* resolve the next request with the same id too early.
PartialsHaveOwner ==
    \A i \in Ids : partial_results[i] # {} =>
        /\ ~Ignores(i)
        /\ partial_results[i] \subseteq Expected[requests[i]]
        /\ partial_results[i] # Expected[requests[i]]

\* submit_request's admission check bounds the requests that are tracked, the
\* ones kept only because their abort failed included.
AdmissionBounded == Cardinality(InFlight) <= MaxInFlight

\* The accounting of the backlog cap is exact: an id's undelivered bytes are
\* those in its queue, the running total is their sum, and it fits the cap
\* after every handler, whatever was taken, failed, closed or released.
BacklogExact ==
    /\ \A i \in Ids :
           undelivered[i] =
               IF i \in stream_backlogs
               THEN LET q == queue[stream_queues[i]] IN
                    MapThenSumSet(LAMBDA k : q[k].bytes, DOMAIN q)
               ELSE 0
    /\ stream_backlog_bytes = MapThenSumSet(LAMBDA i : undelivered[i], Ids)
    /\ stream_backlog_bytes <= MaxBacklog

\* A reader never sees a gap: the chunks in front of it, up to a failure, are
\* the successors of the ones it was given.  The cap fails whole streams, it
\* never drops a chunk.
NoGap ==
    \A c \in Calls : \A k \in DOMAIN queue[c] :
        (\A j \in 1..k : queue[c][j].kind = "chunk")
            => queue[c][k].n = taken[c] + k

\* A call is told it succeeded only when every terminal stage it expects has
\* reported success, in whichever order they do.
SuccessIsWhole ==
    \A c \in Calls : c \in succeeded =>
        /\ Expected[c] \subseteq finished[c]
        /\ finished[c] # {}

\* A reader or an awaiting caller whose request the Coordinator no longer
\* tracks, or has failed, is eventually released: none waits forever for a
\* message nobody will send.
Answered ==
    \A c \in Calls :
        (pc[c] # "new" /\ (requests[IdOf[c]] # c \/ state[c] = "FAILED"))
            ~> (pc[c] = "done")

\* After fail_pending_requests every caller returns and every request id is
\* given back.
StopReleasesAll ==
    fatal ~> [](/\ \A c \in Calls : pc[c] \in {"new", "done"}
                /\ \A i \in Ids : ~Reserved(i))

============================================================================
