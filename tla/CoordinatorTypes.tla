-------------------------- MODULE CoordinatorTypes --------------------------
(*****************************************************************************)
(* Every step of the Coordinator keeps the types of its maps, for any number *)
(* of calls, ids and terminal stages and any bounds.                         *)
(*****************************************************************************)
EXTENDS Coordinator, TLAPS

\* What queue_stream_message does to the registries, without its arithmetic: it
\* fails a set of streams, aborts the requests of those still active, and
\* untracks the ones whose abort could be published.
Settles(i, m, R, S, failed, reached) ==
    LET bytes  == [undelivered EXCEPT ![i] = @ + m.bytes]
        active == {j \in failed : R[j] # NoCall /\ S[R[j]] # "FAILED"}
    IN
    /\ \A j \in failed : bytes[j] > 0
    /\ reached \subseteq active
    /\ stream_backlogs' = stream_backlogs \ failed
    /\ undelivered' = [j \in Ids |-> IF j \in failed THEN 0 ELSE bytes[j]]
    /\ completion_futures' = [j \in Ids |->
           IF j \in failed THEN NoCall ELSE completion_futures[j]]
    /\ queue' = QueuesAfter(i, m, failed)
    /\ requests' = [j \in Ids |-> IF j \in reached THEN NoCall ELSE R[j]]
    /\ state' = [c \in Calls |->
           IF \E j \in active : R[j] = c THEN "FAILED" ELSE S[c]]
    /\ told' = told \cup {R[j] : j \in reached}
    /\ stream_queues' = stream_queues

\* queue_stream_message settles some set of streams, possibly none.
LEMMA QueueEffect ==
    ASSUME NEW i, NEW m, NEW R, NEW S, NEW P,
           QueueStreamMessage(i, m, R, S, P)
    PROVE  \E failed, reached \in SUBSET Ids : Settles(i, m, R, S, failed, reached)
<1> DEFINE bytes  == [undelivered EXCEPT ![i] = @ + m.bytes]
           total  == stream_backlog_bytes + m.bytes
           longer == IF undelivered[i] = 0 THEN Touch(i) ELSE idle_longer
           failed == StreamsToFail(bytes, total, longer)
           active == {j \in failed : R[j] # NoCall /\ S[R[j]] # "FAILED"}
<1>1. failed \in SUBSET Ids /\ \A j \in failed : bytes[j] > 0
  BY Zenon DEF StreamsToFail
<1>2. PICK reached \in SUBSET active :
        /\ stream_backlogs' = stream_backlogs \ failed
        /\ undelivered' = [j \in Ids |-> IF j \in failed THEN 0 ELSE bytes[j]]
        /\ completion_futures' = [j \in Ids |->
               IF j \in failed THEN NoCall ELSE completion_futures[j]]
        /\ queue' = QueuesAfter(i, m, failed)
        /\ requests' = [j \in Ids |-> IF j \in reached THEN NoCall ELSE R[j]]
        /\ state' = [c \in Calls |->
               IF \E j \in active : R[j] = c THEN "FAILED" ELSE S[c]]
        /\ told' = told \cup {R[j] : j \in reached}
        /\ stream_queues' = stream_queues
  BY Zenon DEF QueueStreamMessage
<1> HIDE DEF failed, bytes
<1> failed \in SUBSET Ids
  BY <1>1
<1> reached \in SUBSET Ids
  BY <1>1, <1>2
<1> WITNESS failed \in SUBSET Ids, reached \in SUBSET Ids
<1> QED
  BY <1>1, <1>2 DEF bytes, Settles

\* queue_stream_message keeps the types of the maps it is handed.
LEMMA QueueType ==
    ASSUME RegistryTypeOK, NEW i \in Ids, NEW m,
           NEW R \in [Ids -> CallOrNone],
           NEW S \in [Calls -> {"NEW", "PENDING", "RUNNING", "COMPLETED",
                               "FAILED", "ABORTED"}],
           NEW P, QueueStreamMessage(i, m, R, S, P)
    PROVE  /\ requests' \in [Ids -> CallOrNone]
           /\ state' \in [Calls -> {"NEW", "PENDING", "RUNNING", "COMPLETED",
                                    "FAILED", "ABORTED"}]
           /\ completion_futures' \in [Ids -> CallOrNone]
           /\ stream_queues' \in [Ids -> CallOrNone]
           /\ stream_backlogs' \in SUBSET Ids
           /\ told' \in SUBSET Calls
  BY QueueEffect, CallsAssumption DEF RegistryTypeOK, CallOrNone, Settles

\* Every handler keeps the types of the registries.
LEMMA RegistryTypeStep == RegistryTypeOK /\ [Next]_vars => RegistryTypeOK'
<1> SUFFICES ASSUME RegistryTypeOK, [Next]_vars
             PROVE  RegistryTypeOK'
  OBVIOUS
<1> USE CallsAssumption DEF RegistryTypeOK, CallOrNone
<1>1. ASSUME NEW c \in Calls, Submit(c) PROVE RegistryTypeOK'
  BY <1>1
  DEF Submit, requestVars, futureVars, streamVars, loopVars, callerVars,
      stageVars
<1>2. ASSUME NEW c \in Calls, Refuse(c) PROVE RegistryTypeOK'
  BY <1>2
  DEF Refuse, requestVars, futureVars, streamVars, loopVars, callerVars,
      stageVars
<1>3. ASSUME NEW c \in Calls, SendDone(c) PROVE RegistryTypeOK'
  BY <1>3
  DEF SendDone, requestVars, futureVars, streamVars, loopVars, callerVars,
      stageVars
<1>4. ASSUME NEW c \in Calls, SendFails(c) PROVE RegistryTypeOK'
  BY <1>4
  DEF SendFails, PopSubmission, PopBacklog, requestVars, futureVars,
      streamVars, loopVars, callerVars, stageVars
<1>5. ASSUME NEW c \in Calls, SendCancelled(c) PROVE RegistryTypeOK'
  BY <1>5
  DEF SendCancelled, ReleaseSubmission, CloseStream, BeginAbort, AbortStarts,
      PopSubmission, PopBacklog, requestVars, futureVars, streamVars,
      loopVars, callerVars, stageVars
<1>6. ASSUME NEW c \in Calls, Return(c) PROVE RegistryTypeOK'
  BY <1>6
  DEF Return, ReleaseSubmission, CloseStream, BeginAbort, AbortStarts,
      PopSubmission, PopBacklog, requestVars, futureVars, streamVars,
      loopVars, callerVars, stageVars
<1>7. ASSUME NEW c \in Calls, Cancel(c) PROVE RegistryTypeOK'
  BY <1>7
  DEF Cancel, ReleaseSubmission, CloseStream, BeginAbort, AbortStarts,
      PopSubmission, PopBacklog, requestVars, futureVars, streamVars,
      loopVars, callerVars, stageVars
<1>8. ASSUME NEW c \in Calls, ReleaseFinally(c) PROVE RegistryTypeOK'
  BY <1>8
  DEF ReleaseFinally, CloseStream, BeginAbort, AbortStarts, PopSubmission,
      PopBacklog, requestVars, futureVars, streamVars, loopVars, callerVars,
      stageVars
<1>9. ASSUME NEW c \in Calls, Take(c) PROVE RegistryTypeOK'
  BY <1>9, Zenon
  DEF Take, requestVars, futureVars, streamVars, loopVars, callerVars,
      stageVars
<1>10. ASSUME NEW c \in Calls, TakeFailure(c) PROVE RegistryTypeOK'
  BY <1>10
  DEF TakeFailure, CloseStream, BeginAbort, AbortStarts, PopSubmission,
      PopBacklog, requestVars, futureVars, streamVars, loopVars, callerVars,
      stageVars
<1>11. ASSUME NEW c \in Calls, EndStream(c) PROVE RegistryTypeOK'
  BY <1>11
  DEF EndStream, CloseStream, BeginAbort, AbortStarts, PopSubmission,
      PopBacklog, requestVars, futureVars, streamVars, loopVars, callerVars,
      stageVars
<1>12. ASSUME NEW c \in Calls, CloseEarly(c) PROVE RegistryTypeOK'
  BY <1>12
  DEF CloseEarly, CloseStream, BeginAbort, AbortStarts, PopSubmission,
      PopBacklog, requestVars, futureVars, streamVars, loopVars, callerVars,
      stageVars
<1>13. ASSUME NEW c \in Calls, CloseFinally(c) PROVE RegistryTypeOK'
  BY <1>13
  DEF CloseFinally, PopSubmission, PopBacklog, requestVars, futureVars,
      streamVars, loopVars, callerVars, stageVars
<1>14. ASSUME NEW c \in Calls, HandleFailure(c) PROVE RegistryTypeOK'
  BY <1>14
  DEF HandleFailure, FailRequest, Ignores, LoopAgain, requestVars,
      futureVars, streamVars, loopVars, callerVars, stageVars
<1>15. ASSUME NEW c \in Calls, HandleAdminDrop(c) PROVE RegistryTypeOK'
  BY <1>15
  DEF HandleAdminDrop, BeginAbort, AbortStarts, Ignores, requestVars,
      futureVars, streamVars, loopVars, callerVars, stageVars
<1>16. ASSUME NEW c \in Calls, HandleStream(c) PROVE RegistryTypeOK'
  BY <1>16, QueueType, Zenon
  DEF HandleStream, LoopAgain, requestVars, streamVars, callerVars
<1>17. ASSUME NEW c \in Calls, NEW s \in Stages, HandleSuccess(c, s)
       PROVE  RegistryTypeOK'
  BY <1>17, QueueType, Zenon
  DEF HandleSuccess, Ignores, LoopAgain, requestVars, futureVars, streamVars,
      callerVars
<1>18. ASSUME NEW i \in Ids, Abort(i) PROVE RegistryTypeOK'
  BY <1>18
  DEF Abort, BeginAbort, AbortStarts, requestVars, futureVars, streamVars,
      loopVars, callerVars, stageVars
<1>19. ASSUME NEW i \in Ids, RunAbort(i) PROVE RegistryTypeOK'
  BY <1>19
  DEF RunAbort, WakeAborters, requestVars, futureVars, streamVars, loopVars,
      callerVars, stageVars
<1>20. ASSUME NEW i \in Ids, FailAbort(i) PROVE RegistryTypeOK'
  BY <1>20
  DEF FailAbort, WakeAborters, requestVars, futureVars, streamVars, loopVars,
      callerVars, stageVars
<1>21. ASSUME NEW i \in Ids, FailDroppedAbort(i) PROVE RegistryTypeOK'
  BY <1>21
  DEF FailDroppedAbort, WakeAborters, FailRequest, LoopAwaits, requestVars,
      futureVars, streamVars, loopVars, callerVars, stageVars
<1>22. CASE FailPendingRequests
  BY <1>22
  DEF FailPendingRequests, requestVars, futureVars, streamVars, loopVars,
      callerVars, stageVars
<1>23. CASE UNCHANGED vars
  BY <1>23, Zenon
  DEF vars, requestVars, futureVars, streamVars, loopVars, callerVars,
      stageVars
<1> QED
  BY <1>1, <1>2, <1>3, <1>4, <1>5, <1>6, <1>7, <1>8, <1>9, <1>10, <1>11, <1>12,
     <1>13, <1>14, <1>15, <1>16, <1>17, <1>18, <1>19, <1>20, <1>21, <1>22, <1>23, Zenon
  DEF Next

\* What the handlers put on a queue is a message, and a message has a size.
LEMMA MessageFacts ==
    /\ Failure \in Message
    /\ \A s \in Stages : Complete(s) \in Message
    /\ \A n \in 1..MaxChunks : Chunk(n) \in Message
    /\ \A m \in Message : m.bytes \in Int
  BY BoundsAssumption DEF Message, Failure, Complete, Chunk

\* A batch of failures is a batch of messages.
LEMMA PutFailuresType ==
    ASSUME QueueTypeOK, NEW I
    PROVE  PutFailures(I) \in [Calls -> Seq(Message)]
  BY MessageFacts DEF PutFailures, QueueTypeOK

\* queue_stream_message leaves every queue a sequence of messages, and every
\* backlog a number of bytes.
LEMMA QueueQueueType ==
    ASSUME QueueTypeOK, NEW i \in Ids, NEW m \in Message, NEW R, NEW S, NEW P,
           QueueStreamMessage(i, m, R, S, P)
    PROVE  queue' \in [Calls -> Seq(Message)] /\ undelivered' \in [Ids -> Int]
<1>1. <<Failure>> \in Seq(Message)
  BY MessageFacts
<1>2. \A c \in Calls : Append(queue[c], m) \in Seq(Message)
  BY DEF QueueTypeOK
<1>3. \A failed : QueuesAfter(i, m, failed) \in [Calls -> Seq(Message)]
  BY <1>1, <1>2 DEF QueuesAfter, QueueTypeOK
<1>4. [undelivered EXCEPT ![i] = @ + m.bytes] \in [Ids -> Int]
  BY MessageFacts DEF QueueTypeOK
<1> QED
  BY <1>3, <1>4, QueueEffect DEF Settles

\* Every handler keeps the types of the queues.
LEMMA QueueTypeStep == RegistryTypeOK /\ QueueTypeOK /\ [Next]_vars => QueueTypeOK'
<1> SUFFICES ASSUME RegistryTypeOK, QueueTypeOK, [Next]_vars
             PROVE  QueueTypeOK'
  OBVIOUS
<1> USE CallsAssumption, BoundsAssumption DEF QueueTypeOK
<1>1. ASSUME NEW c \in Calls, Submit(c) PROVE QueueTypeOK'
  BY <1>1
  DEF Submit, streamVars, stageVars
<1>2. ASSUME NEW c \in Calls, Refuse(c) PROVE QueueTypeOK'
  BY <1>2
  DEF Refuse, streamVars, stageVars
<1>3. ASSUME NEW c \in Calls, SendDone(c) PROVE QueueTypeOK'
  BY <1>3, Zenon
  DEF SendDone, streamVars, stageVars
<1>4. ASSUME NEW c \in Calls, SendFails(c) PROVE QueueTypeOK'
  BY <1>4
  DEF SendFails, PopSubmission, PopBacklog, streamVars, stageVars
<1>5. ASSUME NEW c \in Calls, SendCancelled(c) PROVE QueueTypeOK'
  BY <1>5
  DEF SendCancelled, ReleaseSubmission, CloseStream, PopSubmission,
      PopBacklog, streamVars, stageVars
<1>6. ASSUME NEW c \in Calls, Return(c) PROVE QueueTypeOK'
  BY <1>6
  DEF Return, ReleaseSubmission, CloseStream, PopSubmission, PopBacklog,
      streamVars, stageVars
<1>7. ASSUME NEW c \in Calls, Cancel(c) PROVE QueueTypeOK'
  BY <1>7
  DEF Cancel, ReleaseSubmission, CloseStream, PopSubmission, PopBacklog,
      streamVars, stageVars
<1>8. ASSUME NEW c \in Calls, ReleaseFinally(c) PROVE QueueTypeOK'
  BY <1>8
  DEF ReleaseFinally, CloseStream, PopSubmission, PopBacklog, streamVars,
      stageVars
<1>9. ASSUME NEW c \in Calls, Take(c) PROVE QueueTypeOK'
  BY <1>9, MessageFacts
  DEF Take, streamVars, stageVars
<1>10. ASSUME NEW c \in Calls, TakeFailure(c) PROVE QueueTypeOK'
  BY <1>10
  DEF TakeFailure, CloseStream, PopSubmission, PopBacklog, streamVars,
      stageVars
<1>11. ASSUME NEW c \in Calls, EndStream(c) PROVE QueueTypeOK'
  BY <1>11
  DEF EndStream, CloseStream, PopSubmission, PopBacklog, streamVars,
      stageVars
<1>12. ASSUME NEW c \in Calls, CloseEarly(c) PROVE QueueTypeOK'
  BY <1>12
  DEF CloseEarly, CloseStream, PopSubmission, PopBacklog, streamVars,
      stageVars
<1>13. ASSUME NEW c \in Calls, CloseFinally(c) PROVE QueueTypeOK'
  BY <1>13
  DEF CloseFinally, PopSubmission, PopBacklog, streamVars, stageVars
<1>14. ASSUME NEW c \in Calls, HandleFailure(c) PROVE QueueTypeOK'
  BY <1>14, PutFailuresType
  DEF HandleFailure, FailRequest, streamVars, stageVars
<1>15. ASSUME NEW c \in Calls, HandleAdminDrop(c) PROVE QueueTypeOK'
  BY <1>15, Zenon
  DEF HandleAdminDrop, streamVars, stageVars
<1>16. ASSUME NEW c \in Calls, HandleStream(c) PROVE QueueTypeOK'
  <2>1. chunks[c] + 1 \in 1..MaxChunks /\ chunks' \in [Calls -> 0..MaxChunks]
    BY <1>16 DEF HandleStream
  <2> QED
    BY <1>16, <2>1, MessageFacts, QueueQueueType, Zenon DEF HandleStream, streamVars
<1>17. ASSUME NEW c \in Calls, NEW s \in Stages, HandleSuccess(c, s)
       PROVE  QueueTypeOK'
  BY <1>17, MessageFacts, QueueQueueType, Zenon DEF HandleSuccess, streamVars
<1>18. ASSUME NEW i \in Ids, Abort(i) PROVE QueueTypeOK'
  BY <1>18, Zenon
  DEF Abort, streamVars, stageVars
<1>19. ASSUME NEW i \in Ids, RunAbort(i) PROVE QueueTypeOK'
  BY <1>19, PutFailuresType
  DEF RunAbort, streamVars, stageVars
<1>20. ASSUME NEW i \in Ids, FailAbort(i) PROVE QueueTypeOK'
  BY <1>20, Zenon
  DEF FailAbort, streamVars, stageVars
<1>21. ASSUME NEW i \in Ids, FailDroppedAbort(i) PROVE QueueTypeOK'
  BY <1>21, PutFailuresType
  DEF FailDroppedAbort, FailRequest, streamVars, stageVars
<1>22. CASE FailPendingRequests
  BY <1>22, PutFailuresType, Zenon DEF FailPendingRequests, stageVars
<1>23. CASE UNCHANGED vars
  BY <1>23 DEF vars, streamVars, stageVars
<1> QED
  BY <1>1, <1>2, <1>3, <1>4, <1>5, <1>6, <1>7, <1>8, <1>9, <1>10, <1>11, <1>12,
     <1>13, <1>14, <1>15, <1>16, <1>17, <1>18, <1>19, <1>20, <1>21, <1>22, <1>23, Zenon
  DEF Next

\* queue_stream_message keeps the order of the readers a relation on ids, and
\* partial results sets of stages.
LEMMA QueueCallerType ==
    ASSUME RegistryTypeOK, CallerTypeOK, NEW i \in Ids, NEW m, NEW R, NEW S,
           NEW P \in [Ids -> SUBSET Stages], QueueStreamMessage(i, m, R, S, P)
    PROVE  /\ idle_longer' \in SUBSET (Ids \X Ids)
           /\ partial_results' \in [Ids -> SUBSET Stages]
<1>1. Touch(i) \in SUBSET (Ids \X Ids)
  BY DEF RegistryTypeOK, CallerTypeOK, Touch, Forget
<1> DEFINE bytes  == [undelivered EXCEPT ![i] = @ + m.bytes]
           total  == stream_backlog_bytes + m.bytes
           longer == IF undelivered[i] = 0 THEN Touch(i) ELSE idle_longer
           failed == StreamsToFail(bytes, total, longer)
           active == {j \in failed : R[j] # NoCall /\ S[R[j]] # "FAILED"}
<1>2. /\ idle_longer' = {p \in longer : p[1] \notin failed /\ p[2] \notin failed}
      /\ partial_results' = [j \in Ids |-> IF j \in active THEN {} ELSE P[j]]
  BY Zenon DEF QueueStreamMessage
<1>3. longer \in SUBSET (Ids \X Ids)
  BY <1>1 DEF CallerTypeOK
<1> HIDE DEF failed, active, longer
<1> QED
  BY <1>2, <1>3, Zenon

\* Every handler keeps the types of what the callers hold and see.
LEMMA CallerTypeStep ==
    RegistryTypeOK /\ QueueTypeOK /\ CallerTypeOK /\ [Next]_vars => CallerTypeOK'
<1> SUFFICES ASSUME RegistryTypeOK, QueueTypeOK, CallerTypeOK, [Next]_vars
             PROVE  CallerTypeOK'
  OBVIOUS
<1> USE CallsAssumption, BoundsAssumption DEF CallerTypeOK
<1>1. \A i \in Ids : /\ Forget(i) \in SUBSET (Ids \X Ids)
                     /\ Touch(i) \in SUBSET (Ids \X Ids)
  BY DEF RegistryTypeOK, Touch, Forget
<1>2. \A I : RejectFutures(I) \in [Calls -> {"unset", "pending", "result",
                                            "exception", "cancelled"}]
  BY Zenon DEF RejectFutures
<1>3. ASSUME NEW c \in Calls, Submit(c) PROVE CallerTypeOK'
  BY <1>1, <1>2, <1>3
  DEF Submit, requestVars, futureVars, streamVars, loopVars, callerVars,
      stageVars
<1>4. ASSUME NEW c \in Calls, Refuse(c) PROVE CallerTypeOK'
  BY <1>1, <1>2, <1>4, Zenon
  DEF Refuse, requestVars, futureVars, streamVars, loopVars, callerVars,
      stageVars
<1>5. ASSUME NEW c \in Calls, SendDone(c) PROVE CallerTypeOK'
  BY <1>1, <1>2, <1>5, Zenon
  DEF SendDone, requestVars, futureVars, streamVars, loopVars, callerVars,
      stageVars
<1>6. ASSUME NEW c \in Calls, SendFails(c) PROVE CallerTypeOK'
  BY <1>1, <1>2, <1>6
  DEF SendFails, PopSubmission, PopBacklog, requestVars, futureVars,
      streamVars, loopVars, callerVars, stageVars
<1>7. ASSUME NEW c \in Calls, SendCancelled(c) PROVE CallerTypeOK'
  BY <1>1, <1>2, <1>7
  DEF SendCancelled, ReleaseSubmission, CloseStream, PopSubmission,
      PopBacklog, requestVars, futureVars, streamVars, loopVars, callerVars,
      stageVars
<1>8. ASSUME NEW c \in Calls, Return(c) PROVE CallerTypeOK'
  BY <1>1, <1>2, <1>8
  DEF Return, ReleaseSubmission, CloseStream, PopSubmission, PopBacklog,
      requestVars, futureVars, streamVars, loopVars, callerVars, stageVars
<1>9. ASSUME NEW c \in Calls, Cancel(c) PROVE CallerTypeOK'
  BY <1>1, <1>2, <1>9
  DEF Cancel, ReleaseSubmission, CloseStream, PopSubmission, PopBacklog,
      requestVars, futureVars, streamVars, loopVars, callerVars, stageVars
<1>10. ASSUME NEW c \in Calls, ReleaseFinally(c) PROVE CallerTypeOK'
  BY <1>1, <1>2, <1>10
  DEF ReleaseFinally, CloseStream, PopSubmission, PopBacklog, requestVars,
      futureVars, streamVars, loopVars, callerVars, stageVars
<1>11. ASSUME NEW c \in Calls, Take(c) PROVE CallerTypeOK'
  <2>1. Head(queue[c]) \in Message
    BY <1>11 DEF Take, QueueTypeOK
  <2>2. /\ Head(queue[c]).kind = "chunk" => Head(queue[c]).n \in 0..MaxChunks
        /\ Head(queue[c]).kind = "complete" => Head(queue[c]).stage \in Stages
    BY <2>1 DEF Message, Failure
  <2> QED
    BY <1>1, <1>11, <2>2, Zenon DEF Take, requestVars, futureVars, loopVars, stageVars
<1>12. ASSUME NEW c \in Calls, TakeFailure(c) PROVE CallerTypeOK'
  BY <1>1, <1>2, <1>12
  DEF TakeFailure, CloseStream, PopSubmission, PopBacklog, requestVars,
      futureVars, streamVars, loopVars, callerVars, stageVars
<1>13. ASSUME NEW c \in Calls, EndStream(c) PROVE CallerTypeOK'
  BY <1>1, <1>2, <1>13
  DEF EndStream, CloseStream, PopSubmission, PopBacklog, requestVars,
      futureVars, streamVars, loopVars, callerVars, stageVars
<1>14. ASSUME NEW c \in Calls, CloseEarly(c) PROVE CallerTypeOK'
  BY <1>1, <1>2, <1>14
  DEF CloseEarly, CloseStream, PopSubmission, PopBacklog, requestVars,
      futureVars, streamVars, loopVars, callerVars, stageVars
<1>15. ASSUME NEW c \in Calls, CloseFinally(c) PROVE CallerTypeOK'
  BY <1>1, <1>2, <1>15
  DEF CloseFinally, PopSubmission, PopBacklog, requestVars, futureVars,
      streamVars, loopVars, callerVars, stageVars
<1>16. ASSUME NEW c \in Calls, HandleFailure(c) PROVE CallerTypeOK'
  BY <1>1, <1>2, <1>16
  DEF HandleFailure, FailRequest, LoopReady, LoopAgain, RegistryTypeOK,
      requestVars, futureVars, streamVars, loopVars, callerVars, stageVars
<1>17. ASSUME NEW c \in Calls, HandleAdminDrop(c) PROVE CallerTypeOK'
  BY <1>1, <1>2, <1>17
  DEF HandleAdminDrop, LoopReady, RegistryTypeOK, requestVars, futureVars,
      streamVars, loopVars, callerVars, stageVars
<1>18. ASSUME NEW c \in Calls, HandleStream(c) PROVE CallerTypeOK'
  BY <1>18, QueueCallerType, Zenon
  DEF HandleStream, LoopAgain, RegistryTypeOK, requestVars, streamVars,
      callerVars
<1>19. ASSUME NEW c \in Calls, NEW s \in Stages, HandleSuccess(c, s)
       PROVE  CallerTypeOK'
  <2> DEFINE i == IdOf[c]
             parts == partial_results[i] \cup {s}
             single == Cardinality(Expected[requests[i]]) <= 1
             complete == Completes(requests[i], parts)
             R == IF complete THEN [requests EXCEPT ![i] = NoCall] ELSE requests
             S == IF complete THEN [state EXCEPT ![requests[i]] = "COMPLETED"]
                  ELSE state
             P == IF single THEN partial_results
                  ELSE [partial_results EXCEPT
                            ![i] = IF complete THEN {} ELSE parts]
  <2>1. P \in [Ids -> SUBSET Stages]
    OBVIOUS
  <2>2. \/ UNCHANGED <<idle_longer, partial_results>>
        \/ QueueStreamMessage(i, Complete(s), R, S, P)
        \/ partial_results' = P /\ UNCHANGED idle_longer
    BY <1>19, Zenon DEF HandleSuccess, requestVars, streamVars
  <2>3. /\ future' \in [Calls -> {"unset", "pending", "result", "exception",
                                  "cancelled"}]
        /\ loop_exited' \in BOOLEAN
        /\ finished' \in [Calls -> SUBSET Stages]
        /\ UNCHANGED <<succeeded, taken, completed_stages, failures>>
    BY <1>19 DEF HandleSuccess, LoopAgain, RegistryTypeOK, callerVars, futureVars
  <2> HIDE DEF P, R, S
  <2>4. /\ idle_longer' \in SUBSET (Ids \X Ids)
        /\ partial_results' \in [Ids -> SUBSET Stages]
    BY <2>1, <2>2, QueueCallerType, Zenon
  <2> QED
    BY <2>3, <2>4, Zenon
<1>20. ASSUME NEW i \in Ids, Abort(i) PROVE CallerTypeOK'
  BY <1>1, <1>2, <1>20, Zenon
  DEF Abort, requestVars, futureVars, streamVars, loopVars, callerVars,
      stageVars
<1>21. ASSUME NEW i \in Ids, RunAbort(i) PROVE CallerTypeOK'
  BY <1>1, <1>2, <1>21
  DEF RunAbort, RegistryTypeOK, requestVars, futureVars, streamVars,
      loopVars, callerVars, stageVars
<1>22. ASSUME NEW i \in Ids, FailAbort(i) PROVE CallerTypeOK'
  BY <1>1, <1>2, <1>22, Zenon
  DEF FailAbort, requestVars, futureVars, streamVars, loopVars, callerVars,
      stageVars
<1>23. ASSUME NEW i \in Ids, FailDroppedAbort(i) PROVE CallerTypeOK'
  BY <1>1, <1>2, <1>23
  DEF FailDroppedAbort, FailRequest, RegistryTypeOK, requestVars, futureVars,
      streamVars, loopVars, callerVars, stageVars
<1>24. CASE FailPendingRequests
  BY <1>2, <1>24, Zenon DEF FailPendingRequests, loopVars, callerVars, stageVars
<1>25. CASE UNCHANGED vars
  BY <1>25
  DEF vars, requestVars, futureVars, streamVars, loopVars, callerVars,
      stageVars
<1> QED
  BY <1>3, <1>4, <1>5, <1>6, <1>7, <1>8, <1>9, <1>10, <1>11, <1>12, <1>13,
     <1>14, <1>15, <1>16, <1>17, <1>18, <1>19, <1>20, <1>21, <1>22, <1>23,
     <1>24, <1>25, Zenon
  DEF Next

=============================================================================
