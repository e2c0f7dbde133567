------------------------ MODULE CoordinatorOwnership ------------------------
(*****************************************************************************)
(* Who owns a request id: the inductive invariant, and that every step of the*)
(* Coordinator keeps it.                                                     *)
(*****************************************************************************)
EXTENDS CoordinatorTypes

Open(c) == pc[c] # "new" /\ pc[c] # "done"
Closing(c) == pc[c] = "close_wait" \/ pc[c] = "close"

\* A registration names a call that uses that id, has not returned, and is the
\* only one registered.  A caller that has not returned holds its queue, or
\* its future if it does not stream.  Bytes are only held for a queue.
Registered ==
    /\ \A i \in Ids : requests[i] # NoCall =>
           IdOf[requests[i]] = i /\ pc[requests[i]] # "new"
    /\ \A i \in Ids : completion_futures[i] # NoCall =>
           IdOf[completion_futures[i]] = i /\ Open(completion_futures[i])
    /\ \A i \in Ids : stream_queues[i] # NoCall =>
           /\ IdOf[stream_queues[i]] = i /\ Open(stream_queues[i])
           /\ stream_queues[i] \in Streaming
    /\ \A i \in Ids : requests[i] # NoCall /\ completion_futures[i] # NoCall =>
           requests[i] = completion_futures[i]
    /\ \A i \in Ids : requests[i] # NoCall /\ stream_queues[i] # NoCall =>
           requests[i] = stream_queues[i]
    /\ \A i \in Ids : completion_futures[i] # NoCall /\ stream_queues[i] # NoCall =>
           completion_futures[i] = stream_queues[i]
    /\ \A i \in Ids : i \in stream_backlogs \/ undelivered[i] # 0 =>
           stream_queues[i] # NoCall
    /\ \A c \in Calls : Open(c) /\ c \in Streaming => stream_queues[IdOf[c]] = c
    /\ \A c \in Calls : Open(c) /\ c \notin Streaming =>
           completion_futures[IdOf[c]] = c
    /\ \A c \in Calls : Closing(c) => c \in Streaming

\* An abort task belongs to a call that uses its id, and no other call is
\* registered there.  The completion loop only awaits such a task.
AbortsOwned ==
    /\ \A i \in Ids : abort_tasks[i] # NoCall =>
           /\ IdOf[abort_tasks[i]] = i
           /\ pc[abort_tasks[i]] # "new"
           /\ requests[i] = NoCall \/ requests[i] = abort_tasks[i]
           /\ \/ completion_futures[i] = NoCall
              \/ completion_futures[i] = abort_tasks[i]
           /\ stream_queues[i] = NoCall \/ stream_queues[i] = abort_tasks[i]
    /\ dropping # NoCall =>
           abort_tasks[IdOf[dropping]] = dropping /\ state[dropping] # "COMPLETED"

\* A tracked request is neither finished nor known to be aborted; a call that
\* is being sent or was sent is tracked, or there is a reason it is not.
SentAccounted ==
    /\ \A i \in Ids : requests[i] # NoCall =>
           /\ requests[i] \notin told
           /\ state[requests[i]] \notin {"NEW", "COMPLETED", "ABORTED"}
    /\ \A c \in Calls : pc[c] \in {"new", "sending"} => c \notin sent
    /\ \A c \in Calls : pc[c] = "new" => c \notin told
    /\ \A c \in Calls : pc[c] = "sending" \/ c \in sent =>
           \/ requests[IdOf[c]] = c
           \/ c \in told
           \/ state[c] = "COMPLETED"
           \/ fatal

IInv ==
    RegistryTypeOK /\ QueueTypeOK /\ Registered /\ AbortsOwned /\ SentAccounted

----------------------------------------------------------------------------
(* What the handlers do to the registrations                               *)

\* A caller gives its registrations back, or keeps them while it waits for an
\* abort, which it may have created.  Nothing changes for another id or caller.
Leaves(c) ==
    LET i == IdOf[c] IN
    /\ Open(c)
    /\ \A d \in Calls \ {c} : pc'[d] = pc[d]
    /\ \A j \in Ids \ {i} : /\ requests'[j] = requests[j]
                            /\ completion_futures'[j] = completion_futures[j]
                            /\ stream_queues'[j] = stream_queues[j]
                            /\ j \in stream_backlogs' => j \in stream_backlogs
                            /\ undelivered'[j] = undelivered[j]
                            /\ abort_tasks'[j] = abort_tasks[j]
    /\ \/ /\ pc'[c] = "done"
          /\ completion_futures'[i] = NoCall /\ stream_queues'[i] = NoCall
          /\ i \notin stream_backlogs' /\ undelivered'[i] = 0
       \/ /\ pc'[c] = "release_wait" \/ (c \in Streaming /\ pc'[c] = "close_wait")
          /\ completion_futures'[i] = completion_futures[i]
          /\ stream_queues'[i] = stream_queues[i]
          /\ i \in stream_backlogs' => i \in stream_backlogs
          /\ undelivered'[i] = undelivered[i]
    /\ requests'[i] = requests[i] \/ requests'[i] = NoCall
    /\ \/ abort_tasks'[i] = abort_tasks[i]
       \/ /\ abort_tasks[i] = NoCall /\ requests'[i] = requests[i]
          /\ abort_tasks'[i] = requests[i]
    /\ UNCHANGED <<state, dropping>>

\* The steps in which a caller leaves
LeaveStep(c) ==
    \/ SendFails(c) \/ SendCancelled(c) \/ Return(c) \/ Cancel(c)
    \/ ReleaseFinally(c) \/ TakeFailure(c) \/ EndStream(c) \/ CloseEarly(c)
    \/ CloseFinally(c)

\* Requests are untracked, streams are failed, callers are woken; nobody is
\* registered.
Untracks ==
    /\ \A j \in Ids : requests'[j] = requests[j] \/ requests'[j] = NoCall
    /\ stream_queues' = stream_queues
    /\ \A j \in Ids : \/ completion_futures'[j] = completion_futures[j]
                      \/ /\ completion_futures'[j] = NoCall
                         /\ stream_queues[j] # NoCall
    /\ \A j \in Ids : j \in stream_backlogs' \/ undelivered'[j] # 0 =>
           stream_queues[j] # NoCall
    /\ \A c \in Calls : \/ pc'[c] = pc[c]
                        \/ Open(c) /\ Open(c)' /\ (Closing(c)' => Closing(c))

\* The steps that register nobody and give nothing back: the handlers of the
\* completion loop, the abort task, stop(), a send that ends and a chunk that is
\* read
HandlerStep ==
    \/ \E c \in Calls : \/ HandleFailure(c) \/ HandleStream(c)
                        \/ HandleAdminDrop(c) \/ SendDone(c) \/ Take(c)
    \/ \E c \in Calls, s \in Stages : HandleSuccess(c, s)
    \/ \E i \in Ids : Abort(i) \/ RunAbort(i) \/ FailAbort(i) \/ FailDroppedAbort(i)
    \/ FailPendingRequests
    \/ UNCHANGED vars

\* The finally blocks of submit, stream and release_submission: a caller that
\* has not returned still holds what they give back.
LEMMA LeaveEffect ==
    ASSUME IInv, NEW c \in Calls, LeaveStep(c)
    PROVE  Leaves(c)
<1> USE CallsAssumption DEF IInv, RegistryTypeOK, QueueTypeOK, CallOrNone
<1> DEFINE i == IdOf[c]
<1>1. Open(c) /\ (IF c \in Streaming THEN stream_queues[i] = c
                  ELSE completion_futures[i] = c)
  BY Zenon DEF Registered, Open, LeaveStep, SendFails, SendCancelled, Return, Cancel,
         ReleaseFinally, TakeFailure, EndStream, CloseEarly, CloseFinally
<1>2. /\ c \in Streaming /\ CloseStream(c)
      /\ UNCHANGED <<requests, state, dropping>>
      => Leaves(c)
  BY <1>1 DEF CloseStream, PopSubmission, PopBacklog, BeginAbort, AbortStarts,
              Leaves
<1>3. ReleaseSubmission(c) /\ UNCHANGED <<requests, state, dropping>> => Leaves(c)
  BY <1>1, <1>2 DEF ReleaseSubmission, PopSubmission, PopBacklog, BeginAbort,
                    AbortStarts, Leaves
<1>4. CASE SendCancelled(c) \/ Return(c) \/ Cancel(c)
  BY <1>3, <1>4, Zenon DEF SendCancelled, Return, Cancel, requestVars, loopVars
<1>5. CASE ReleaseFinally(c)
  BY <1>1, <1>2, <1>5 DEF ReleaseFinally, PopSubmission, PopBacklog, Leaves,
                          requestVars, loopVars
<1>6. CASE TakeFailure(c) \/ EndStream(c) \/ CloseEarly(c)
  BY <1>2, <1>6, Zenon DEF TakeFailure, EndStream, CloseEarly, requestVars, loopVars
<1>7. CASE CloseFinally(c)
  <2>1. c \in Streaming /\ stream_queues[i] = c
    BY <1>1, <1>7, Zenon DEF CloseFinally, Registered, Closing
  <2> QED
    BY <1>1, <1>7, <2>1 DEF CloseFinally, PopSubmission, PopBacklog, Leaves,
                            requestVars, loopVars
<1>8. CASE SendFails(c)
  BY <1>1, <1>8 DEF SendFails, PopSubmission, PopBacklog, Leaves, streamVars,
                    loopVars
<1> HIDE DEF IInv
<1> QED
  BY <1>4, <1>5, <1>6, <1>7, <1>8, Zenon DEF LeaveStep

\* queue_stream_message registers nobody: it fails streams only.
LEMMA QueueUntracks ==
    ASSUME IInv, NEW i \in Ids, stream_queues[i] # NoCall, NEW m, NEW R, NEW S,
           NEW P, \A j \in Ids : R[j] = requests[j] \/ R[j] = NoCall,
           QueueStreamMessage(i, m, R, S, P), pc' = pc
    PROVE  Untracks
<1>0. PICK failed \in SUBSET Ids, reached \in SUBSET Ids :
        Settles(i, m, R, S, failed, reached)
  BY QueueEffect, Zenon
<1>1. \A j \in Ids : j = i
          \/ [undelivered EXCEPT ![i] = @ + m.bytes][j] = undelivered[j]
  BY Zenon DEF IInv, QueueTypeOK
<1>2. \A j \in failed : stream_queues[j] # NoCall
  <2>1. \A j \in failed : [undelivered EXCEPT ![i] = @ + m.bytes][j] > 0
    BY <1>0, Zenon DEF Settles
  <2> QED
    BY <1>1, <2>1 DEF IInv, Registered
<1>3. \A j \in Ids : j \in stream_backlogs' \/ undelivered'[j] # 0 =>
          stream_queues[j] # NoCall
  BY <1>0, <1>1, <1>2 DEF IInv, Registered, Settles
<1> QED
  BY <1>0, <1>2, <1>3 DEF Untracks, Settles

\* The handlers of the completion loop, and the abort task, register nobody.
LEMMA UntrackEffect ==
    ASSUME IInv, HandlerStep
    PROVE  Untracks
<1> USE CallsAssumption DEF IInv, RegistryTypeOK, CallOrNone
<1>1. \A i : \A c \in Calls : \/ WakeAborters(i)[c] = pc[c]
             \/ /\ Open(c) /\ WakeAborters(i)[c] # "new"
                /\ WakeAborters(i)[c] # "done"
                /\ (WakeAborters(i)[c] \in {"close_wait", "close"} => Closing(c))
  BY Zenon DEF WakeAborters, Open, Closing
<1>2. ASSUME NEW c \in Calls, HandleFailure(c) PROVE Untracks
  BY <1>2 DEF HandleFailure, FailRequest, Untracks, Registered, requestVars,
              futureVars, streamVars, callerVars
<1>3. ASSUME NEW c \in Calls, HandleStream(c) PROVE Untracks
  <2>1. CASE IdOf[c] \in stream_backlogs
    BY <1>3, <2>1, QueueUntracks DEF HandleStream, Registered, callerVars
  <2>2. CASE IdOf[c] \notin stream_backlogs
    BY <1>3, <2>2, Zenon DEF HandleStream, Untracks, Registered, requestVars,
                      streamVars, callerVars
  <2> QED
    BY <2>1, <2>2, Zenon
<1>4. ASSUME NEW c \in Calls, NEW s \in Stages, HandleSuccess(c, s)
      PROVE  Untracks
  <2> DEFINE i == IdOf[c]
             parts == partial_results[i] \cup {s}
             single == Cardinality(Expected[requests[i]]) <= 1
             complete == Completes(requests[i], parts)
             R == IF complete THEN [requests EXCEPT ![i] = NoCall] ELSE requests
             S == IF complete THEN [state EXCEPT ![requests[i]] = "COMPLETED"]
                  ELSE state
             P == IF single THEN partial_results
                  ELSE [partial_results EXCEPT
                            ![i] = IF complete THEN {} ELSE parts]
  <2>1. /\ pc' = pc
        /\ \/ UNCHANGED <<requestVars, futureVars, streamVars, told>>
           \/ stream_queues[i] # NoCall /\ QueueStreamMessage(i, Complete(s), R, S, P)
           \/ requests' = R /\ UNCHANGED <<completion_futures, streamVars, told>>
    BY <1>4, Zenon DEF HandleSuccess, callerVars
  <2>2. \A j \in Ids : R[j] = requests[j] \/ R[j] = NoCall
    OBVIOUS
  <2> HIDE DEF R, S, P
  <2>3. i \in Ids
    OBVIOUS
  <2> QED
    BY <2>1, <2>2, <2>3, QueueUntracks
    DEF Untracks, Registered, requestVars, futureVars, streamVars
<1>5. ASSUME NEW i \in Ids, RunAbort(i) \/ FailAbort(i) \/ FailDroppedAbort(i)
      PROVE  Untracks
  <2>1. pc' = WakeAborters(i)
    BY <1>5, Zenon DEF RunAbort, FailAbort, FailDroppedAbort
  <2>2. \A c \in Calls : \/ pc'[c] = pc[c]
                         \/ Open(c) /\ Open(c)' /\ (Closing(c)' => Closing(c))
    BY <1>1, <2>1, Zenon DEF Open, Closing
  <2>3. CASE RunAbort(i)
    BY <2>2, <2>3 DEF RunAbort, Untracks, Registered, requestVars
  <2>4. CASE FailAbort(i)
    BY <2>2, <2>4, Zenon DEF FailAbort, Untracks, Registered, requestVars, futureVars,
                      streamVars
  <2>5. CASE FailDroppedAbort(i)
    <3>1. PICK ok \in BOOLEAN : FailRequest(i, dropping, ok)
      BY <2>5, Zenon DEF FailDroppedAbort
    <3> QED
      BY <2>2, <3>1 DEF FailRequest, Untracks, Registered
  <2> QED
    BY <1>5, <2>3, <2>4, <2>5, Zenon
<1>6. CASE FailPendingRequests
  BY <1>6, Zenon DEF FailPendingRequests, Untracks, Registered, callerVars
<1>7. ASSUME NEW c \in Calls, SendDone(c) \/ Take(c) PROVE Untracks
  BY <1>7 DEF SendDone, Take, Untracks, Registered, Open, Closing, QueueTypeOK,
              requestVars, futureVars, streamVars
<1>8. UNCHANGED <<requests, completion_futures, stream_queues, stream_backlogs,
                  undelivered, pc>>
      => Untracks
  BY DEF Untracks, Registered
<1>9. CASE UNCHANGED vars
  BY <1>8, <1>9, Zenon DEF vars, requestVars, futureVars, streamVars, callerVars
<1>10. ASSUME NEW c \in Calls, HandleAdminDrop(c) PROVE Untracks
  BY <1>8, <1>10, Zenon DEF HandleAdminDrop, requestVars, futureVars, streamVars,
                     callerVars
<1>11. ASSUME NEW i \in Ids, Abort(i) PROVE Untracks
  BY <1>8, <1>11, Zenon DEF Abort, requestVars, futureVars, streamVars, callerVars
<1> HIDE DEF IInv, RegistryTypeOK
<1> QED
  BY <1>2, <1>3, <1>4, <1>5, <1>6, <1>7, <1>9, <1>10, <1>11, Zenon DEF HandlerStep

----------------------------------------------------------------------------
(* Ownership                                                               *)

\* Two callers that have not returned do not share an id.
LEMMA OneOpen ==
    ASSUME IInv, NEW c \in Calls, NEW d \in Calls, Open(c), Open(d),
           IdOf[c] = IdOf[d]
    PROVE  c = d
<1>1. c \in Streaming => stream_queues[IdOf[c]] = c
  BY Zenon DEF IInv, Registered
<1>2. c \notin Streaming => completion_futures[IdOf[c]] = c
  BY Zenon DEF IInv, Registered
<1>3. d \in Streaming => stream_queues[IdOf[c]] = d
  BY Zenon DEF IInv, Registered
<1>4. d \notin Streaming => completion_futures[IdOf[c]] = d
  BY DEF IInv, Registered
<1>5. IdOf[c] \in Ids /\ c # NoCall /\ d # NoCall
  BY CallsAssumption
<1> QED
  BY <1>1, <1>2, <1>3, <1>4, <1>5, Zenon DEF IInv, Registered

\* A caller that leaves keeps the registrations those of one call.
LEMMA RegisteredLeaves ==
    ASSUME IInv, RegistryTypeOK', NEW c \in Calls, Leaves(c)
    PROVE  Registered'
<1> USE CallsAssumption DEF RegistryTypeOK, CallOrNone
<1> DEFINE i == IdOf[c]
<1>1. \A d \in Calls : Open(d) /\ IdOf[d] = i => d = c
  BY OneOpen, Zenon DEF Leaves
<1>2. \A d \in Calls : d # c => /\ pc'[d] = pc[d] /\ Open(d)' = Open(d)
                                /\ Closing(d)' = Closing(d)
  BY Zenon DEF Leaves, Open, Closing
<1>3. pc'[c] # "new" /\ (Closing(c)' => c \in Streaming)
  BY Zenon DEF Leaves, Closing
<1>4. CASE pc'[c] = "done"
  <2>1. ~Open(c)'
    BY <1>4 DEF Open
  <2>2. completion_futures'[i] = NoCall /\ stream_queues'[i] = NoCall
        /\ i \notin stream_backlogs' /\ undelivered'[i] = 0
    BY <1>4, Zenon DEF Leaves
  <2>3. \A j \in Ids : completion_futures'[j] # NoCall =>
            /\ j # i /\ completion_futures'[j] = completion_futures[j]
            /\ completion_futures[j] \in Calls \ {c}
    BY <2>2 DEF Leaves, IInv, Registered
  <2>4. \A j \in Ids : stream_queues'[j] # NoCall =>
            /\ j # i /\ stream_queues'[j] = stream_queues[j]
            /\ stream_queues[j] \in Calls \ {c}
    BY <2>2 DEF Leaves, IInv, Registered
  <2>5. \A j \in Ids : requests'[j] # NoCall =>
            requests'[j] = requests[j] /\ requests[j] \in Calls
    BY DEF Leaves, IInv
  <2>6. \A d \in Calls : Open(d)' => Open(d) /\ IdOf[d] # i
    BY <1>1, <1>2, <2>1, Zenon
  <2> QED
    BY <1>2, <1>3, <2>1, <2>2, <2>3, <2>4, <2>5, <2>6, SMTT(60)
    DEF Leaves, IInv, Registered
<1>5. CASE pc'[c] # "done"
  <2>1. Open(c)'
    BY <1>3, <1>5 DEF Open
  <2> QED
    BY <1>2, <1>3, <1>5, <2>1 DEF Leaves, IInv, Registered
<1> QED
  BY <1>4, <1>5, Zenon

\* A handler that untracks keeps the registrations those of one call.
LEMMA RegisteredUntracks ==
    ASSUME IInv, RegistryTypeOK', Untracks
    PROVE  Registered'
<1> USE CallsAssumption DEF IInv, RegistryTypeOK, CallOrNone
<1>1. \A c \in Calls : /\ Open(c)' = Open(c)
                       /\ (pc'[c] = "new") = (pc[c] = "new")
                       /\ (Closing(c)' => Closing(c))
  BY Zenon DEF Untracks, Open, Closing
<1> QED
  BY <1>1 DEF Untracks, Registered

\* A submission takes an id that nobody holds.
LEMMA RegisteredSubmit ==
    ASSUME IInv, RegistryTypeOK', NEW c \in Calls, Submit(c)
    PROVE  Registered'
<1> USE CallsAssumption DEF RegistryTypeOK, CallOrNone
<1> DEFINE i == IdOf[c]
<1>1. /\ requests[i] = NoCall /\ completion_futures[i] = NoCall
      /\ stream_queues[i] = NoCall
  BY Zenon DEF Submit, Admits, Reserved
<1>2. \A d \in Calls : Open(d) => IdOf[d] # i
  BY <1>1 DEF IInv, Registered
<1>3. /\ pc[c] = "new" /\ pc'[c] = "sending"
      /\ \A d \in Calls \ {c} : pc'[d] = pc[d]
  BY DEF Submit, IInv
<1>4. \A d \in Calls : IF d = c THEN Open(d)' /\ ~Closing(d)'
                       ELSE Open(d)' = Open(d) /\ Closing(d)' = Closing(d)
  BY <1>3, Zenon DEF Open, Closing
<1>5. /\ requests'[i] = c /\ completion_futures'[i] = c
      /\ stream_queues'[i] = IF c \in Streaming THEN c ELSE NoCall
      /\ i \in stream_backlogs' => i \in stream_backlogs \/ c \in Streaming
      /\ undelivered' = undelivered
      /\ \A j \in Ids \ {i} : /\ requests'[j] = requests[j]
                              /\ completion_futures'[j] = completion_futures[j]
                              /\ stream_queues'[j] = stream_queues[j]
                              /\ j \in stream_backlogs' => j \in stream_backlogs
  BY <1>1 DEF Submit, IInv
<1>6. i \notin stream_backlogs /\ undelivered[i] = 0
  BY <1>1, Zenon DEF IInv, Registered
<1> QED
  BY <1>2, <1>3, <1>4, <1>5, <1>6 DEF IInv, Registered

\* No step lets a second call into a registration.
LEMMA RegisteredStep == IInv /\ RegistryTypeOK' /\ [Next]_vars => Registered'
<1> SUFFICES ASSUME IInv, RegistryTypeOK', [Next]_vars
             PROVE  Registered'
  OBVIOUS
<1>1. ASSUME NEW c \in Calls, Submit(c) PROVE Registered'
  BY <1>1, RegisteredSubmit, Zenon
<1>2. ASSUME NEW c \in Calls, Refuse(c) PROVE Registered'
  <2>1. /\ UNCHANGED <<requests, completion_futures, stream_queues,
                       stream_backlogs, undelivered>>
        /\ pc[c] = "new" /\ pc'[c] = "done"
        /\ \A d \in Calls : d # c => pc'[d] = pc[d]
    BY <1>2, Zenon DEF Refuse, requestVars, futureVars, streamVars, IInv,
                RegistryTypeOK
  <2>2. \A d \in Calls : /\ Open(d)' = Open(d) /\ Closing(d)' = Closing(d)
                         /\ pc'[d] = "new" => pc[d] = "new"
    BY <2>1 DEF Open, Closing
  <2> QED
    BY <2>1, <2>2, CallsAssumption
    DEF IInv, Registered, RegistryTypeOK, CallOrNone
<1>3. ASSUME NEW c \in Calls, LeaveStep(c) PROVE Registered'
  BY <1>3, LeaveEffect, RegisteredLeaves
<1>4. CASE HandlerStep
  BY <1>4, UntrackEffect, RegisteredUntracks
<1> QED
  BY <1>1, <1>2, <1>3, <1>4 DEF Next, LeaveStep, HandlerStep

----------------------------------------------------------------------------
(* Aborts                                                                  *)

\* What is registered beside a tracked request is its own.
LEMMA TrackedFacts ==
    ASSUME IInv, NEW i \in Ids, requests[i] # NoCall
    PROVE  /\ requests[i] \in Calls /\ IdOf[requests[i]] = i
           /\ pc[requests[i]] # "new"
           /\ completion_futures[i] \in {NoCall, requests[i]}
           /\ stream_queues[i] \in {NoCall, requests[i]}
           /\ requests[i] \notin told
           /\ state[requests[i]] \notin {"NEW", "COMPLETED", "ABORTED"}
<1>1. requests[i] \in Calls
  BY DEF IInv, RegistryTypeOK, CallOrNone
<1>2. /\ IdOf[requests[i]] = i /\ pc[requests[i]] # "new"
      /\ completion_futures[i] \in {NoCall, requests[i]}
      /\ stream_queues[i] \in {NoCall, requests[i]}
  BY DEF IInv, Registered
<1> QED
  BY <1>1, <1>2 DEF IInv, SentAccounted

\* A step that only gives registrations back, and creates abort tasks only for
\* the request that is tracked, lets no second call under an abort.
AbortsKept ==
    /\ \A j \in Ids :
           /\ requests'[j] \in {requests[j], NoCall}
           /\ completion_futures'[j] \in {completion_futures[j], NoCall}
           /\ stream_queues'[j] \in {stream_queues[j], NoCall}
           /\ abort_tasks'[j] \in {abort_tasks[j], requests[j], NoCall}
    /\ \A c \in Calls : pc'[c] = "new" => pc[c] = "new"
    /\ dropping' # NoCall => /\ abort_tasks'[IdOf[dropping']] = dropping'
                             /\ state'[dropping'] # "COMPLETED"

LEMMA AbortsOwnedKept ==
    ASSUME IInv, AbortsKept
    PROVE  AbortsOwned'
<1>1. ASSUME NEW i \in Ids, abort_tasks'[i] # NoCall
      PROVE  /\ IdOf[abort_tasks'[i]] = i /\ pc'[abort_tasks'[i]] # "new"
             /\ requests'[i] \in {NoCall, abort_tasks'[i]}
             /\ completion_futures'[i] \in {NoCall, abort_tasks'[i]}
             /\ stream_queues'[i] \in {NoCall, abort_tasks'[i]}
  <2>1. CASE abort_tasks'[i] = requests[i]
    BY <1>1, <2>1, TrackedFacts DEF AbortsKept
  <2>2. CASE abort_tasks'[i] = abort_tasks[i]
    <3>1. abort_tasks[i] \in Calls
      BY <1>1, <2>2 DEF IInv, RegistryTypeOK, CallOrNone
    <3> QED
      BY <1>1, <2>2, <3>1, Zenon DEF AbortsKept, IInv, AbortsOwned
  <2> QED
    BY <1>1, <2>1, <2>2, Zenon DEF AbortsKept
<1> QED
  BY <1>1 DEF AbortsKept, AbortsOwned

\* Neither a handler nor a caller that leaves does more.
LEMMA AbortsKeptStep ==
    ASSUME IInv, HandlerStep \/ \E c \in Calls : LeaveStep(c) \/ Refuse(c)
    PROVE  AbortsKept
<1> DEFINE Task == /\ \A j \in Ids : abort_tasks'[j] \in
                          {abort_tasks[j], requests[j], NoCall}
                   /\ dropping' # NoCall =>
                          /\ abort_tasks'[IdOf[dropping']] = dropping'
                          /\ state'[dropping'] # "COMPLETED"
<1> USE CallsAssumption
<1>1. /\ abort_tasks \in [Ids -> CallOrNone]
      /\ state \in [Calls -> {"NEW", "PENDING", "RUNNING", "COMPLETED", "FAILED",
                              "ABORTED"}]
      /\ dropping # NoCall =>
             /\ IdOf[dropping] \in Ids /\ dropping \in Calls
             /\ abort_tasks[IdOf[dropping]] = dropping
             /\ state[dropping] # "COMPLETED"
  BY CallsAssumption, Zenon DEF IInv, AbortsOwned, RegistryTypeOK, CallOrNone
<1>2. ASSUME HandlerStep, Task PROVE AbortsKept
  <2>1. Untracks
    BY <1>2, UntrackEffect, Zenon
  <2> QED
    BY <1>2, <2>1, Zenon DEF AbortsKept, Untracks, Open
<1> HIDE DEF Task
<1>3. CASE \/ \E c \in Calls : HandleFailure(c) \/ HandleStream(c)
          \/ \E c \in Calls, s \in Stages : HandleSuccess(c, s)
  <2>1. abort_tasks' = abort_tasks /\ dropping' = NoCall
    BY <1>3, Zenon
    DEF HandleFailure, HandleStream, HandleSuccess, LoopReady, LoopAgain
  <2>2. Task
    BY <2>1 DEF Task
  <2> QED
    BY <1>2, <1>3, <2>2, Zenon DEF HandlerStep
<1>4. ASSUME NEW c \in Calls, SendDone(c) \/ Take(c) PROVE AbortsKept
  <2>1. Task
    BY <1>1, <1>4 DEF Task, SendDone, Take, requestVars, loopVars
  <2> QED
    BY <1>2, <1>4, <2>1 DEF HandlerStep
<1>5. CASE FailPendingRequests \/ UNCHANGED vars
  <2>1. Task
    BY <1>1, <1>5 DEF Task, FailPendingRequests, vars, requestVars, loopVars
  <2> QED
    BY <1>2, <1>5, <2>1, Zenon DEF HandlerStep
<1>6. ASSUME NEW c \in Calls, HandleAdminDrop(c) PROVE AbortsKept
  <2>1. IdOf[c] \in Ids /\ requests[IdOf[c]] # NoCall
    BY <1>6, CallsAssumption, Zenon DEF HandleAdminDrop, Ignores
  <2>2. /\ IdOf[requests[IdOf[c]]] = IdOf[c]
        /\ state[requests[IdOf[c]]] \notin {"COMPLETED", "ABORTED"}
        /\ abort_tasks[IdOf[c]] # NoCall =>
               abort_tasks[IdOf[c]] = requests[IdOf[c]]
    BY <2>1, TrackedFacts, Zenon DEF IInv, AbortsOwned
  <2>3. /\ abort_tasks' = IF AbortStarts(IdOf[c])
                          THEN [abort_tasks EXCEPT ![IdOf[c]] = requests[IdOf[c]]]
                          ELSE abort_tasks
        /\ dropping' = requests[IdOf[c]] /\ state' = state
    BY <1>6, Zenon DEF HandleAdminDrop, BeginAbort, requestVars
  <2>4. AbortStarts(IdOf[c]) => Task
    BY <1>1, <2>1, <2>2, <2>3 DEF Task
  <2>5. ~AbortStarts(IdOf[c]) => Task
    BY <1>1, <2>1, <2>2, <2>3 DEF Task, AbortStarts
  <2>6. Task
    BY <2>4, <2>5
  <2> QED
    BY <1>2, <1>6, <2>6, Zenon DEF HandlerStep
<1>7. ASSUME NEW i \in Ids, Abort(i) PROVE AbortsKept
  <2>1. Task
    BY <1>1, <1>7 DEF Task, Abort, BeginAbort, AbortStarts, requestVars, loopVars
  <2> QED
    BY <1>2, <1>7, <2>1 DEF HandlerStep
<1>8. ASSUME NEW i \in Ids, RunAbort(i) \/ FailAbort(i) \/ FailDroppedAbort(i)
      PROVE  AbortsKept
  <2>1. abort_tasks' = [abort_tasks EXCEPT ![i] = NoCall]
    BY <1>8 DEF RunAbort, FailAbort, FailDroppedAbort
  <2>2. dropping' # NoCall => /\ dropping' = dropping /\ IdOf[dropping] # i
                              /\ state'[dropping] # "COMPLETED"
    BY <1>1, <1>8
    DEF RunAbort, FailAbort, FailDroppedAbort, LoopAwaits, requestVars, loopVars
  <2>3. Task
    BY <1>1, <2>1, <2>2 DEF Task
  <2> QED
    BY <1>2, <1>8, <2>3 DEF HandlerStep
<1>9. ASSUME NEW c \in Calls, LeaveStep(c) PROVE AbortsKept
  BY <1>1, <1>9, LeaveEffect, CallsAssumption DEF Leaves, AbortsKept
<1>10. ASSUME NEW c \in Calls, Refuse(c) PROVE AbortsKept
  <2>1. \A d \in Calls : pc'[d] = "new" => pc[d] = "new"
    BY <1>10 DEF Refuse, IInv, RegistryTypeOK
  <2> QED
    BY <1>1, <1>10, <2>1
    DEF Refuse, AbortsKept, requestVars, futureVars, streamVars, loopVars
<1> QED
  BY <1>3, <1>4, <1>5, <1>6, <1>7, <1>8, <1>9, <1>10, Zenon DEF HandlerStep

\* No step lets a second call under a pending abort.
LEMMA AbortsOwnedStep == IInv /\ [Next]_vars => AbortsOwned'
<1> SUFFICES ASSUME IInv, [Next]_vars
             PROVE  AbortsOwned'
  OBVIOUS
<1>1. ASSUME NEW c \in Calls, Submit(c) PROVE AbortsOwned'
  BY <1>1, CallsAssumption, SMTT(30)
  DEF IInv, RegistryTypeOK, CallOrNone, AbortsOwned, Submit, Admits, Reserved,
      loopVars
<1> QED
  BY <1>1, AbortsKeptStep, AbortsOwnedKept DEF Next, HandlerStep, LeaveStep

=============================================================================
