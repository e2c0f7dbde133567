------------------------- MODULE CoordinatorProofs --------------------------
(*****************************************************************************)
(* The theorems about the Coordinator, for any number of calls, ids and      *)
(* terminal stages, any assignment of ids to calls and any bounds.           *)
(*****************************************************************************)
EXTENDS CoordinatorOwnership, FiniteSetTheorems

----------------------------------------------------------------------------
(* What was sent                                                           *)

\* The accounting with the maps a handler hands to queue_stream_message, in the
\* place of requests and state
AccountedBy(R, S) ==
    /\ \A j \in Ids : R[j] # NoCall =>
           /\ IdOf[R[j]] = j /\ R[j] \notin told
           /\ S[R[j]] \notin {"NEW", "COMPLETED", "ABORTED"}
    /\ \A c \in Calls : pc[c] = "sending" \/ c \in sent =>
           R[IdOf[c]] = c \/ c \in told \/ S[c] = "COMPLETED" \/ fatal

\* queue_stream_message untracks only requests that it aborts.
LEMMA AccountedQueue ==
    ASSUME IInv, NEW i \in Ids, NEW m, NEW R \in [Ids -> CallOrNone],
           NEW S \in [Calls -> {"NEW", "PENDING", "RUNNING", "COMPLETED",
                               "FAILED", "ABORTED"}],
           NEW P, AccountedBy(R, S), QueueStreamMessage(i, m, R, S, P),
           UNCHANGED <<pc, sent, fatal>>, RegistryTypeOK',
           \A j \in Ids : R[j] # NoCall => pc[R[j]] # "new"
    PROVE  SentAccounted'
<1>2. PICK failed \in SUBSET Ids, reached \in SUBSET Ids :
          Settles(i, m, R, S, failed, reached)
  BY QueueEffect, Zenon
<1> DEFINE active == {j \in failed : R[j] # NoCall /\ S[R[j]] # "FAILED"}
<1>3. /\ reached \subseteq active
      /\ requests' = [j \in Ids |-> IF j \in reached THEN NoCall ELSE R[j]]
      /\ state' = [c \in Calls |->
             IF \E j \in active : R[j] = c THEN "FAILED" ELSE S[c]]
      /\ told' = told \cup {R[j] : j \in reached}
  BY <1>2 DEF Settles
<1>4. \A j \in active : /\ j \in Ids /\ R[j] \in Calls /\ IdOf[R[j]] = j
                        /\ S[R[j]] # "COMPLETED"
  BY CallsAssumption DEF AccountedBy, CallOrNone
<1>5. \A j \in Ids : requests'[j] # NoCall =>
          /\ j \notin reached /\ requests'[j] = R[j] /\ R[j] \in Calls
          /\ R[j] \notin told'
          /\ state'[R[j]] \notin {"NEW", "COMPLETED", "ABORTED"}
  BY <1>3, <1>4 DEF AccountedBy, CallOrNone
<1>6. \A c \in Calls : c \in told' =>
          c \in told \/ \E j \in Ids : R[j] # NoCall /\ R[j] = c
  BY <1>3
<1>7. \A c \in Calls : S[c] = "COMPLETED" => state'[c] = "COMPLETED"
  BY <1>3, <1>4
<1>8. \A c \in Calls : R[IdOf[c]] = c => requests'[IdOf[c]] = c \/ c \in told'
  BY <1>3, CallsAssumption
<1>9. told \subseteq told'
  BY <1>3
<1> HIDE DEF active
<1>10. \A c \in Calls : pc[c] = "new" => c \notin told'
  BY <1>6 DEF IInv, SentAccounted
<1>11. \A c \in Calls : pc[c] = "sending" \/ c \in sent =>
           requests'[IdOf[c]] = c \/ c \in told' \/ state'[c] = "COMPLETED" \/ fatal
  BY <1>7, <1>8, <1>9, Zenon DEF AccountedBy
<1> QED
  BY <1>5, <1>10, <1>11 DEF IInv, SentAccounted

\* A step of callers that leaves the requests and what the stages know alone
\* keeps the accounting: only a call that was sending can become a sent one.
LEMMA AccountedQuietly ==
    ASSUME IInv, UNCHANGED <<requests, state, told, fatal>>,
           \A c \in Calls : pc'[c] \in {"new", "sending"} => pc'[c] = pc[c],
           \A c \in Calls : pc[c] = "new" => c \notin sent',
           \A c \in Calls : c \in sent' =>
               c \in sent \/ (pc[c] = "sending" /\ pc'[c] # "sending")
    PROVE  SentAccounted'
  BY DEF IInv, SentAccounted

\* The callers' own steps, apart from the first and from a send that failed,
\* are of that kind.
LEMMA AccountedCallers ==
    ASSUME IInv, NEW c \in Calls,
           \/ Refuse(c) \/ SendCancelled(c) \/ Return(c) \/ Cancel(c)
           \/ ReleaseFinally(c) \/ Take(c) \/ TakeFailure(c) \/ EndStream(c)
           \/ CloseEarly(c) \/ CloseFinally(c)
    PROVE  SentAccounted'
<1>1. \A d \in Calls : pc[d] = "new" => d \notin sent
  BY Zenon DEF IInv, SentAccounted
<1>2. pc \in [Calls -> {"new", "sending", "waiting", "release_wait", "release",
                       "close_wait", "close", "done"}]
  BY Zenon DEF IInv, RegistryTypeOK
<1>3. CASE Refuse(c)
  BY <1>1, <1>2, <1>3, AccountedQuietly, Zenon DEF Refuse, requestVars
<1>4. CASE Take(c)
  BY <1>1, <1>4, AccountedQuietly, Zenon DEF Take, requestVars
<1>5. CASE \/ SendCancelled(c) \/ Return(c) \/ Cancel(c) \/ ReleaseFinally(c)
          \/ TakeFailure(c) \/ EndStream(c) \/ CloseEarly(c) \/ CloseFinally(c)
  <2>1. /\ pc[c] # "new" /\ pc'[c] \notin {"new", "sending"}
        /\ \A d \in Calls \ {c} : pc'[d] = pc[d]
    BY <1>5, LeaveEffect, Zenon DEF LeaveStep, Leaves, Open
  <2>2. /\ UNCHANGED <<requests, state, told, fatal>>
        /\ sent' = sent \/ (pc[c] = "sending" /\ sent' = sent \cup {c})
    BY <1>5, Zenon DEF SendCancelled, Return, Cancel, ReleaseFinally,
                TakeFailure, EndStream, CloseEarly, CloseFinally, requestVars
  <2> QED
    BY <1>1, <2>1, <2>2, AccountedQuietly, Zenon
<1> QED
  BY <1>3, <1>4, <1>5, Zenon

\* A request that fails is untracked exactly if the stages are told.
LEMMA FailRequestCases ==
    ASSUME NEW i, NEW c, \E ok \in BOOLEAN : FailRequest(i, c, ok)
    PROVE  /\ state' = [state EXCEPT ![c] = "FAILED"]
           /\ \/ /\ requests' = [requests EXCEPT ![i] = NoCall]
                 /\ told' = told \cup {c}
              \/ UNCHANGED <<requests, told>>
<1>1. PICK ok \in BOOLEAN : FailRequest(i, c, ok)
  BY Zenon
<1>2. CASE ok = TRUE
  BY <1>1, <1>2 DEF FailRequest
<1>3. CASE ok = FALSE
  BY <1>1, <1>3 DEF FailRequest
<1> QED
  BY <1>2, <1>3, Zenon

\* No handler loses a request that was sent.
LEMMA SentAccountedStep == IInv /\ RegistryTypeOK' /\ [Next]_vars => SentAccounted'
<1> SUFFICES ASSUME IInv, RegistryTypeOK', [Next]_vars
             PROVE  SentAccounted'
  OBVIOUS
<1>0. /\ RegistryTypeOK /\ SentAccounted
      /\ \A i \in Ids : requests[i] # NoCall =>
             /\ requests[i] \in Calls /\ IdOf[requests[i]] = i
             /\ pc[requests[i]] # "new"
      /\ \A i \in Ids : abort_tasks[i] # NoCall =>
             /\ abort_tasks[i] \in Calls /\ IdOf[abort_tasks[i]] = i
             /\ pc[abort_tasks[i]] # "new"
             /\ requests[i] \in {NoCall, abort_tasks[i]}
  BY TrackedFacts DEF IInv, AbortsOwned, RegistryTypeOK, CallOrNone
<1> USE <1>0, CallsAssumption
    DEF RegistryTypeOK, CallOrNone, SentAccounted
<1>1. ASSUME NEW c \in Calls, Submit(c) PROVE SentAccounted'
  BY <1>1 DEF Submit, Admits, Reserved
<1>2. ASSUME NEW c \in Calls, SendDone(c) PROVE SentAccounted'
  BY <1>2 DEF SendDone, requestVars
<1>3. ASSUME NEW c \in Calls, SendFails(c) PROVE SentAccounted'
  <2>1. requests[IdOf[c]] = NoCall \/ requests[IdOf[c]] = c
    BY <1>3 DEF SendFails, IInv, Registered, Open
  <2> QED
    BY <1>3, <2>1 DEF SendFails
<1>4. ASSUME NEW c \in Calls, HandleFailure(c) PROVE SentAccounted'
  <2>1. CASE Ignores(IdOf[c])
    BY <1>4, <2>1 DEF HandleFailure, requestVars, callerVars
  <2>2. CASE ~Ignores(IdOf[c])
    <3> DEFINE o == requests[IdOf[c]]
    <3>0. \E ok \in BOOLEAN : FailRequest(IdOf[c], o, ok)
      BY <1>4, <2>2, Zenon DEF HandleFailure
    <3>1. /\ state' = [state EXCEPT ![o] = "FAILED"]
          /\ \/ /\ requests' = [requests EXCEPT ![IdOf[c]] = NoCall]
                /\ told' = told \cup {o}
             \/ UNCHANGED <<requests, told>>
      BY <3>0, FailRequestCases
    <3>2. o \in Calls /\ UNCHANGED <<pc, sent, fatal>>
      BY <1>4, <2>2 DEF HandleFailure, Ignores, callerVars
    <3> QED
      BY <3>1, <3>2
  <2> QED
    BY <2>1, <2>2, Zenon
<1>5. ASSUME NEW c \in Calls, HandleStream(c) PROVE SentAccounted'
  <2>1. CASE IdOf[c] \in stream_backlogs
    <3>1. /\ AccountedBy(requests, state)
          /\ \A j \in Ids : requests[j] # NoCall => pc[requests[j]] # "new"
      BY Zenon DEF AccountedBy
    <3>2. /\ QueueStreamMessage(IdOf[c], Chunk(chunks[c] + 1), requests, state,
                                partial_results)
          /\ UNCHANGED <<pc, sent, fatal>>
      BY <1>5, <2>1, Zenon DEF HandleStream, callerVars
    <3>3. IdOf[c] \in Ids /\ RegistryTypeOK
      OBVIOUS
    <3> HIDE DEF SentAccounted
    <3> QED
      BY <3>1, <3>2, <3>3, AccountedQueue
  <2>2. CASE IdOf[c] \notin stream_backlogs
    BY <1>5, <2>2 DEF HandleStream, requestVars, callerVars
  <2> QED
    BY <2>1, <2>2
<1>6. ASSUME NEW c \in Calls, NEW s \in Stages, HandleSuccess(c, s)
       PROVE  SentAccounted'
  <2> DEFINE i == IdOf[c]
             parts == partial_results[i] \cup {s}
             single == Cardinality(Expected[requests[i]]) <= 1
             complete == Completes(requests[i], parts)
             R == IF complete THEN [requests EXCEPT ![i] = NoCall] ELSE requests
             S == IF complete THEN [state EXCEPT ![requests[i]] = "COMPLETED"]
                  ELSE state
             P == IF single THEN partial_results
                  ELSE [partial_results EXCEPT
                            ![i] = IF complete THEN {} ELSE parts]
  <2>1. CASE UNCHANGED <<requestVars, told>>
    BY <1>6, <2>1, Zenon DEF HandleSuccess, requestVars, callerVars
  <2>2. CASE ~UNCHANGED <<requestVars, told>>
    <3>1. requests[i] \in Calls
      BY <1>6, <2>2 DEF HandleSuccess, Ignores
    <3>2. /\ UNCHANGED <<pc, sent, fatal>>
          /\ \/ QueueStreamMessage(i, Complete(s), R, S, P)
             \/ requests' = R /\ state' = S /\ UNCHANGED told
      BY <1>6, <2>2, Zenon DEF HandleSuccess, requestVars, callerVars
    <3>3. /\ R \in [Ids -> CallOrNone]
          /\ S \in [Calls -> {"NEW", "PENDING", "RUNNING", "COMPLETED",
                              "FAILED", "ABORTED"}]
      BY <3>1, Zenon
    <3>4. AccountedBy(R, S) /\ \A j \in Ids : R[j] # NoCall => pc[R[j]] # "new"
      BY <3>1 DEF AccountedBy
    <3> HIDE DEF R, S, P
    <3>5. CASE QueueStreamMessage(i, Complete(s), R, S, P)
      <4>1. i \in Ids
        OBVIOUS
      <4> HIDE DEF i, RegistryTypeOK, SentAccounted
      <4> QED
        BY <3>2, <3>3, <3>4, <3>5, <4>1, AccountedQueue, SMTT(60)
    <3>6. CASE requests' = R /\ state' = S /\ UNCHANGED told
      BY <3>2, <3>4, <3>6, Zenon DEF AccountedBy
    <3> QED
      BY <3>2, <3>5, <3>6, Zenon
  <2> QED
    BY <2>1, <2>2, Zenon
<1>7. ASSUME NEW i \in Ids, RunAbort(i) PROVE SentAccounted'
  <2>1. /\ abort_tasks[i] \in Calls /\ IdOf[abort_tasks[i]] = i
        /\ requests[i] = NoCall \/ requests[i] = abort_tasks[i]
        /\ pc[abort_tasks[i]] # "new"
    BY <1>7, Zenon DEF RunAbort
  <2>2. \A c \in Calls : pc'[c] \in {"new", "sending"} => pc'[c] = pc[c]
    BY <1>7, Zenon DEF RunAbort, WakeAborters
  <2>3. /\ told' = told \cup {abort_tasks[i]} /\ UNCHANGED <<fatal, sent>>
        /\ \A j \in Ids : requests'[j] = IF j = i THEN NoCall ELSE requests[j]
        /\ \A c \in Calls : c # requests[i] => state'[c] = state[c]
    BY <1>7, <2>1 DEF RunAbort, requestVars
  <2>4. \A c \in Calls : \/ pc'[c] = pc[c]
                         \/ pc[c] \notin {"new", "sending"}
    BY <1>7, Zenon DEF RunAbort, WakeAborters
  <2> QED
    BY <2>1, <2>2, <2>3, <2>4
<1>8. ASSUME NEW c \in Calls, HandleAdminDrop(c) PROVE SentAccounted'
  BY <1>8, AccountedQuietly, Zenon DEF HandleAdminDrop, requestVars, callerVars
<1>9. ASSUME NEW i \in Ids, Abort(i) PROVE SentAccounted'
  BY <1>9, AccountedQuietly, Zenon DEF Abort, requestVars, callerVars
<1>10. ASSUME NEW i \in Ids, FailAbort(i) PROVE SentAccounted'
  BY <1>10, Zenon
  DEF FailAbort, WakeAborters, LoopAwaits, requestVars, futureVars,
      streamVars, loopVars, callerVars, stageVars
<1>11. ASSUME NEW i \in Ids, FailDroppedAbort(i) PROVE SentAccounted'
  <2>0. \E ok \in BOOLEAN : FailRequest(i, dropping, ok)
    BY <1>11, Zenon DEF FailDroppedAbort
  <2>1. /\ state' = [state EXCEPT ![dropping] = "FAILED"]
        /\ \/ /\ requests' = [requests EXCEPT ![i] = NoCall]
              /\ told' = told \cup {dropping}
           \/ UNCHANGED <<requests, told>>
    BY <2>0, FailRequestCases
  <2>2. /\ dropping \in Calls /\ IdOf[dropping] = i /\ pc[dropping] # "new"
        /\ requests[i] \in {NoCall, dropping} /\ state[dropping] # "COMPLETED"
    BY <1>11 DEF FailDroppedAbort, LoopAwaits, IInv, AbortsOwned
  <2>3. \A c \in Calls : \/ pc'[c] = pc[c]
                         \/ /\ pc[c] \notin {"new", "sending"}
                            /\ pc'[c] \notin {"new", "sending"}
    BY <1>11 DEF FailDroppedAbort, WakeAborters
  <2>4. UNCHANGED <<fatal, sent>>
    BY <1>11 DEF FailDroppedAbort
  <2> QED
    BY <2>1, <2>2, <2>3, <2>4
<1>12. CASE FailPendingRequests
  BY <1>12
  DEF FailPendingRequests, requestVars, futureVars, streamVars, loopVars,
      callerVars, stageVars
<1>13. CASE UNCHANGED vars
  BY <1>13
  DEF vars, requestVars, futureVars, streamVars, loopVars, callerVars,
      stageVars
<1> HIDE DEF RegistryTypeOK, SentAccounted
<1> QED
  BY <1>1, <1>2, <1>3, <1>4, <1>5, <1>6, <1>7, <1>8, <1>9, <1>10, <1>11, <1>12,
     <1>13, AccountedCallers, Zenon
  DEF Next

----------------------------------------------------------------------------
(* The invariant and its consequences                                      *)

\* The Coordinator starts with nothing registered.
LEMMA InitIInv == Init => IInv
<1> SUFFICES ASSUME Init PROVE IInv
  OBVIOUS
<1> USE CallsAssumption, BoundsAssumption DEF Init
<1>1. RegistryTypeOK
  BY Zenon DEF RegistryTypeOK, CallOrNone
<1>2. QueueTypeOK
  BY DEF QueueTypeOK
<1>3. Registered /\ AbortsOwned /\ SentAccounted
  BY DEF Registered, AbortsOwned, SentAccounted, Open, Closing
<1> QED
  BY <1>1, <1>2, <1>3, Zenon DEF IInv

\* The ownership invariant is inductive.
THEOREM Ownership == Spec => []IInv
<1>1. IInv /\ [Next]_vars => IInv'
  <2> SUFFICES ASSUME IInv, [Next]_vars PROVE IInv'
    OBVIOUS
  <2>1. RegistryTypeOK'
    BY RegistryTypeStep, Zenon DEF IInv
  <2>2. QueueTypeOK'
    BY QueueTypeStep, Zenon DEF IInv
  <2>3. Registered' /\ AbortsOwned' /\ SentAccounted'
    BY <2>1, RegisteredStep, AbortsOwnedStep, SentAccountedStep, Zenon
  <2> QED
    BY <2>1, <2>2, <2>3 DEF IInv
<1> QED
  BY <1>1, InitIInv, PTL DEF Spec

\* Every map, set and counter keeps its type.
THEOREM TypeOKHolds == Spec => []TypeOK
<1>1. ASSUME Init PROVE CallerTypeOK
  <2>1. taken \in [Calls -> 0..MaxChunks] /\ failures \in [Calls -> 0..MaxFailures]
    BY <1>1, BoundsAssumption DEF Init
  <2>2. future \in [Calls -> {"unset", "pending", "result", "exception",
                             "cancelled"}]
    BY <1>1, Zenon DEF Init
  <2>3. /\ idle_longer \in SUBSET (Ids \X Ids)
        /\ partial_results \in [Ids -> SUBSET Stages]
        /\ completed_stages \in [Calls -> SUBSET Stages]
        /\ finished \in [Calls -> SUBSET Stages]
    BY <1>1, Zenon DEF Init
  <2>4. loop_exited \in BOOLEAN /\ succeeded \in SUBSET Calls
    BY <1>1, Zenon DEF Init
  <2> QED
    BY <2>1, <2>2, <2>3, <2>4, Zenon DEF CallerTypeOK
<1>2. IInv /\ CallerTypeOK /\ [Next]_vars => CallerTypeOK'
  BY CallerTypeStep DEF IInv
<1>3. IInv /\ CallerTypeOK => TypeOK
  BY DEF IInv, TypeOK
<1> QED
  BY <1>1, <1>2, <1>3, Ownership, PTL DEF Spec

\* request_id_is_reserved is enough to keep a request id, its future and its
\* queue with one call, however many calls share the id.
THEOREM OneOwnerHolds == Spec => []OneOwner
<1>1. IInv => OneOwner
  BY DEF IInv, Registered, OneOwner, Holders
<1> QED
  BY <1>1, Ownership, PTL

\* An abort task never meets a later call with the same request id.
THEOREM AbortHitsItsCallHolds == Spec => []AbortHitsItsCall
<1>1. IInv => AbortHitsItsCall
  BY Zenon DEF IInv, AbortsOwned, AbortHitsItsCall, Holders
<1> QED
  BY <1>1, Ownership, PTL

\* A request the stages received is tracked until they are told, it completes
\* or the Coordinator stops.
THEOREM SentStaysOwnedHolds == Spec => []SentStaysOwned
<1>1. IInv => SentStaysOwned
  BY Zenon DEF IInv, RegistryTypeOK, SentAccounted, SentStaysOwned
<1> QED
  BY <1>1, Ownership, PTL

\* A failed request is kept only for the sake of the abort it still owes.
THEOREM FailedOwnedIsUntoldHolds == Spec => []FailedOwnedIsUntold
<1>1. IInv => FailedOwnedIsUntold
  BY CallsAssumption, Zenon DEF IInv, SentAccounted, FailedOwnedIsUntold
<1> QED
  BY <1>1, Ownership, PTL

\* A step tracks a new request only through submit_request.
LEMMA InFlightStep ==
    ASSUME IInv, [Next]_vars
    PROVE  InFlight' \subseteq InFlight \/ \E c \in Calls : Submit(c)
<1>1. ASSUME NEW c \in Calls, LeaveStep(c) PROVE InFlight' \subseteq InFlight
  <2>1. Leaves(c)
    BY <1>1, LeaveEffect, Zenon
  <2> QED
    BY <2>1, Zenon DEF Leaves, InFlight
<1>2. CASE HandlerStep
  <2>1. Untracks
    BY <1>2, UntrackEffect, Zenon
  <2> QED
    BY <2>1 DEF Untracks, InFlight
<1>3. ASSUME NEW c \in Calls, Refuse(c) PROVE InFlight' = InFlight
  BY <1>3 DEF Refuse, InFlight, requestVars
<1> QED
  BY <1>1, <1>2, <1>3, Zenon DEF Next, LeaveStep, HandlerStep

\* The admission check of submit_request bounds the tracked requests.
THEOREM AdmissionBoundedHolds == Spec => []AdmissionBounded
<1> DEFINE Bounded == IsFiniteSet(InFlight) /\ AdmissionBounded
<1>1. Init => Bounded
  <2> SUFFICES ASSUME Init PROVE Bounded
    OBVIOUS
  <2>1. InFlight = {}
    BY Zenon DEF Init, InFlight
  <2> QED
    BY <2>1, FS_EmptySet, BoundsAssumption DEF AdmissionBounded
<1>2. IInv /\ Bounded /\ [Next]_vars => Bounded'
  <2> SUFFICES ASSUME IInv, Bounded, [Next]_vars
               PROVE  Bounded'
    OBVIOUS
  <2>1. IsFiniteSet(InFlight) /\ Cardinality(InFlight) \in Nat
    BY FS_CardinalityType, Zenon
  <2>2. CASE InFlight' \subseteq InFlight
    <3>1. /\ IsFiniteSet(InFlight')
          /\ Cardinality(InFlight') <= Cardinality(InFlight)
      BY <2>1, <2>2, FS_Subset, Zenon
    <3>2. Cardinality(InFlight') \in Nat
      BY <3>1, FS_CardinalityType, Zenon
    <3> QED
      BY <2>1, <3>1, <3>2, BoundsAssumption DEF AdmissionBounded
  <2>3. ASSUME NEW c \in Calls, Submit(c) PROVE Bounded'
    <3>1. InFlight' \subseteq InFlight \cup {IdOf[c]}
      BY <2>3, CallsAssumption, Zenon DEF Submit, InFlight, IInv, RegistryTypeOK
    <3>2. Cardinality(InFlight) < MaxInFlight
      BY <2>3, Zenon DEF Submit, Admits
    <3>3. /\ IsFiniteSet(InFlight \cup {IdOf[c]})
          /\ Cardinality(InFlight \cup {IdOf[c]}) <= Cardinality(InFlight) + 1
      <4>1. /\ IsFiniteSet(InFlight \cup {IdOf[c]})
            /\ Cardinality(InFlight \cup {IdOf[c]}) =
                   IF IdOf[c] \in InFlight THEN Cardinality(InFlight)
                   ELSE Cardinality(InFlight) + 1
        BY <2>1, FS_AddElement, Zenon
      <4> QED
        BY <2>1, <4>1
    <3>4. /\ IsFiniteSet(InFlight')
          /\ Cardinality(InFlight') <= Cardinality(InFlight \cup {IdOf[c]})
      BY <3>1, <3>3, FS_Subset, Zenon
    <3>5. /\ Cardinality(InFlight \cup {IdOf[c]}) \in Nat
          /\ Cardinality(InFlight') \in Nat
      BY <3>3, <3>4, FS_CardinalityType, Zenon
    <3> QED
      BY <2>1, <3>2, <3>3, <3>4, <3>5, BoundsAssumption DEF AdmissionBounded
  <2> QED
    BY <2>2, <2>3, InFlightStep, Zenon
<1> QED
  BY <1>1, <1>2, Ownership, PTL DEF Spec

=============================================================================
