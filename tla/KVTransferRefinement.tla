------------------------ MODULE KVTransferRefinement ------------------------
(***************************************************************************)
(* KVTransfer implements PageHandover: each of its steps reserves,         *)
(* refuses, starts to read, commits, returns or releases the pages of      *)
(* transfers in the way PageHandover allows, or leaves all pages alone.    *)
(***************************************************************************)
EXTENDS KVTransferProofs

\* What a step does to the pages, in the terms of KVTransfer.
SameSource == \A t \in Transfers : lease[t] = "released" <=> lease'[t] = "released"
SameReading == \A t \in Transfers : Copying(t) <=> Copying(t)'

\* A step of PageHandover, or none.
Promised == [Handover!Next]_(Handover!vars)

Source == [t \in Transfers |->
              IF lease[t] = "released" THEN "released" ELSE "held"]
Reading == {t \in Transfers : Copying(t)}

\* A step that keeps leases, copies and destinations stutters.
LEMMA Stutters ==
    ASSUME SameSource, SameReading, destination' = destination
    PROVE  UNCHANGED Handover!vars
  BY DEF SameSource, SameReading, Handover!vars

\* A step that releases the lease of a transfer that is not being copied.
LEMMA Releases ==
    ASSUME NEW u \in Transfers, lease[u] # "released", ~Copying(u),
           TypeOK, lease' = [lease EXCEPT ![u] = "released"],
           inbound' = inbound, destination' = destination
    PROVE  Handover!Next
<1>1. Source' = [Source EXCEPT ![u] = "released"]
  BY DEF Source, TypeOK
<1>2. Reading' = Reading /\ u \notin Reading /\ Source[u] = "held"
  BY DEF Source, Reading, Copying
<1>3. Handover!Release(u)
  BY <1>1, <1>2 DEF Handover!Release, Source, Reading
<1> QED
  BY <1>3 DEF Handover!Next

\* A step that gives back the reservations in S, none of which is being read
\* but perhaps that of u, whose copy ends.
LEMMA Returns ==
    ASSUME NEW S \in SUBSET Transfers, NEW u \in S, TypeOK,
           \A t \in S : destination[t] = "reserved" /\ ~Copying(t)',
           \A t \in S : Copying(t) => t = u,
           \A t \in Transfers \ S : Copying(t) <=> Copying(t)',
           lease' = lease,
           destination' = [t \in Transfers |->
                              IF t \in S THEN "returned" ELSE destination[t]]
    PROVE  Handover!Next
<1>1. Source' = Source
  BY DEF Source
<1>2. Reading' = Reading \ S
  BY DEF Reading
<1>3. S \intersect Reading \subseteq {u}
  BY DEF Reading
<1>4. Handover!Return(S)
  BY <1>1, <1>2, <1>3 DEF Handover!Return, Source, Reading
<1> QED
  BY <1>4 DEF Handover!Next

\* The end of a call releases its lease if register_pending has not taken it,
\* and then nothing was exposed.
LEMMA Leaves ==
    ASSUME TypeOK, KVInv, NEW u \in Transfers, NEW how, Leave(u, how),
           inbound' = inbound, destination' = destination
    PROVE  Promised
<1>1. CASE lease[u] = "call"
  <2>1. ~Copying(u)
    BY <1>1 DEF KVInv, SendInv, Quiet, Unexposed
  <2>2. lease' = [lease EXCEPT ![u] = "released"]
    BY <1>1 DEF Leave, TypeOK
  <2> QED
    BY <1>1, <2>1, <2>2, Releases DEF Promised
<1>2. CASE lease[u] # "call"
  <2>1. lease' = lease
    BY <1>2 DEF Leave, TypeOK
  <2> QED
    BY <2>1, Stutters DEF Promised, SameSource, SameReading, Copying
<1> QED
  BY <1>1, <1>2

\* The end of a watcher releases the lease only if the receiver is done.
LEMMA WatchEnds ==
    ASSUME TypeOK, KVInv, NEW u \in Transfers, NEW how, NEW keep \in BOOLEAN,
           EndWatch(u, how, keep), pending[u] # "none",
           keep \/ u \in receiver_terminal,
           inbound' = inbound, destination' = destination
    PROVE  Promised
<1>1. CASE keep
  <2>1. lease' = lease
    BY <1>1 DEF EndWatch, TypeOK
  <2> QED
    BY <2>1, Stutters DEF Promised, SameSource, SameReading, Copying
<1>2. CASE ~keep
  <2>1. ~Copying(u) /\ lease[u] # "released"
    BY <1>2 DEF KVInv, SendInv, Quiet
  <2>2. lease' = [lease EXCEPT ![u] = "released"]
    BY <1>2 DEF EndWatch, TypeOK
  <2> QED
    BY <2>1, <2>2, Releases DEF Promised
<1> QED
  BY <1>1, <1>2

\* cleanup returns the idle reservations of a request; the copy of a transfer
\* in E has ended.
LEMMA CleansUp ==
    ASSUME TypeOK, KVInv, NEW r \in Requests, NEW E \in SUBSET Transfers,
           \A t \in E : Copying(t), \A t, u \in E : t = u,
           Cleanup(r, E), lease' = lease
    PROVE  Promised
<1> DEFINE Idle == {t \in Transfers \ E : RequestOf[t] = r /\ inbound[t] = "reserved"}
           S == E \union Idle
<1>1. destination' = [t \in Transfers |->
                         IF t \in S THEN "returned" ELSE destination[t]]
  BY Zenon DEF Cleanup
<1>2. \A t \in S : destination[t] = "reserved"
  BY DEF KVInv, RecvInv, Copying
<1>3. inbound' = [t \in Transfers |->
         CASE t \in S -> "none"
           [] t \in Transfers \ E /\ RequestOf[t] = r /\ Copying(t) -> "poisoned"
           [] OTHER -> inbound[t]]
  BY DEF Cleanup
<1>4. \A t \in S : ~Copying(t)'
  BY <1>3 DEF Copying
<1>5. \A t \in Transfers \ S : Copying(t) <=> Copying(t)'
  BY <1>3 DEF Copying
<1>6. CASE S = {}
  <2>1. destination' = destination
    BY <1>1, <1>6 DEF TypeOK
  <2> QED
    BY <1>5, <1>6, <2>1, Stutters DEF Promised, SameSource, SameReading
<1>7. CASE E # {}
  <2>1. PICK u \in E : E = {u}
    BY <1>7
  <2>2. \A t \in S : Copying(t) => t = u
    BY <2>1 DEF Copying
  <2> HIDE DEF S
  <2> QED
    BY <1>1, <1>2, <1>4, <1>5, <2>1, <2>2, Returns DEF Promised, S
<1>8. CASE E = {} /\ S # {}
  <2>1. PICK u : u \in S
    BY <1>8
  <2>2. \A t \in S : Copying(t) => t = u
    BY <1>8 DEF Copying
  <2> QED
    BY <1>1, <1>2, <1>4, <1>5, <2>1, <2>2, Returns DEF Promised
<1> QED
  BY <1>6, <1>7, <1>8

\* A step that keeps leases, entries of inbound_kv and destinations.
LEMMA Keeps ==
    ASSUME lease' = lease, inbound' = inbound, destination' = destination
    PROVE  Promised
  BY Stutters DEF Promised, SameSource, SameReading, Copying

\* Every step of the sender keeps the promise.
LEMMA SenderPromise ==
    ASSUME TypeOK, KVInv, NEW u \in Transfers,
           \/ SendKVPages(u) \/ SenderStep(u) \/ CallCancelled(u)
           \/ ReadyArrives(u) \/ AckArrives(u)
    PROVE  Promised
<1>1. CASE SendKVPages(u)
  BY <1>1, Leaves, Keeps DEF SendKVPages, receiver
<1>2. CASE PreparePublished(u)
  BY <1>2, Keeps DEF PreparePublished, receiver
<1>3. CASE PrepareFailed(u)
  BY <1>3, Leaves DEF PrepareFailed, receiver
<1>4. CASE ReadyReturns(u)
  <2>1. CASE Leave(u, "raised")
    BY <1>4, <2>1, Leaves DEF ReadyReturns, receiver
  <2>2. CASE RegisterPending(u)
    <3>1. lease[u] = "call"
      BY <1>4 DEF ReadyReturns, KVInv, SendInv, Unexposed
    <3>2. lease'[u] = "pending" /\ \A t \in Transfers \ {u} : lease'[t] = lease[t]
      BY <2>2 DEF RegisterPending, TypeOK
    <3>3. inbound' = inbound /\ destination' = destination
      BY <1>4 DEF ReadyReturns, receiver
    <3> QED
      BY <3>1, <3>2, <3>3, Stutters DEF Promised, SameSource, SameReading, Copying
  <2> QED
    BY <1>4, <2>1, <2>2 DEF ReadyReturns
<1>5. CASE ReadyWaitFails(u)
  BY <1>5, Leaves DEF ReadyWaitFails, receiver
<1>6. CASE DataReadyPublished(u)
  BY <1>6, Leaves, Keeps DEF DataReadyPublished, receiver
<1>7. CASE DataReadyFailed(u)
  BY <1>7, Leaves DEF DataReadyFailed, receiver
<1>8. CASE WatchReturns(u)
  <2>1. u \in receiver_terminal
    BY <1>8 DEF WatchReturns, KVInv, SendInv
  <2> QED
    BY <1>8, <2>1, WatchEnds DEF WatchReturns, receiver
<1>9. CASE WatchRaises(u)
  <2>1. pending[u] # "none" /\ inbound' = inbound /\ destination' = destination
    BY <1>9 DEF WatchRaises, receiver
  <2>2. CASE u \in receiver_terminal
    BY <1>9, <2>1, <2>2, WatchEnds DEF WatchRaises
  <2>3. CASE u \notin receiver_terminal
    <3>1. EndWatch(u, "error", TRUE)
      BY <1>9, <2>3 DEF WatchRaises
    <3> QED
      BY <2>1, <3>1, WatchEnds
  <2> QED
    BY <2>2, <2>3
<1>10. CASE CallResumes(u)
  BY <1>10, Leaves DEF CallResumes, receiver
<1>11. CASE CallCancelled(u)
  BY <1>11, Leaves DEF CallCancelled, receiver
<1>12. CASE ReadyArrives(u)
  BY <1>12, Keeps DEF ReadyArrives, receiver
<1>13. CASE AckArrives(u)
  BY <1>13, Keeps DEF AckArrives, receiver
<1> QED
  BY <1>1, <1>2, <1>3, <1>4, <1>5, <1>6, <1>7, <1>8, <1>9, <1>10, <1>11,
     <1>12, <1>13, Zenon DEF SenderStep

\* Every step of the receiver keeps the promise.
LEMMA ReceiverPromise ==
    ASSUME TypeOK, KVInv, NEW u \in Transfers,
           \/ PrepareArrives(u) \/ DataReadyArrives(u) \/ ReceiverStep(u)
    PROVE  Promised
<1>1. CASE PrepareArrives(u)
  <2>1. destination[u] = "none" /\ inbound[u] = "none" /\ lease' = lease
    BY <1>1 DEF PrepareArrives, KVInv, RecvInv, sender, TypeOK
  <2>2. CASE /\ inbound' = [inbound EXCEPT ![u] = "reserved"]
             /\ destination' = [destination EXCEPT ![u] = "reserved"]
    <3>1. SameReading
      BY <2>1, <2>2 DEF SameReading, Copying, TypeOK
    <3>2. Handover!Reserve(u)
      BY <2>1, <2>2, <3>1 DEF Handover!Reserve, SameReading
    <3> QED
      BY <3>2 DEF Promised, Handover!Next
  <2>3. CASE /\ inbound' = inbound
             /\ destination' = [destination EXCEPT ![u] = "returned"]
    <3>1. Handover!Refuse(u)
      BY <2>1, <2>3 DEF Handover!Refuse, Copying
    <3> QED
      BY <3>1 DEF Promised, Handover!Next
  <2>4. CASE inbound' = inbound /\ destination' = destination
    BY <2>1, <2>4, Keeps
  <2> QED
    BY <1>1, <2>2, <2>3, <2>4, Zenon DEF PrepareArrives
<1>2. CASE DataReadyArrives(u)
  <2>1. lease[u] # "released" /\ ~Copying(u) /\ lease' = lease
    BY <1>2 DEF DataReadyArrives, KVInv, SendInv, Quiet, sender
  <2>2. CASE UNCHANGED <<inbound, destination, aborted_receiver>>
    BY <2>1, <2>2, Keeps
  <2>3. CASE Cleanup(RequestOf[u], {})
    BY <2>1, <2>3, CleansUp, KVAssumption
  <2>4. CASE /\ inbound[u] # "none"
             /\ inbound' = [inbound EXCEPT ![u] = "copying"]
             /\ UNCHANGED <<acking, destination, aborted_receiver>>
    <3>1. Source' = Source /\ Reading' = Reading \union {u}
      BY <2>1, <2>4 DEF Source, Reading, Copying, TypeOK
    <3>2. Source[u] = "held" /\ destination[u] = "reserved" /\ u \notin Reading
      BY <2>1, <2>4 DEF Source, Reading, KVInv, RecvInv
    <3>3. Handover!BeginRead(u)
      BY <2>4, <3>1, <3>2 DEF Handover!BeginRead, Source, Reading
    <3> QED
      BY <3>3 DEF Promised, Handover!Next
  <2> QED
    BY <1>2, <2>2, <2>3, <2>4, Zenon DEF DataReadyArrives
<1>3. CASE CopyCommits(u)
  <2>1. Source' = Source /\ Reading' = Reading \ {u} /\ u \in Reading
    BY <1>3 DEF CopyCommits, Source, Reading, Copying, TypeOK, sender
  <2>2. destination[u] = "reserved"
    BY <1>3 DEF CopyCommits, KVInv, RecvInv
  <2>3. Handover!Commit(u)
    BY <1>3, <2>1, <2>2 DEF CopyCommits, Handover!Commit, Source, Reading
  <2> QED
    BY <2>3 DEF Promised, Handover!Next
<1>4. CASE CopyFails(u)
  <2>1. Copying(u) /\ Cleanup(RequestOf[u], {u}) /\ lease' = lease
    BY <1>4 DEF CopyFails, sender
  <2> QED
    BY <2>1, CleansUp, KVAssumption
<1>5. CASE CopyCancelled(u)
  <2>1. destination[u] = "reserved" /\ lease' = lease
    BY <1>5 DEF CopyCancelled, Copying, KVInv, RecvInv, sender
  <2>2. destination' = [t \in Transfers |->
                           IF t \in {u} THEN "returned" ELSE destination[t]]
    BY <1>5 DEF CopyCancelled, TypeOK
  <2>3. ~Copying(u)' /\ \A t \in Transfers \ {u} : Copying(t) <=> Copying(t)'
    BY <1>5 DEF CopyCancelled, Copying, TypeOK
  <2> DEFINE S == {u}
  <2>4. /\ S \in SUBSET Transfers /\ u \in S
        /\ \A t \in S : t = u
        /\ destination' = [t \in Transfers |->
                              IF t \in S THEN "returned" ELSE destination[t]]
    BY <2>2
  <2> HIDE DEF S
  <2>5. Handover!Next
    BY <2>1, <2>3, <2>4, Returns
  <2> QED
    BY <2>5 DEF Promised
<1>6. CASE AckPublished(u)
  BY <1>6, Keeps DEF AckPublished, sender
<1> QED
  BY <1>1, <1>2, <1>3, <1>4, <1>5, <1>6, Zenon DEF ReceiverStep

\* So do the steps of a whole request or engine.
LEMMA EnginePromise ==
    ASSUME TypeOK, KVInv,
           \/ \E r \in Requests :
                 SenderCleanup(r) \/ ReceiverCleanup(r) \/ TrimAborted(r)
           \/ SenderClose \/ ReceiverClose \/ ReceiverCloses
    PROVE  Promised
<1>1. ASSUME NEW r \in Requests, SenderCleanup(r) PROVE Promised
  BY <1>1, Keeps DEF SenderCleanup, receiver
<1>2. ASSUME NEW r \in Requests, ReceiverCleanup(r) PROVE Promised
  BY <1>2, CleansUp DEF ReceiverCleanup, sender
<1>3. ASSUME NEW r \in Requests, TrimAborted(r) PROVE Promised
  BY <1>3, Keeps DEF TrimAborted
<1>4. CASE SenderClose
  BY <1>4, Keeps DEF SenderClose, receiver
<1>5. CASE ReceiverClose
  BY <1>5, Keeps DEF ReceiverClose, sender
<1>6. CASE ReceiverCloses
  <2> DEFINE S == {t \in Transfers : inbound[t] = "reserved"}
  <2>1. /\ destination' = [t \in Transfers |->
                             IF t \in S THEN "returned" ELSE destination[t]]
        /\ lease' = lease
    BY <1>6 DEF ReceiverCloses, sender
  <2>2. \A t \in Transfers : ~Copying(t) /\ ~Copying(t)'
    BY <1>6 DEF ReceiverCloses, Copying
  <2>3. \A t \in S : destination[t] = "reserved"
    BY DEF KVInv, RecvInv
  <2>4. CASE S = {}
    <3>1. destination' = destination
      BY <2>1, <2>4 DEF TypeOK
    <3> QED
      BY <2>1, <2>2, <3>1, Stutters DEF Promised, SameSource, SameReading
  <2>5. ASSUME NEW u \in S PROVE Promised
    <3> HIDE DEF S
    <3>1. S \in SUBSET Transfers
      BY DEF S
    <3> QED
      BY <2>1, <2>2, <2>3, <2>5, <3>1, Returns DEF Promised
  <2> QED
    BY <2>4, <2>5
<1> QED
  BY <1>1, <1>2, <1>3, <1>4, <1>5, <1>6, Zenon

\* KVTransfer implements PageHandover (HandoverKept).
THEOREM Refinement == Spec => HandoverKept
<1>1. Init => Handover!Init
  BY DEF Init, Handover!Init, Copying
<1>2. TypeOK /\ KVInv /\ [Next]_vars => Promised
  <2> SUFFICES ASSUME TypeOK, KVInv, [Next]_vars PROVE Promised
    OBVIOUS
  <2>1. CASE UNCHANGED vars
    BY <2>1, Keeps DEF vars, sender, receiver
  <2> QED
    BY <2>1, SenderPromise, ReceiverPromise, EnginePromise, Zenon DEF Next
<1> QED
  BY <1>1, <1>2, KVInvariant, PTL DEF Spec, HandoverKept, Handover!Spec, Promised

\* A transfer of a request whose abort the receiver knows is never committed.
THEOREM AbortedUncommitted == Spec => AbortedNeverCommits
<1> DEFINE A == \A t \in Transfers :
                   RequestOf[t] \in aborted_receiver /\ destination'[t] = "committed"
                      => destination[t] = "committed"
<1>1. TypeOK /\ KVInv /\ [Next]_vars => [A]_vars
  <2> SUFFICES ASSUME TypeOK, KVInv, Next, NEW t \in Transfers,
                      RequestOf[t] \in aborted_receiver,
                      destination'[t] = "committed"
               PROVE  destination[t] = "committed"
    OBVIOUS
  <2>1. ASSUME NEW u \in Transfers, CopyCommits(u)
        PROVE  destination[t] = "committed"
    <3>1. RequestOf[u] \notin aborted_receiver
      BY <2>1 DEF CopyCommits, KVInv, RecvInv
    <3>2. u # t
      BY <3>1
    <3> QED
      BY <2>1, <3>2 DEF CopyCommits, TypeOK
  <2>2. ASSUME NEW u \in Transfers,
               \/ SendKVPages(u) \/ SenderStep(u) \/ CallCancelled(u)
               \/ ReadyArrives(u) \/ AckArrives(u) \/ AckPublished(u)
        PROVE  destination[t] = "committed"
    BY <2>2 DEF SenderStep, SendKVPages, PreparePublished, PrepareFailed,
       ReadyArrives, ReadyReturns, ReadyWaitFails, DataReadyPublished,
       DataReadyFailed, AckArrives, WatchReturns, WatchRaises, CallResumes,
       CallCancelled, AckPublished, receiver
  <2>3. ASSUME NEW u \in Transfers, PrepareArrives(u)
        PROVE  destination[t] = "committed"
    BY <2>3 DEF PrepareArrives, TypeOK
  <2>4. ASSUME NEW u \in Transfers, DataReadyArrives(u) \/ CopyFails(u)
        PROVE  destination[t] = "committed"
    BY <2>4 DEF DataReadyArrives, CopyFails, Cleanup, TypeOK
  <2>5. ASSUME NEW u \in Transfers, CopyCancelled(u)
        PROVE  destination[t] = "committed"
    BY <2>5 DEF CopyCancelled, TypeOK
  <2>6. ASSUME NEW r \in Requests, ReceiverCleanup(r)
        PROVE  destination[t] = "committed"
    BY <2>6 DEF ReceiverCleanup, Cleanup, TypeOK
  <2>7. CASE ReceiverCloses
    BY <2>7 DEF ReceiverCloses, TypeOK
  <2>8. ASSUME NEW r \in Requests, SenderCleanup(r) \/ TrimAborted(r)
        PROVE  destination[t] = "committed"
    BY <2>8 DEF SenderCleanup, TrimAborted, receiver
  <2>9. CASE SenderClose \/ ReceiverClose
    BY <2>9 DEF SenderClose, ReceiverClose, receiver
  <2> QED
    BY <2>1, <2>2, <2>3, <2>4, <2>5, <2>6, <2>7, <2>8, <2>9, Zenon
       DEF Next, ReceiverStep
<1> QED
  BY <1>1, KVInvariant, PTL DEF Spec, AbortedNeverCommits
=============================================================================
