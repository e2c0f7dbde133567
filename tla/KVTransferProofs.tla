-------------------------- MODULE KVTransferProofs --------------------------
(***************************************************************************)
(* Proofs about KVTransfer, for any transfers and requests.  The inductive *)
(* invariant says, transfer by transfer, how far the two engines can be    *)
(* apart: who holds the lease in each phase of the call, and that the      *)
(* DataReady, the copy and the acknowledgement of a transfer follow one    *)
(* another.                                                                *)
(***************************************************************************)
EXTENDS KVTransfer, TLAPS

\* The phases of a call in which the source pages have not been exposed.
Unexposed == {"idle", "preparing", "awaiting", "publishing"}

\* No acknowledgement of t is on its way.
NoAck(t) ==
    /\ acking[t] = "none"
    /\ <<"acked", t>> \notin net
    /\ <<"nacked", t>> \notin net

\* The receiver is not reading, and no DataReady will make it read.
Quiet(t) == ~Copying(t) /\ <<"data", t>> \notin net

SendInv(t) ==
    /\ call[t] \in Unexposed => Quiet(t) /\ NoAck(t) /\ t \notin receiver_terminal
    /\ call[t] \in Unexposed \ {"publishing"} =>
           lease[t] = "call" /\ pending[t] = "none" /\ t \notin retained
    /\ call[t] \notin Unexposed \ {"publishing"} => lease[t] # "call"
    /\ pending[t] # "none" => lease[t] = "pending" /\ t \notin retained
    /\ lease[t] = "released" => Quiet(t) /\ call[t] \notin Unexposed
    /\ t \in receiver_terminal => Quiet(t) /\ NoAck(t) /\ t \notin retained
    /\ ~NoAck(t) => Quiet(t)
    /\ acking[t] # "none" =>
           <<"acked", t>> \notin net /\ <<"nacked", t>> \notin net
    /\ <<"acked", t>> \in net => <<"nacked", t>> \notin net
    /\ <<"data", t>> \in net => ~Copying(t)
    /\ ack[t] = "ok" => t \in receiver_terminal

RecvInv(t) ==
    /\ destination[t] = "reserved" <=> inbound[t] # "none"
    /\ call[t] \in {"idle", "preparing"} \/ <<"prepare", t>> \in net =>
           destination[t] = "none"
    /\ call[t] \in {"idle", "preparing"} => <<"prepare", t>> \notin net
    /\ acking[t] = "acked" \/ <<"acked", t>> \in net \/ ack[t] = "ok"
          \/ watched[t] = "ok" \/ call[t] = "returned" =>
           destination[t] = "committed"
    /\ inbound[t] \in {"reserved", "copying"} =>
           RequestOf[t] \notin aborted_receiver

KVInv == \A t \in Transfers : SendInv(t) /\ RecvInv(t)

\* Initially every engine table is empty and every lease with its caller.
LEMMA KVInitially == Init => TypeOK /\ KVInv
  BY KVAssumption DEF Init, TypeOK, KVInv, SendInv, RecvInv, Unexposed, NoAck,
     Quiet, Copying, Kinds

\* Every step keeps the types of the tables.
LEMMA KVTypes == TypeOK /\ [Next]_vars => TypeOK'
<1> SUFFICES ASSUME TypeOK, [Next]_vars PROVE TypeOK'
  OBVIOUS
<1> USE KVAssumption DEF TypeOK, Kinds
<1>1. ASSUME NEW t \in Transfers, SendKVPages(t) PROVE TypeOK'
  BY <1>1 DEF SendKVPages, Leave, SenderPending, SenderEngine, receiver
<1>2. ASSUME NEW t \in Transfers, PreparePublished(t) PROVE TypeOK'
  BY <1>2 DEF PreparePublished, SenderPending, SenderEngine, receiver
<1>3. ASSUME NEW t \in Transfers, PrepareFailed(t) PROVE TypeOK'
  BY <1>3 DEF PrepareFailed, Leave, SenderPending, SenderEngine, receiver
<1>4. ASSUME NEW t \in Transfers, ReadyArrives(t) PROVE TypeOK'
  BY <1>4 DEF ReadyArrives, SenderPending, SenderEngine, receiver
<1>5. ASSUME NEW t \in Transfers, ReadyReturns(t) PROVE TypeOK'
  BY <1>5 DEF ReadyReturns, Leave, RegisterPending, SenderEngine, receiver
<1>6. ASSUME NEW t \in Transfers, ReadyWaitFails(t) PROVE TypeOK'
  BY <1>6 DEF ReadyWaitFails, Leave, SenderPending, SenderEngine, receiver
<1>7. ASSUME NEW t \in Transfers, DataReadyPublished(t) PROVE TypeOK'
  BY <1>7 DEF DataReadyPublished, Leave, SenderEngine, receiver
<1>8. ASSUME NEW t \in Transfers, DataReadyFailed(t) PROVE TypeOK'
  BY <1>8 DEF DataReadyFailed, FailPending, Leave, SenderEngine, receiver
<1>9. ASSUME NEW t \in Transfers, AckArrives(t) PROVE TypeOK'
  BY <1>9 DEF AckArrives, SenderEngine, receiver
<1>10. ASSUME NEW t \in Transfers, WatchReturns(t) PROVE TypeOK'
  BY <1>10 DEF WatchReturns, EndWatch, SenderEngine, receiver
<1>11. ASSUME NEW t \in Transfers, WatchRaises(t) PROVE TypeOK'
  BY <1>11 DEF WatchRaises, EndWatch, SenderEngine, receiver
<1>12. ASSUME NEW t \in Transfers, CallResumes(t) PROVE TypeOK'
  BY <1>12 DEF CallResumes, Leave, SenderPending, SenderEngine, receiver
<1>13. ASSUME NEW t \in Transfers, CallCancelled(t) PROVE TypeOK'
  BY <1>13 DEF CallCancelled, Leave, SenderPending, SenderEngine, receiver
<1>14. ASSUME NEW r \in Requests, SenderCleanup(r) PROVE TypeOK'
  BY <1>14 DEF SenderCleanup, Outbound, receiver
<1>15. ASSUME SenderClose PROVE TypeOK'
  BY <1>15 DEF SenderClose, FailPending, receiver
<1>16. ASSUME NEW t \in Transfers, PrepareArrives(t) PROVE TypeOK'
  BY <1>16 DEF PrepareArrives, sender
<1>17. ASSUME NEW r \in Requests, ReceiverCleanup(r) PROVE TypeOK'
  BY <1>17 DEF ReceiverCleanup, Cleanup, Copying, sender
<1>18. ASSUME NEW t \in Transfers, DataReadyArrives(t) PROVE TypeOK'
  BY <1>18 DEF DataReadyArrives, Cleanup, Copying, sender
<1>19. ASSUME NEW t \in Transfers, CopyCommits(t) PROVE TypeOK'
  BY <1>19 DEF CopyCommits, sender
<1>20. ASSUME NEW t \in Transfers, CopyFails(t) PROVE TypeOK'
  BY <1>20 DEF CopyFails, Cleanup, Copying, sender
<1>21. ASSUME NEW t \in Transfers, AckPublished(t) PROVE TypeOK'
  BY <1>21 DEF AckPublished, sender
<1>22. ASSUME ReceiverClose PROVE TypeOK'
  BY <1>22 DEF ReceiverClose, sender
<1>23. ASSUME NEW t \in Transfers, CopyCancelled(t) PROVE TypeOK'
  BY <1>23 DEF CopyCancelled, sender
<1>24. ASSUME ReceiverCloses PROVE TypeOK'
  BY <1>24 DEF ReceiverCloses, sender
<1>25. ASSUME NEW r \in Requests, TrimAborted(r) PROVE TypeOK'
  BY <1>25 DEF TrimAborted, SenderPending
<1>26. CASE UNCHANGED vars
  BY <1>26 DEF vars, sender, receiver
<1> QED
  BY <1>1, <1>2, <1>3, <1>4, <1>5, <1>6, <1>7, <1>8, <1>9, <1>10, <1>11,
     <1>12, <1>13, <1>14, <1>15, <1>16, <1>17, <1>18, <1>19, <1>20, <1>21,
     <1>22, <1>23, <1>24, <1>25, <1>26, Zenon
     DEF Next, SenderStep, ReceiverStep

\* Every step keeps the invariant of every transfer t: the steps for t itself,
\* those for another transfer u, and those for a whole request or engine.
LEMMA KVSteps == TypeOK /\ TypeOK' /\ KVInv /\ [Next]_vars => KVInv'
<1> SUFFICES ASSUME TypeOK, TypeOK', KVInv, [Next]_vars, NEW t \in Transfers
             PROVE  (SendInv(t) /\ RecvInv(t))'
  BY DEF KVInv
<1> SendInv(t) /\ RecvInv(t)
  BY DEF KVInv
<1> DEFINE Inv == SendInv(t) /\ RecvInv(t)
<1> USE KVAssumption DEF TypeOK, SendInv, RecvInv, Unexposed, NoAck, Quiet, Copying
<1>1. ASSUME NEW u \in Transfers, SendKVPages(u) PROVE Inv'
  BY <1>1 DEF SendKVPages, Leave, SenderPending, SenderEngine, receiver
<1>2. ASSUME NEW u \in Transfers, PreparePublished(u) PROVE Inv'
  BY <1>2 DEF PreparePublished, SenderPending, SenderEngine, receiver
<1>3. ASSUME NEW u \in Transfers, PrepareFailed(u) PROVE Inv'
  BY <1>3 DEF PrepareFailed, Leave, SenderPending, SenderEngine, receiver
<1>4. ASSUME NEW u \in Transfers, ReadyArrives(u) PROVE Inv'
  BY <1>4 DEF ReadyArrives, SenderPending, SenderEngine, receiver
<1>5. ASSUME NEW u \in Transfers, ReadyReturns(u) PROVE Inv'
  BY <1>5 DEF ReadyReturns, Leave, RegisterPending, SenderEngine, receiver
<1>6. ASSUME NEW u \in Transfers, ReadyWaitFails(u) PROVE Inv'
  BY <1>6 DEF ReadyWaitFails, Leave, SenderPending, SenderEngine, receiver
<1>7. ASSUME NEW u \in Transfers, DataReadyPublished(u) PROVE Inv'
  BY <1>7 DEF DataReadyPublished, Leave, SenderEngine, receiver
<1>8. ASSUME NEW u \in Transfers, DataReadyFailed(u) PROVE Inv'
  BY <1>8 DEF DataReadyFailed, FailPending, Leave, SenderEngine, receiver
<1>9. ASSUME NEW u \in Transfers, AckArrives(u) PROVE Inv'
  <2>1. PICK kind \in {"acked", "nacked"} :
          /\ <<kind, u>> \in net
          /\ net' = net \ {<<kind, u>>}
          /\ IF pending[u] = "none"
             THEN UNCHANGED <<ack, receiver_terminal>>
             ELSE /\ receiver_terminal' = receiver_terminal \union {u}
                  /\ ack' = [ack EXCEPT ![u] =
                         IF @ # "open" THEN @
                         ELSE IF kind = "acked" THEN "ok" ELSE "failed"]
    BY <1>9 DEF AckArrives
  <2>2. CASE t # u
    BY <1>9, <2>1, <2>2 DEF AckArrives, SenderEngine, receiver
  <2>3. CASE t = u /\ kind = "acked"
    BY <1>9, <2>1, <2>3 DEF AckArrives, SenderEngine, receiver
  <2>4. CASE t = u /\ kind = "nacked"
    BY <1>9, <2>1, <2>4 DEF AckArrives, SenderEngine, receiver
  <2> QED
    BY <2>1, <2>2, <2>3, <2>4
<1>10. ASSUME NEW u \in Transfers, WatchReturns(u) PROVE Inv'
  BY <1>10 DEF WatchReturns, EndWatch, SenderEngine, receiver
<1>11. ASSUME NEW u \in Transfers, WatchRaises(u) PROVE Inv'
  BY <1>11 DEF WatchRaises, EndWatch, SenderEngine, receiver
<1>12. ASSUME NEW u \in Transfers, CallResumes(u) PROVE Inv'
  BY <1>12 DEF CallResumes, Leave, SenderPending, SenderEngine, receiver
<1>13. ASSUME NEW u \in Transfers, CallCancelled(u) PROVE Inv'
  BY <1>13 DEF CallCancelled, Leave, SenderPending, SenderEngine, receiver
<1>14. ASSUME NEW r \in Requests, SenderCleanup(r) PROVE Inv'
  BY <1>14 DEF SenderCleanup, Outbound, receiver
<1>15. ASSUME SenderClose PROVE Inv'
  BY <1>15 DEF SenderClose, FailPending, receiver
<1>16. ASSUME NEW u \in Transfers, PrepareArrives(u) PROVE Inv'
  BY <1>16 DEF PrepareArrives, sender
<1>17. ASSUME NEW r \in Requests, ReceiverCleanup(r) PROVE Inv'
  BY <1>17 DEF ReceiverCleanup, Cleanup, sender
<1>18. ASSUME NEW u \in Transfers, DataReadyArrives(u) PROVE Inv'
  BY <1>18 DEF DataReadyArrives, Cleanup, sender
<1>19. ASSUME NEW u \in Transfers, CopyCommits(u) PROVE Inv'
  BY <1>19 DEF CopyCommits, sender
<1>20. ASSUME NEW u \in Transfers, CopyFails(u) PROVE Inv'
  BY <1>20 DEF CopyFails, Cleanup, sender
<1>21. ASSUME NEW u \in Transfers, AckPublished(u) PROVE Inv'
  BY <1>21 DEF AckPublished, sender
<1>22. ASSUME ReceiverClose PROVE Inv'
  BY <1>22 DEF ReceiverClose, sender
<1>23. ASSUME NEW u \in Transfers, CopyCancelled(u) PROVE Inv'
  BY <1>23 DEF CopyCancelled, sender
<1>24. ASSUME ReceiverCloses PROVE Inv'
  BY <1>24 DEF ReceiverCloses, sender
<1>25. ASSUME NEW r \in Requests, TrimAborted(r) PROVE Inv'
  BY <1>25 DEF TrimAborted, SenderPending
<1>26. CASE UNCHANGED vars
  BY <1>26 DEF vars, sender, receiver
<1> QED
  BY <1>1, <1>2, <1>3, <1>4, <1>5, <1>6, <1>7, <1>8, <1>9, <1>10, <1>11,
     <1>12, <1>13, <1>14, <1>15, <1>16, <1>17, <1>18, <1>19, <1>20, <1>21,
     <1>22, <1>23, <1>24, <1>25, <1>26, Zenon
     DEF Next, SenderStep, ReceiverStep

\* The types and the invariant hold in every reachable state.
THEOREM KVInvariant == Spec => [](TypeOK /\ KVInv)
<1>1. TypeOK /\ KVInv /\ [Next]_vars => (TypeOK /\ KVInv)'
  BY KVTypes, KVSteps
<1> QED
  BY <1>1, KVInitially, PTL DEF Spec

\* The source pages stay leased while the receiver copies them or may start
\* to, through timeouts, cancellations, aborts and close.
THEOREM SourcePinned == Spec => []PinnedWhileRead
<1>1. TypeOK /\ KVInv => PinnedWhileRead
  BY DEF KVInv, SendInv, Quiet, Copying, PinnedWhileRead
<1> QED
  BY <1>1, KVInvariant, PTL

\* A call of send_kv_pages that returns has moved the pages.
THEOREM SuccessCommitted == Spec => []SuccessIsCommitted
<1>1. KVInv => SuccessIsCommitted
  BY DEF KVInv, RecvInv, SuccessIsCommitted
<1> QED
  BY <1>1, KVInvariant, PTL

\* Reserved pages and entries of inbound_kv correspond one to one.
THEOREM NoLostReservation == Spec => []ReservationsOwned
<1>1. KVInv => ReservationsOwned
  BY DEF KVInv, RecvInv, ReservationsOwned
<1> QED
  BY <1>1, KVInvariant, PTL

\* No transfer that was answered is retained for the life of the process.
THEOREM RetainedUnanswered == Spec => []RetainedIsUnanswered
<1>1. TypeOK /\ KVInv => RetainedIsUnanswered
  BY DEF TypeOK, KVInv, SendInv, RetainedIsUnanswered
<1> QED
  BY <1>1, KVInvariant, PTL
=============================================================================
