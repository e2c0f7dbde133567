----------------------------- MODULE KVTransfer -----------------------------
(***************************************************************************)
(* The paged KV-cache transfer between two ranks (comm/engine.py): the     *)
(* sender asks the receiver to reserve pages (Prepare / Ready), exposes    *)
(* its own pages (DataReady), and keeps them leased until the receiver     *)
(* says that it stopped reading them (DataAck).  On the sender,            *)
(* send_kv_pages is the call and watch_pending a task of its own that      *)
(* outlives a cancelled call; on the receiver every DataReady is a task.   *)
(* A request may be cleaned up (aborted) on either side at any time, and   *)
(* each side may be closed.                                                *)
(*                                                                         *)
(* Messages are delivered in any order, and need not be delivered at all:  *)
(* a peer that has died is one that takes no more steps.  A send that      *)
(* raises or is cancelled may or may not have passed its message on.       *)
(* Timers are not modelled: a wait may time out at any moment.             *)
(***************************************************************************)
CONSTANTS
    Transfers,  \* transfer ids; they are fresh, so none is sent twice
    Requests,   \* request ids
    RequestOf,  \* the request of each transfer
    Trimmable,  \* those that aborted_kv_requests may forget, past its limit
    Closable    \* the engines that may be closed: "sender", "receiver"

ASSUME KVAssumption ==
    /\ RequestOf \in [Transfers -> Requests]
    /\ Trimmable \subseteq Requests
    /\ Closable \subseteq {"sender", "receiver"}

VARIABLES
    \* the sending engine
    call,               \* where send_kv_pages is, for each transfer
    ready,              \* the future kv_ready[t]: "none", "open" or its outcome
    pending,            \* self.pending: "none", "unarmed" (no task) or "armed"
    ack,                \* PendingTransfer.ack: "open", "ok" or "failed"
    receiver_terminal,  \* the transfers with PendingTransfer.receiver_terminal
    cleanup_requested,  \* the transfers with PendingTransfer.cleanup_requested
    retained,           \* retained_pending_kv_transfers
    watched,            \* how watch_pending ended: "none", "ok", "cleanup", "error"
    lease,              \* the holder of the lease: "call", "pending", "released"
    aborted_sender,     \* aborted_kv_requests of the sender
    sender_closed,      \* "open" or "closed"
    \* the receiving engine
    inbound,            \* inbound_kv: "none", "reserved", "copying" (copy_started),
                        \* "poisoned" (and abort_error set)
    destination,        \* the pages, as the KVReceiver sees them
    acking,             \* the DataAck a receive_rank_kv task is sending, or "none"
    aborted_receiver,   \* aborted_kv_requests of the receiver
    receiver_closed,    \* "open", "closing" (tasks cancelled) or "closed"
    net                 \* the messages in flight

sender == <<call, ready, pending, ack, receiver_terminal, cleanup_requested,
            retained, watched, lease, aborted_sender, sender_closed>>
receiver == <<inbound, destination, acking, aborted_receiver, receiver_closed>>
vars == <<sender, receiver, net>>

Kinds == {"prepare", "ready", "refused", "data", "acked", "nacked"}

TypeOK ==
    /\ call \in [Transfers -> {"idle", "preparing", "awaiting", "publishing",
                               "watching", "returned", "raised"}]
    /\ ready \in [Transfers -> {"none", "open", "success", "failure"}]
    /\ pending \in [Transfers -> {"none", "unarmed", "armed"}]
    /\ ack \in [Transfers -> {"open", "ok", "failed"}]
    /\ receiver_terminal \subseteq Transfers
    /\ cleanup_requested \subseteq Transfers
    /\ retained \subseteq Transfers
    /\ watched \in [Transfers -> {"none", "ok", "cleanup", "error"}]
    /\ lease \in [Transfers -> {"call", "pending", "released"}]
    /\ aborted_sender \subseteq Requests
    /\ sender_closed \in {"open", "closed"}
    /\ inbound \in [Transfers -> {"none", "reserved", "copying", "poisoned"}]
    /\ destination \in
           [Transfers -> {"none", "reserved", "committed", "returned"}]
    /\ acking \in [Transfers -> {"none", "acked", "nacked"}]
    /\ aborted_receiver \subseteq Requests
    /\ receiver_closed \in {"open", "closing", "closed"}
    /\ net \subseteq Kinds \X Transfers

Init ==
    /\ call = [t \in Transfers |-> "idle"]
    /\ ready = [t \in Transfers |-> "none"]
    /\ pending = [t \in Transfers |-> "none"]
    /\ ack = [t \in Transfers |-> "open"]
    /\ receiver_terminal = {}
    /\ cleanup_requested = {}
    /\ retained = {}
    /\ watched = [t \in Transfers |-> "none"]
    /\ lease = [t \in Transfers |-> "call"]
    /\ aborted_sender = {}
    /\ sender_closed = "open"
    /\ inbound = [t \in Transfers |-> "none"]
    /\ destination = [t \in Transfers |-> "none"]
    /\ acking = [t \in Transfers |-> "none"]
    /\ aborted_receiver = {}
    /\ receiver_closed = "open"
    /\ net = {}

-----------------------------------------------------------------------------
(* The sender.                                                             *)

\* outbound_kv_requests holds t from its registration to the end of the call.
Outbound(t) == call[t] \in {"preparing", "awaiting", "publishing", "watching"}

\* The finally clause of send_kv_pages: forget the transfer, and release the
\* lease unless register_pending has taken it.
Leave(t, how) ==
    /\ call' = [call EXCEPT ![t] = how]
    /\ ready' = [ready EXCEPT ![t] = "none"]
    /\ lease' = [lease EXCEPT ![t] = IF @ = "call" THEN "released" ELSE @]

SenderPending == <<pending, ack, receiver_terminal, cleanup_requested,
                   retained, watched>>
SenderEngine == <<aborted_sender, sender_closed>>

\* send_kv_pages up to its first send.  A request known to be aborted, and a
\* transfer that fails validation, leave at once.
SendKVPages(t) ==
    /\ call[t] = "idle"
    /\ \/ Leave(t, "raised")
       \/ /\ RequestOf[t] \notin aborted_sender
          /\ call' = [call EXCEPT ![t] = "preparing"]
          /\ ready' = [ready EXCEPT ![t] = "open"]
          /\ UNCHANGED lease
    /\ UNCHANGED <<SenderPending, SenderEngine, receiver, net>>

PreparePublished(t) ==
    /\ call[t] = "preparing"
    /\ call' = [call EXCEPT ![t] = "awaiting"]
    /\ net' = net \union {<<"prepare", t>>}
    /\ UNCHANGED <<ready, lease, SenderPending, SenderEngine, receiver>>

PrepareFailed(t) ==
    /\ call[t] = "preparing"
    /\ Leave(t, "raised")
    /\ net' \in {net, net \union {<<"prepare", t>>}}
    /\ UNCHANGED <<SenderPending, SenderEngine, receiver>>

\* run_rank_control on a KVTransferReadyMessage; a stale one is ignored.
ReadyArrives(t) ==
    /\ sender_closed = "open"
    /\ \E kind \in {"ready", "refused"} :
          /\ <<kind, t>> \in net
          /\ net' = net \ {<<kind, t>>}
          /\ ready' = [ready EXCEPT ![t] =
                 IF @ # "open" THEN @
                 ELSE IF kind = "ready" THEN "success" ELSE "failure"]
    /\ UNCHANGED <<call, lease, SenderPending, SenderEngine, receiver>>

\* register_pending takes the lease over.
RegisterPending(t) ==
    /\ pending' = [pending EXCEPT ![t] = "unarmed"]
    /\ lease' = [lease EXCEPT ![t] = "pending"]
    /\ call' = [call EXCEPT ![t] = "publishing"]
    /\ UNCHANGED ready

\* send_kv_pages from the answer to the second send.  put_kv_pages only records
\* an event and exports handles: it does not suspend, and it may raise.
ReadyReturns(t) ==
    /\ call[t] = "awaiting"
    /\ ready[t] \in {"success", "failure"}
    /\ \/ Leave(t, "raised") /\ UNCHANGED pending
       \/ /\ ready[t] = "success"
          /\ RequestOf[t] \notin aborted_sender
          /\ RegisterPending(t)
    /\ UNCHANGED <<ack, receiver_terminal, cleanup_requested, retained,
                   watched, SenderEngine, receiver, net>>

\* The wait for the answer times out, or the call is cancelled in it.
ReadyWaitFails(t) ==
    /\ call[t] = "awaiting"
    /\ Leave(t, "raised")
    /\ UNCHANGED <<SenderPending, SenderEngine, receiver, net>>

\* DataReady is out: arm_pending starts the watcher, and the call awaits it;
\* if close has armed the watcher in the meantime, arm_pending raises.
DataReadyPublished(t) ==
    /\ call[t] = "publishing"
    /\ IF pending[t] = "unarmed"
       THEN /\ call' = [call EXCEPT ![t] = "watching"]
            /\ pending' = [pending EXCEPT ![t] = "armed"]
            /\ UNCHANGED <<ready, lease>>
       ELSE Leave(t, "raised") /\ UNCHANGED pending
    /\ net' = net \union {<<"data", t>>}
    /\ UNCHANGED <<ack, receiver_terminal, cleanup_requested, retained,
                   watched, SenderEngine, receiver>>

\* fail_pending, for the transfers in S.
FailPending(S) ==
    LET P == {t \in S : pending[t] # "none"} IN
    /\ ack' = [t \in Transfers |->
                  IF t \in P /\ ack[t] = "open" THEN "failed" ELSE ack[t]]
    /\ pending' = [t \in Transfers |-> IF t \in P THEN "armed" ELSE pending[t]]

DataReadyFailed(t) ==
    /\ call[t] = "publishing"
    /\ FailPending({t})
    /\ Leave(t, "raised")
    /\ net' \in {net, net \union {<<"data", t>>}}
    /\ UNCHANGED <<receiver_terminal, cleanup_requested, retained, watched,
                   SenderEngine, receiver>>

\* ack_transfer; an unknown transfer is ignored.
AckArrives(t) ==
    /\ sender_closed = "open"
    /\ \E kind \in {"acked", "nacked"} :
          /\ <<kind, t>> \in net
          /\ net' = net \ {<<kind, t>>}
          /\ IF pending[t] = "none"
             THEN UNCHANGED <<ack, receiver_terminal>>
             ELSE /\ receiver_terminal' = receiver_terminal \union {t}
                  /\ ack' = [ack EXCEPT ![t] =
                         IF @ # "open" THEN @
                         ELSE IF kind = "acked" THEN "ok" ELSE "failed"]
    /\ UNCHANGED <<call, ready, pending, cleanup_requested, retained, watched,
                   lease, SenderEngine, receiver>>

\* The end of watch_pending: pop the entry; release the lease, or keep it for
\* the life of the process (retain_pending_kv_transfer).
EndWatch(t, how, keep) ==
    /\ pending' = [pending EXCEPT ![t] = "none"]
    /\ watched' = [watched EXCEPT ![t] = how]
    /\ retained' = IF keep THEN retained \union {t} ELSE retained
    /\ lease' = [lease EXCEPT ![t] = IF keep THEN @ ELSE "released"]

WatchReturns(t) ==
    /\ pending[t] = "armed"
    /\ ack[t] = "ok"
    /\ EndWatch(t, IF t \in cleanup_requested THEN "cleanup" ELSE "ok", FALSE)
    /\ UNCHANGED <<call, ready, ack, receiver_terminal, cleanup_requested,
                   SenderEngine, receiver, net>>

\* Mutant: an interrupted watcher always releases the pages.
WatchRaises_Releases(t) ==
    /\ pending[t] = "armed"
    /\ EndWatch(t, "error", FALSE)
    /\ UNCHANGED <<call, ready, ack, receiver_terminal, cleanup_requested,
                   SenderEngine, receiver, net>>

\* Mutant: an interrupted watcher always keeps them.
WatchRaises_Retains(t) ==
    /\ pending[t] = "armed"
    /\ EndWatch(t, "error", TRUE)
    /\ UNCHANGED <<call, ready, ack, receiver_terminal, cleanup_requested,
                   SenderEngine, receiver, net>>

\* Mutant: the watcher waits for the acknowledgement without a timeout.
WatchRaises_NoTimeout(t) ==
    /\ pending[t] = "armed"
    /\ ack[t] = "failed"
    /\ EndWatch(t, "error", t \notin receiver_terminal)
    /\ UNCHANGED <<call, ready, ack, receiver_terminal, cleanup_requested,
                   SenderEngine, receiver, net>>

\* The acknowledgement failed, the wait for it timed out, or the watcher was
\* cancelled.  Without a word of the receiver the pages may still be read.
WatchRaises(t) ==
    /\ pending[t] = "armed"
    /\ IF t \in receiver_terminal
       THEN EndWatch(t, IF t \in cleanup_requested THEN "cleanup" ELSE "error",
                     FALSE)
       ELSE EndWatch(t, "error", TRUE)
    /\ UNCHANGED <<call, ready, ack, receiver_terminal, cleanup_requested,
                   SenderEngine, receiver, net>>

\* The call resumes from shield(pending_task).
CallResumes(t) ==
    /\ call[t] = "watching"
    /\ watched[t] # "none"
    /\ Leave(t, IF watched[t] = "ok" /\ RequestOf[t] \notin aborted_sender
                THEN "returned" ELSE "raised")
    /\ UNCHANGED <<SenderPending, SenderEngine, receiver, net>>

\* The call is cancelled in shield(pending_task); the watcher goes on.
CallCancelled(t) ==
    /\ call[t] = "watching"
    /\ Leave(t, "raised")
    /\ UNCHANGED <<SenderPending, SenderEngine, receiver, net>>

\* cleanup on the sender: a transfer that may be exposed is only marked; the
\* wait of one that is not is failed.
SenderCleanup(r) ==
    LET O == {t \in Transfers : RequestOf[t] = r /\ Outbound(t)} IN
    /\ sender_closed = "open"
    /\ aborted_sender' = aborted_sender \union {r}
    /\ cleanup_requested' =
           cleanup_requested \union {t \in O : pending[t] # "none"}
    /\ ready' = [t \in Transfers |->
           IF t \in O /\ pending[t] = "none" /\ ready[t] = "open"
           THEN "failure" ELSE ready[t]]
    /\ UNCHANGED <<call, pending, ack, receiver_terminal, retained, watched,
                   lease, sender_closed, receiver, net>>

\* close on the sender.  Its first part stops run_rank_control.
SenderClose ==
    /\ "sender" \in Closable
    /\ sender_closed = "open"
    /\ sender_closed' = "closed"
    /\ FailPending(Transfers)
    /\ ready' = [t \in Transfers |->
                    IF ready[t] = "open" THEN "failure" ELSE ready[t]]
    /\ aborted_sender' = {}
    /\ UNCHANGED <<call, receiver_terminal, cleanup_requested, retained,
                   watched, lease, receiver, net>>

-----------------------------------------------------------------------------
(* The receiver.                                                           *)

\* run_rank_control and prepare_kv_receive on a KVTransferPrepareMessage.
\* reserve may refuse; a later check may fail, and the reservation is aborted.
PrepareArrives(t) ==
    /\ receiver_closed = "open"
    /\ <<"prepare", t>> \in net
    /\ \/ /\ RequestOf[t] \notin aborted_receiver
          /\ inbound' = [inbound EXCEPT ![t] = "reserved"]
          /\ destination' = [destination EXCEPT ![t] = "reserved"]
          /\ net' = (net \ {<<"prepare", t>>}) \union {<<"ready", t>>}
       \/ /\ \/ UNCHANGED destination
             \/ /\ RequestOf[t] \notin aborted_receiver
                /\ destination' = [destination EXCEPT ![t] = "returned"]
          /\ net' = (net \ {<<"prepare", t>>}) \union {<<"refused", t>>}
          /\ UNCHANGED inbound
    /\ UNCHANGED <<sender, acking, aborted_receiver, receiver_closed>>

Copying(t) == inbound[t] \in {"copying", "poisoned"}

\* Mutant: the entry of an idle reservation is dropped, its pages are not.
Cleanup_DropsPages(r, E) ==
    LET I == {t \in Transfers \ E : RequestOf[t] = r}
        Idle == {t \in I : inbound[t] = "reserved"} IN
    /\ aborted_receiver' = aborted_receiver \union {r}
    /\ inbound' = [t \in Transfers |->
           CASE t \in E \union Idle -> "none"
             [] t \in I /\ Copying(t) -> "poisoned"
             [] OTHER -> inbound[t]]
    /\ destination' = [t \in Transfers |->
           IF t \in E THEN "returned" ELSE destination[t]]

\* Mutant: pages are given back under the copies that write them.
Cleanup_ReturnsCopies(r, E) ==
    LET I == {t \in Transfers : RequestOf[t] = r /\ inbound[t] # "none"} IN
    /\ aborted_receiver' = aborted_receiver \union {r}
    /\ inbound' = [t \in Transfers |-> IF t \in E \union I THEN "none" ELSE inbound[t]]
    /\ destination' = [t \in Transfers |->
           IF t \in E \union I THEN "returned" ELSE destination[t]]

\* Mutant: a copy that has started is left alone.
Cleanup_SparesCopies(r, E) ==
    LET Idle == {t \in Transfers \ E : RequestOf[t] = r /\ inbound[t] = "reserved"} IN
    /\ aborted_receiver' = aborted_receiver \union {r}
    /\ inbound' = [t \in Transfers |->
           IF t \in E \union Idle THEN "none" ELSE inbound[t]]
    /\ destination' = [t \in Transfers |->
           IF t \in E \union Idle THEN "returned" ELSE destination[t]]

\* cleanup on the receiver, called where the transfers in E have already left
\* inbound_kv with their pages returned: a copy that has started is told to
\* fail at its end, any other reservation is aborted.
Cleanup(r, E) ==
    LET I == {t \in Transfers \ E : RequestOf[t] = r}
        Idle == {t \in I : inbound[t] = "reserved"} IN
    /\ aborted_receiver' = aborted_receiver \union {r}
    /\ inbound' = [t \in Transfers |->
           CASE t \in E \union Idle -> "none"
             [] t \in I /\ Copying(t) -> "poisoned"
             [] OTHER -> inbound[t]]
    /\ destination' = [t \in Transfers |->
           IF t \in E \union Idle THEN "returned" ELSE destination[t]]

ReceiverCleanup(r) ==
    /\ receiver_closed # "closed"
    /\ Cleanup(r, {})
    /\ UNCHANGED <<sender, acking, receiver_closed, net>>

\* receive_rank_kv up to the copy: an aborted request is refused; for a
\* transfer that is not inbound read_kv_pages raises, which cleans up.
DataReadyArrives(t) ==
    /\ receiver_closed = "open"
    /\ <<"data", t>> \in net
    /\ net' = net \ {<<"data", t>>}
    /\ IF RequestOf[t] \in aborted_receiver
       THEN /\ acking' = [acking EXCEPT ![t] = "nacked"]
            /\ UNCHANGED <<inbound, destination, aborted_receiver>>
       ELSE IF inbound[t] = "none"
       THEN /\ acking' = [acking EXCEPT ![t] = "nacked"]
            /\ Cleanup(RequestOf[t], {})
       ELSE /\ inbound' = [inbound EXCEPT ![t] = "copying"]
            /\ UNCHANGED <<acking, destination, aborted_receiver>>
    /\ UNCHANGED <<sender, receiver_closed>>

\* The copy is complete and nobody asked to abort it: commit.
CopyCommits(t) ==
    /\ inbound[t] = "copying"
    /\ receiver_closed = "open"
    /\ inbound' = [inbound EXCEPT ![t] = "none"]
    /\ destination' = [destination EXCEPT ![t] = "committed"]
    /\ acking' = [acking EXCEPT ![t] = "acked"]
    /\ UNCHANGED <<sender, aborted_receiver, receiver_closed, net>>

\* The copy raises (get_kv_pages, a timeout, abort_error or commit), once the
\* device has stopped writing: abort the reservation, clean up, report.
CopyFails(t) ==
    /\ Copying(t)
    /\ receiver_closed = "open"
    /\ Cleanup(RequestOf[t], {t})
    /\ acking' = [acking EXCEPT ![t] = "nacked"]
    /\ UNCHANGED <<sender, receiver_closed, net>>

AckPublished(t) ==
    /\ acking[t] # "none"
    /\ acking' = [acking EXCEPT ![t] = "none"]
    /\ net' = net \union {<<acking[t], t>>}
    /\ UNCHANGED <<sender, inbound, destination, aborted_receiver,
                   receiver_closed>>

\* close on the receiver.  First the tasks are cancelled: an acknowledgement
\* being sent may be lost, a copy ends on its own time.
ReceiverClose ==
    /\ "receiver" \in Closable
    /\ receiver_closed = "open"
    /\ receiver_closed' = "closing"
    /\ \E lost \in SUBSET Transfers :
          acking' = [t \in Transfers |->
                        IF t \in lost THEN "none" ELSE acking[t]]
    /\ UNCHANGED <<sender, inbound, destination, aborted_receiver, net>>

\* A cancelled copy aborts its reservation and reports nothing.
CopyCancelled(t) ==
    /\ Copying(t)
    /\ receiver_closed = "closing"
    /\ inbound' = [inbound EXCEPT ![t] = "none"]
    /\ destination' = [destination EXCEPT ![t] = "returned"]
    /\ UNCHANGED <<sender, acking, aborted_receiver, receiver_closed, net>>

\* The rest of close: abort what is still reserved.
ReceiverCloses ==
    /\ receiver_closed = "closing"
    /\ \A t \in Transfers : ~Copying(t) /\ acking[t] = "none"
    /\ receiver_closed' = "closed"
    /\ destination' = [t \in Transfers |->
           IF inbound[t] = "reserved" THEN "returned" ELSE destination[t]]
    /\ inbound' = [t \in Transfers |-> "none"]
    /\ aborted_receiver' = {}
    /\ UNCHANGED <<sender, acking, net>>

\* record of more than 10000 aborted requests drops old ones, in any order.
TrimAborted(r) ==
    /\ r \in Trimmable
    /\ \/ aborted_sender' = aborted_sender \ {r} /\ UNCHANGED aborted_receiver
       \/ aborted_receiver' = aborted_receiver \ {r} /\ UNCHANGED aborted_sender
    /\ UNCHANGED <<call, ready, SenderPending, lease, sender_closed, inbound,
                   destination, acking, receiver_closed, net>>

-----------------------------------------------------------------------------
SenderStep(t) ==
    \/ PreparePublished(t) \/ PrepareFailed(t)
    \/ ReadyReturns(t) \/ ReadyWaitFails(t)
    \/ DataReadyPublished(t) \/ DataReadyFailed(t)
    \/ WatchReturns(t) \/ WatchRaises(t) \/ CallResumes(t)

ReceiverStep(t) ==
    \/ CopyCommits(t) \/ CopyFails(t) \/ CopyCancelled(t) \/ AckPublished(t)

Next ==
    \/ \E t \in Transfers :
          \/ SendKVPages(t) \/ SenderStep(t) \/ CallCancelled(t)
          \/ ReceiverStep(t)
          \/ ReadyArrives(t) \/ AckArrives(t)
          \/ PrepareArrives(t) \/ DataReadyArrives(t)
    \/ \E r \in Requests :
          SenderCleanup(r) \/ ReceiverCleanup(r) \/ TrimAborted(r)
    \/ SenderClose \/ ReceiverClose \/ ReceiverCloses

Spec == Init /\ [][Next]_vars

\* The sender's sends end and its timers fire: each of its waits has a timeout.
\* Neither the network nor the receiver owes anything, and no call need be
\* cancelled.
Fairness == \A t \in Transfers : WF_vars(SenderStep(t))

LiveSpec == Spec /\ Fairness

-----------------------------------------------------------------------------
(* Properties.                                                             *)

\* While the receiver copies the pages of a transfer, and while a DataReady
\* that would make it do so is on its way, the sender has not released the
\* lease: not after a timeout, a cancelled call, an abort or a close
\* (watch_pending, retain_pending_kv_transfer).
PinnedWhileRead ==
    \A t \in Transfers :
        Copying(t) \/ <<"data", t>> \in net => lease[t] # "released"

\* send_kv_pages returns only if the receiver has committed the pages.
SuccessIsCommitted ==
    \A t \in Transfers : call[t] = "returned" => destination[t] = "committed"

\* Reserved pages are those of a transfer in inbound_kv: no path through
\* cleanup, a failed copy or close forgets a transfer and leaves its pages
\* reserved, and none returns the pages of a transfer it keeps.
ReservationsOwned ==
    \A t \in Transfers : destination[t] = "reserved" <=> inbound[t] # "none"

\* Pages are kept for the life of the sender only if the receiver never
\* answered: a transfer whose acknowledgement was applied is not retained.
RetainedIsUnanswered == retained \intersect receiver_terminal = {}

\* Once the receiver has heard that a request is aborted, it commits no
\* transfer of it, not even one whose copy was already running (abort_error).
AbortedNeverCommits ==
    [][\A t \in Transfers :
          RequestOf[t] \in aborted_receiver /\ destination'[t] = "committed"
             => destination[t] = "committed"]_vars

\* Every call of send_kv_pages ends, and the lease of every transfer that was
\* sent ends up released or retained, whatever the receiver does.
TransfersEnd ==
    \A t \in Transfers :
        call[t] # "idle" ~>
            /\ call[t] \in {"returned", "raised"}
            /\ lease[t] = "released" \/ t \in retained

\* The transfer protocol keeps the promises of PageHandover.
Handover == INSTANCE PageHandover WITH
    source <- [t \in Transfers |->
                  IF lease[t] = "released" THEN "released" ELSE "held"],
    reading <- {t \in Transfers : Copying(t)}

\* send_kv_pages and the receive side implement PageHandover.
HandoverKept == Handover!Spec
=============================================================================
