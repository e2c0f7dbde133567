---------------------------- MODULE PageHandover ----------------------------
(***************************************************************************)
(* What a transfer of KV-cache pages promises to the two schedulers that   *)
(* own the pages, whatever happens to the messages in between:             *)
(*                                                                         *)
(*   - the source pages of a transfer stay held (KVPageLease: "Pins source *)
(*     pages until the receiver acknowledges the transfer") as long as the *)
(*     receiver reads them, and nobody starts reading pages that were let  *)
(*     go;                                                                 *)
(*   - the destination pages are reserved at most once, and a reservation  *)
(*     ends at most once: committed after a read that it was held through, *)
(*     or returned, never while the read is going on.                      *)
(*                                                                         *)
(* KVTransfer implements this specification.                               *)
(***************************************************************************)
CONSTANT Transfers

VARIABLES
    source,       \* per transfer: "held" or "released"
    destination,  \* per transfer: "none", "reserved", "committed", "returned"
    reading       \* the transfers whose pages the receiver is copying

vars == <<source, destination, reading>>

TypeOK ==
    /\ source \in [Transfers -> {"held", "released"}]
    /\ destination \in
           [Transfers -> {"none", "reserved", "committed", "returned"}]
    /\ reading \subseteq Transfers

Init ==
    /\ source = [t \in Transfers |-> "held"]
    /\ destination = [t \in Transfers |-> "none"]
    /\ reading = {}

Reserve(t) ==
    /\ destination[t] = "none"
    /\ destination' = [destination EXCEPT ![t] = "reserved"]
    /\ UNCHANGED <<source, reading>>

\* A reservation that is refused at once leaves nothing behind.
Refuse(t) ==
    /\ destination[t] = "none"
    /\ destination' = [destination EXCEPT ![t] = "returned"]
    /\ UNCHANGED <<source, reading>>

BeginRead(t) ==
    /\ source[t] = "held"
    /\ destination[t] = "reserved"
    /\ t \notin reading
    /\ reading' = reading \union {t}
    /\ UNCHANGED <<source, destination>>

Commit(t) ==
    /\ t \in reading
    /\ destination[t] = "reserved"
    /\ destination' = [destination EXCEPT ![t] = "committed"]
    /\ reading' = reading \ {t}
    /\ UNCHANGED source

\* Giving reservations back: those in S, one of which may have been read (its
\* read ends with this step); none of the others is being read.
Return(S) ==
    /\ \A t \in S : destination[t] = "reserved"
    /\ destination' = [t \in Transfers |->
                          IF t \in S THEN "returned" ELSE destination[t]]
    /\ reading' = reading \ S
    /\ \E t \in S : S \intersect reading \subseteq {t}
    /\ UNCHANGED source

Release(t) ==
    /\ source[t] = "held"
    /\ t \notin reading
    /\ source' = [source EXCEPT ![t] = "released"]
    /\ UNCHANGED <<destination, reading>>

Next ==
    \/ \E t \in Transfers :
           Reserve(t) \/ Refuse(t) \/ BeginRead(t) \/ Commit(t) \/ Release(t)
    \/ \E S \in SUBSET Transfers : Return(S)

Spec == Init /\ [][Next]_vars
=============================================================================
