---------------------------- MODULE MCKVTransfer ----------------------------
(* Instances of KVTransfer for TLC.                                        *)
EXTENDS KVTransfer, TLC

CONSTANTS t1, t2, r1, r2

\* Two transfers of one request, and of two requests.
Pair == {t1, t2}
OneRequest == (t1 :> r1) @@ (t2 :> r1)
TwoRequests == (t1 :> r1) @@ (t2 :> r2)

Swap == Permutations(Pair)
=============================================================================
