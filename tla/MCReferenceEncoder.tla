------------------------- MODULE MCReferenceEncoder -------------------------
(* An instance of ReferenceEncoder for TLC.                                *)
EXTENDS ReferenceEncoder

CONSTANTS a, b, c1, c2

\* The artifact of content v takes v bytes.
Sizes == [v \in Data |-> v]
=============================================================================
