--------------------------- MODULE MCStageReceive ---------------------------
EXTENDS StageReceive
CONSTANTS r1, r2, la, lb

OneLane == {la}
TwoLanes == {la, lb}
SameRequest == [l \in Lanes |-> r1]
OwnRequests == [l \in Lanes |-> IF l = la THEN r1 ELSE r2]
=============================================================================
