--------------------------- MODULE MCCoordinator ---------------------------
(* Small instances of Coordinator.                                         *)
EXTENDS Coordinator

CONSTANTS a, b,   \* calls
          x, y,   \* request ids
          t, u    \* terminal stages

\* Every call competes for the id x
SameIdOf == [k \in Calls |-> x]

\* Each call has an id of its own
OwnIdOf == [k \in Calls |-> IF k = a THEN x ELSE y]

AllTerminals == [k \in Calls |-> Stages]
============================================================================
