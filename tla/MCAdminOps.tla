----------------------------- MODULE MCAdminOps -----------------------------
(* Small instances of AdminOps.                                            *)
EXTENDS AdminOps

CONSTANTS a, b,                            \* operations
          thinker, talker, vocoder, codec  \* stages

\* The thinker is tensor parallel
RanksOf == [s \in Stages |-> IF s = thinker THEN {0, 1} ELSE {0}]

\* Both operations go to the thinker; or they address two other stages, in
\* opposite orders; or they address a stage without admin handler
TargetLists ==
    {[o \in Ops |-> <<thinker>>],
     [o \in Ops |-> IF o = a THEN <<talker, vocoder>> ELSE <<vocoder, talker>>],
     [o \in Ops |-> IF o = a THEN <<codec>> ELSE <<talker, codec>>]}

\* Carrying a out may fail
OutcomesOf == [o \in Ops |-> IF o = a THEN BOOLEAN ELSE {TRUE}]
=============================================================================
