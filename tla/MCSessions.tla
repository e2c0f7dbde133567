----------------------------- MODULE MCSessions -----------------------------
(* Small instances of Sessions.                                            *)
EXTENDS Sessions

CONSTANTS a, b,      \* sessions
          c1, c2, c3 \* controls

OnA == [c \in Controls |-> a]

\* Two controls among the input of one session, or two sessions that compete
Together == {{a, c1, c2}, {a, c1, c3}, {a, b}}

OneEach == <<1, 1>>
=============================================================================
