---------------------------- MODULE MCWorkerPool ----------------------------
(* An instance of WorkerPool for TLC: two workers with one session each; an *)
(* HTTP request that weighs 2 and a session for either worker, a session    *)
(* with an uploaded voice and a control request for the first one.          *)
EXTENDS WorkerPool

CONSTANTS http, ws, voice, ctl

Routes == [r \in Requests |-> CASE r = voice -> "owner" [] r = ctl -> "control"
                                [] OTHER -> "matching"]
ClassesOf == [r \in Requests |-> IF r \in {http, ctl} THEN "http" ELSE "ws"]
Credits == [r \in Requests |-> IF r = http THEN 2 ELSE 1]
Profiles == [r \in Requests |-> IF r \in {voice, ctl} THEN {1} ELSE Workers]
Settings == [strategy : {"RoundRobin", "LeastRequests"},
             limits : {[c \in Classes |-> 2], [c \in Classes |-> IF c = "http" THEN 1 ELSE 2]}]
SessionLimits == [w \in Workers |-> 1]
=============================================================================
