------------------------------ MODULE Sessions ------------------------------
(***************************************************************************)
(* Sessions over a fixed route of stages (CoordinatorSessions in           *)
(* sglang_omni/pipeline/sessions.py): opening the owners of a route with   *)
(* retries at full capacity, accepting input, the pump that submits it,    *)
(* control events that keep their place among the appends, failures, and   *)
(* the clean-up that closes the owners downstream first.                   *)
(*                                                                         *)
(* All tasks share one asyncio loop; the suspension points are the send of *)
(* an operation, the wait for its completion, the wait for session.wake,   *)
(* the session lock and the wait for the pump.  session.wake is cleared    *)
(* only on the way to waiting for it, so it is represented by who sleeps:  *)
(* setting it wakes every sleeper.  The session lock is held by the opener *)
(* while it sends, awaits or reads, and by the close task that cleans up.  *)
(* The owners (scheduling/session.py) run the operations of a session in   *)
(* arrival order; of what they run only opens and closes leave a trace.    *)
(* asyncio.wait_for is that of Python 3.12, which awaits in the caller's   *)
(* own task.                                                               *)
(***************************************************************************)
EXTENDS Integers, Sequences, FiniteSets, SequencesExt

CONSTANTS
    Sessions,     \* the calls of open_session, each with the session it owns
    Controls,     \* the calls of control_session
    SessionOf,    \* the session each control addresses
    Ordered,      \* the controls with is_ordered
    Preempting,   \* the controls with should_preempt
    CallSets,     \* the sets of calls made together
    MaxInput,     \* bound: chunks a session is given
    MaxPending,   \* limits.max_pending_chunks
    Capacity,     \* max_open_sessions of the owners, in route order
    MaxFaults     \* bound: errors, timeouts, rejections and cancellations

ASSUME SessionsAssumption ==
    /\ SessionOf \in [Controls -> Sessions]
    /\ Ordered \subseteq Controls /\ Preempting \subseteq Controls
    /\ MaxInput \in Nat /\ MaxPending \in Nat /\ MaxFaults \in Nat
    /\ Capacity \in Seq(Nat) /\ Capacity # <<>>

VARIABLES
    calls,        \* the calls of open_session and control_session made
    sessions,     \* the sessions registered in self.sessions
    unavailable,  \* session_unavailable_stages
    stopping,     \* is_sessions_stopping
    session,      \* the Session object of each open
    open_pc,      \* where each open_session call is
    close_wake,   \* the opens whose session_close_wake event is set
    control,      \* each control_session call
    inbox,        \* the opens and closes each owner has yet to run
    held,         \* the owners that hold state of each session
    answer,       \* the completion of the open or close being awaited
    faults        \* faults so far

coordVars == <<calls, sessions, unavailable, stopping>>
openVars  == <<open_pc, close_wake>>
ownerVars == <<inbox, held, answer>>
vars == <<coordVars, session, openVars, control, ownerVars, faults>>

Owners == 1..Len(Capacity)

\* A Session: how many owners of the route opened names, the tasks, the input
\* (first is the seq of pending[0], next_input if there is none), the controls
\* whose barrier stands in arrival order, and the owner being closed
FreshSession ==
    [opened |-> 1, is_closing |-> FALSE, pump |-> "none", closer |-> "none",
     next_input |-> 0, first |-> 0, barriers |-> <<>>, close_owner |-> 0]

Init ==
    /\ calls \in CallSets
    /\ sessions = {} /\ unavailable = {} /\ stopping = FALSE
    /\ session = [s \in Sessions |-> FreshSession]
    /\ open_pc = [s \in Sessions |-> "new"]
    /\ close_wake = {}
    /\ control = [c \in Controls |-> [pc |-> "new", owner |-> 1, barrier |-> 0]]
    /\ inbox = [s \in Sessions |-> [k \in Owners |-> <<>>]]
    /\ held = [s \in Sessions |-> {}]
    /\ answer = [s \in Sessions |-> "none"]
    /\ faults = 0

-----------------------------------------------------------------------------
(* session.wake, begin_session_close and the close tasks                   *)

\* session.wake.set() of the sessions S, whose tasks have got to x and cs
Wake(S, x, cs) ==
    /\ session' = [s \in Sessions |->
           IF s \in S /\ x[s].pump = "asleep"
           THEN [x[s] EXCEPT !.pump = "woken"] ELSE x[s]]
    /\ control' = [c \in Controls |->
           IF SessionOf[c] \in S /\ cs[c].pc = "asleep"
           THEN [cs[c] EXCEPT !.pc = "queued"] ELSE cs[c]]

\* begin_session_close
Fenced(x, S) ==
    [s \in Sessions |-> IF s \in S THEN [x[s] EXCEPT !.is_closing = TRUE]
                        ELSE x[s]]

\* close_session_state: fence the session and create a close task.  A second
\* task changes nothing: it finds the session closed when it gets the lock
Closing(x, S) ==
    [s \in Sessions |->
        IF s \in S /\ x[s].closer = "none"
        THEN [x[s] EXCEPT !.is_closing = TRUE, !.closer = "requested"]
        ELSE Fenced(x, S)[s]]

\* fail_session, by a task that leaves the sessions at x
FailSession(s, x) == Wake({s}, Closing(x, {s}), control)

\* A fault of the outside world
Fault == faults < MaxFaults /\ faults' = faults + 1

\* Where a call of open_session has not begun or has returned
Returned == {"new", "open", "refused", "failed"}

HasLock(s) == \/ open_pc[s] \in {"sending", "awaiting", "reading"}
              \/ session[s].closer \in {"pump", "sending", "awaiting"}

-----------------------------------------------------------------------------
(* open_session and open_route                                             *)

\* open_route from its first line to the send of the first open
Attempt(s) ==
    /\ close_wake' = close_wake \ {s}
    /\ IF stopping \/ unavailable # {}
       THEN /\ open_pc' = [open_pc EXCEPT ![s] = "failed"]
            /\ UNCHANGED <<sessions, session>>
       ELSE /\ open_pc' = [open_pc EXCEPT ![s] = "sending"]
            /\ sessions' = sessions \cup {s}
            /\ session' = [session EXCEPT ![s] = FreshSession]
    /\ UNCHANGED <<calls, unavailable, stopping, control, ownerVars, faults>>

OpenSession(s) == s \in calls /\ open_pc[s] = "new" /\ Attempt(s)

\* The call of open_session gets to `to`, its session to x
Opening(s, to, x) ==
    /\ open_pc' = [open_pc EXCEPT ![s] = to]
    /\ session' = [session EXCEPT ![s] = x]
    /\ UNCHANGED <<coordVars, close_wake, control, faults>>

OpenSent(s) ==
    /\ open_pc[s] = "sending"
    /\ Opening(s, "awaiting", session[s])
    /\ inbox' = [inbox EXCEPT ![s][session[s].opened] = Append(@, "open")]
    /\ answer' = [answer EXCEPT ![s] = "none"]
    /\ UNCHANGED held

\* The next owner is recorded in opened and sent its open; after the last one
\* its read is sent, unless owners went away
OpenAnswered(s) ==
    /\ open_pc[s] = "awaiting" /\ answer[s] = "ok"
    /\ \/ /\ session[s].opened < Len(Capacity)
          /\ Opening(s, "sending", [session[s] EXCEPT !.opened = @ + 1])
       \/ /\ session[s].opened = Len(Capacity)
          /\ ~stopping /\ unavailable = {}
          /\ Opening(s, "reading", session[s])
    /\ UNCHANGED ownerVars

\* The read is sent: the open returns, with the pump started
ReadSent(s) ==
    /\ open_pc[s] = "reading"
    /\ Opening(s, "open", [session[s] EXCEPT !.pump = "awake"])
    /\ UNCHANGED ownerVars

\* open_route's except clause: create a close task and wait for it
OpenFails(s, cause) ==
    /\ open_pc' = [open_pc EXCEPT ![s] = cause]
    /\ FailSession(s, session)
    /\ UNCHANGED <<coordVars, close_wake, ownerVars>>

\* An owner refuses the open, or owners went away while it was under way
OpenRefused(s) ==
    /\ open_pc[s] = "awaiting"
    /\ \/ answer[s] \in {"full", "error"} /\ OpenFails(s, answer[s])
       \/ /\ answer[s] = "ok" /\ session[s].opened = Len(Capacity)
          /\ stopping \/ unavailable # {}
          /\ OpenFails(s, "error")
    /\ UNCHANGED faults

\* A send fails or the Coordinator admits no more requests; the wait for the
\* owner times out or is cancelled
OpenBreaks(s) ==
    /\ Fault
    /\ \/ open_pc[s] = "sending" /\ OpenFails(s, "full")
       \/ /\ open_pc[s] \in {"sending", "awaiting", "reading"}
          /\ OpenFails(s, "error")

HasClosingSessions == \E s \in sessions : session[s].is_closing

\* The close has ended: a refused open waits for another session's close
OpenUnwinds(s) ==
    /\ open_pc[s] \in {"full", "error"} /\ session[s].closer = "done"
    /\ Opening(s,
           IF open_pc[s] = "error" THEN "failed"
           ELSE IF s \notin close_wake /\ ~HasClosingSessions THEN "refused"
           ELSE "waiting", session[s])
    /\ UNCHANGED ownerVars

OpenRetries(s) == open_pc[s] = "waiting" /\ s \in close_wake /\ Attempt(s)

\* The deadline of open_session passes
OpenExpires(s) ==
    /\ open_pc[s] = "waiting"
    /\ Opening(s, "refused", session[s])
    /\ UNCHANGED ownerVars

-----------------------------------------------------------------------------
(* append_session, pump_session and read_session                           *)

InFlight(s) == CASE session[s].pump = "sending" -> "accepted"
                 [] session[s].pump \in {"awaiting", "raising"} -> "submitted"
                 [] OTHER -> "none"

Pending(s) == session[s].next_input - session[s].first

PendingCount(s) == Pending(s) + IF InFlight(s) = "none" THEN 0 ELSE 1

\* A caller that has been given the session's identity finds it open
Reaches(s) ==
    open_pc[s] = "open" /\ s \in sessions /\ ~session[s].is_closing

\* What appends, the pump and the read leave alone
InputFrame == UNCHANGED <<coordVars, openVars, inbox, answer>>

AppendSession(s) ==
    /\ Reaches(s)
    /\ session[s].next_input < MaxInput /\ PendingCount(s) < MaxPending
    /\ Wake({s}, [session EXCEPT ![s].next_input = @ + 1], control)
    /\ InputFrame /\ UNCHANGED <<held, faults>>

\* Mutant: the chunk that follows the control is let through
BehindBarrier_Late(s) ==
    /\ session[s].barriers # <<>>
    /\ session[s].first > control[Head(session[s].barriers)].barrier

\* The first pending chunk came after the first waiting control
BehindBarrier(s) ==
    /\ session[s].barriers # <<>>
    /\ session[s].first >= control[Head(session[s].barriers)].barrier

\* One turn of the pump's loop
PumpTurns(s) ==
    LET go == Pending(s) > 0 /\ ~BehindBarrier(s) IN
    /\ session[s].pump \in {"awake", "woken"}
    /\ \/ /\ session[s].is_closing
          /\ session' = [session EXCEPT ![s].pump = "done"]
       \/ /\ ~session[s].is_closing /\ ~go
          /\ session' = [session EXCEPT ![s].pump = "asleep"]
       \/ /\ ~session[s].is_closing /\ go
          /\ session' = [session EXCEPT ![s].pump = "sending",
                                        ![s].first = @ + 1]
    /\ InputFrame /\ UNCHANGED <<control, held, faults>>

\* The idle timeout ends the wait, even one that an event has just ended
PumpIdles(s) ==
    /\ Fault
    /\ session[s].pump \in {"asleep", "woken"}
    /\ FailSession(s, [session EXCEPT ![s].pump = "done"])
    /\ InputFrame /\ UNCHANGED held

\* The append is sent; it is confirmed; a failed one has been released
PumpSteps(s) ==
    /\ \E step \in {<<"sending", "awaiting">>, <<"awaiting", "awake">>,
                    <<"raising", "done">>} :
          /\ session[s].pump = step[1]
          /\ Wake({s}, [session EXCEPT ![s].pump = step[2]], control)
    /\ InputFrame /\ UNCHANGED <<held, faults>>

\* The failure of an append's send, or of the output that confirms it, ends
\* the pump at once; an error, an abort or a timeout fails the session, then
\* releases the submission.  An owner may have dropped its state.
PumpFails(s) ==
    /\ Fault
    /\ \/ /\ \/ session[s].pump = "sending"
             \/ session[s].pump = "awaiting" /\ ~session[s].is_closing
          /\ FailSession(s, [session EXCEPT ![s].pump = "done"])
          /\ UNCHANGED held
       \/ /\ session[s].pump = "awaiting"
          /\ FailSession(s, [session EXCEPT ![s].pump = "raising"])
          /\ \E k \in Owners \cup {0} : held' = [held EXCEPT ![s] = @ \ {k}]
    /\ InputFrame

\* The read of the last owner fails, or ends although nobody closes the session
ReadEnds(s) ==
    /\ Fault
    /\ open_pc[s] = "open" /\ s \in sessions /\ session[s].closer = "none"
    /\ FailSession(s, session)
    /\ InputFrame /\ UNCHANGED held

-----------------------------------------------------------------------------
(* control_session                                                         *)

ControlFrame == UNCHANGED <<coordVars, openVars, ownerVars>>

ControlMoves(c, to) ==
    /\ control' = [control EXCEPT ![c].pc = to]
    /\ ControlFrame /\ UNCHANGED <<session, faults>>

ControlSession(c) ==
    LET s == SessionOf[c] IN
    /\ c \in calls /\ control[c].pc = "new" /\ Reaches(s)
    /\ control' = [control EXCEPT
           ![c].pc = IF c \in Ordered THEN "queued" ELSE "sending",
           ![c].barrier = session[s].next_input]
    /\ session' = [session EXCEPT ![s].barriers = Append(@, c)]
    /\ ControlFrame /\ UNCHANGED faults

\* The condition under which an ordered control goes out
MayGo(c) ==
    LET s == SessionOf[c] IN
    /\ Head(session[s].barriers) = c
    /\ Pending(s) = 0 \/ session[s].first >= control[c].barrier
    /\ \/ InFlight(s) = "none"
       \/ c \in Preempting /\ InFlight(s) = "submitted"

\* Mutant: the barrier is removed without setting session.wake
Leaves_Silent(c, result, x) ==
    /\ session' = [x EXCEPT ![SessionOf[c]].barriers = Remove(@, c)]
    /\ control' = [control EXCEPT ![c].pc = result]
    /\ ControlFrame

\* The finally clause: control c returns with `result`, its session being x
Leaves(c, result, x) ==
    LET s == SessionOf[c] IN
    /\ Wake({s}, [x EXCEPT ![s].barriers = Remove(@, c)],
            [control EXCEPT ![c].pc = result])
    /\ ControlFrame

\* One turn of an ordered control's wait
ControlLooks(c) ==
    /\ control[c].pc = "queued"
    /\ IF session[SessionOf[c]].is_closing
       THEN Leaves(c, "failed", session) /\ UNCHANGED faults
       ELSE ControlMoves(c, IF MayGo(c) THEN "sending" ELSE "asleep")

ControlSent(c) == control[c].pc = "sending" /\ ControlMoves(c, "awaiting")

\* The owner has run the control: the next owner, or the end of the call
ControlAnswered(c) ==
    /\ control[c].pc = "awaiting"
    /\ IF control[c].owner < Len(Capacity)
       THEN /\ control' = [control EXCEPT ![c].owner = @ + 1,
                                          ![c].pc = "sending"]
            /\ ControlFrame /\ UNCHANGED session
       ELSE Leaves(c, "done", session)
    /\ UNCHANGED faults

\* The Coordinator admits no more requests: the operation's except clause
\* fences the session
ControlRejected(c) ==
    /\ Fault
    /\ control[c].pc = "sending"
    /\ Leaves(c, "rejected", Fenced(session, {SessionOf[c]}))

\* The caller is cancelled while it waits for its turn, the send fails or is
\* cancelled, or the owner answers with an error or not in time
ControlFails(c) ==
    LET s == SessionOf[c] IN
    /\ Fault
    /\ \/ control[c].pc \in {"queued", "asleep"} /\ Leaves(c, "failed", session)
       \/ /\ control[c].pc \in {"sending", "awaiting"}
          /\ Leaves(c, "failed", Fenced(session, {s}))
       \/ /\ control[c].pc = "awaiting"
          /\ Leaves(c, "failed", Closing(session, {s}))

-----------------------------------------------------------------------------
(* close_session, stop_sessions, shutdown_stage_sessions, cleanup_session  *)

\* The client closes the session or stops reading its outputs
CloseSession(s) ==
    /\ open_pc[s] = "open" /\ s \in sessions /\ session[s].closer = "none"
    /\ FailSession(s, session)
    /\ UNCHANGED <<coordVars, openVars, ownerVars, faults>>

StopSessions ==
    /\ Fault /\ ~stopping
    /\ stopping' = TRUE
    /\ Wake(sessions, Closing(session, sessions), control)
    /\ UNCHANGED <<calls, sessions, unavailable, openVars, ownerVars>>

\* Some stages of the route are shut down; all of them, when selected is None,
\* together with a stop
ShutdownStageSessions(K) ==
    /\ Fault /\ ~(K \subseteq unavailable)
    /\ unavailable' = unavailable \cup K
    /\ \/ UNCHANGED stopping
       \/ K = Owners /\ stopping' = TRUE
    /\ Wake(sessions, Closing(session, sessions), control)
    /\ UNCHANGED <<calls, sessions, openVars, ownerVars>>

CloseFrame == UNCHANGED <<calls, stopping, open_pc>>

\* The clean-up gets to x
Cleaning(s, x) ==
    /\ session' = [session EXCEPT ![s] = x]
    /\ CloseFrame
    /\ UNCHANGED <<sessions, unavailable, close_wake, control, held, faults>>

\* A close task takes the lock
CleanupStarts(s) ==
    /\ session[s].closer = "requested" /\ ~HasLock(s)
    /\ Cleaning(s, [session[s] EXCEPT !.closer = "pump"])
    /\ UNCHANGED <<inbox, answer>>

\* The pump has ended, or there is none: drop the input, close the last owner
CleanupJoins(s) ==
    /\ session[s].closer = "pump" /\ session[s].pump \in {"none", "done"}
    /\ Cleaning(s, [session[s] EXCEPT !.closer = "sending",
                                      !.first = session[s].next_input,
                                      !.close_owner = session[s].opened])
    /\ UNCHANGED <<inbox, answer>>

\* The pump does not end in time: it is cancelled and nothing is closed
CleanupTimesOut(s) ==
    /\ Fault
    /\ session[s].closer = "pump" /\ session[s].pump \notin {"none", "done"}
    /\ Wake({s}, [session EXCEPT ![s].pump = "done", ![s].closer = "done"],
            control)
    /\ unavailable' = unavailable \cup 1..session[s].opened
    /\ CloseFrame /\ UNCHANGED <<sessions, close_wake, ownerVars>>

CloseSent(s) ==
    /\ session[s].closer = "sending"
    /\ Cleaning(s, [session[s] EXCEPT !.closer = "awaiting"])
    /\ inbox' = [inbox EXCEPT ![s][session[s].close_owner] = Append(@, "close")]
    /\ answer' = [answer EXCEPT ![s] = "none"]

\* The session is closed, with the owners K unconfirmed; notify_session_closed
CleanupEnds(s, K) ==
    /\ session' = [session EXCEPT ![s].closer = "done"]
    /\ unavailable' = unavailable \cup K
    /\ sessions' = IF K = {} THEN sessions \ {s} ELSE sessions
    /\ close_wake' = IF session[s].pump = "none" THEN close_wake
                     ELSE {t \in Sessions : open_pc[t] \notin Returned}
    /\ CloseFrame /\ UNCHANGED <<control, ownerVars>>

\* The owner has closed: the one upstream of it, or the end
CloseAnswered(s) ==
    /\ session[s].closer = "awaiting" /\ answer[s] = "ok"
    /\ IF session[s].close_owner > 1
       THEN /\ Cleaning(s, [session[s] EXCEPT !.closer = "sending",
                                              !.close_owner = @ - 1])
            /\ UNCHANGED <<inbox, answer>>
       ELSE CleanupEnds(s, {}) /\ UNCHANGED faults

\* Mutant: only the owner that failed is made unavailable
CloseFails_OnlyIt(s) ==
    /\ \/ session[s].closer = "sending" /\ Fault
       \/ session[s].closer = "awaiting" /\ answer[s] = "error" /\ UNCHANGED faults
    /\ CleanupEnds(s, {session[s].close_owner})

\* Mutant: the loop goes on upstream after a failure
CloseFails_GoesOn(s) ==
    /\ session[s].closer = "awaiting" /\ answer[s] = "error"
    /\ IF session[s].close_owner > 1
       THEN /\ Cleaning(s, [session[s] EXCEPT !.closer = "sending",
                                              !.close_owner = @ - 1])
            /\ UNCHANGED <<inbox, answer>>
       ELSE CleanupEnds(s, {1}) /\ UNCHANGED faults

\* The send fails, or the owner's hook does
CloseFails(s) ==
    /\ \/ session[s].closer = "sending" /\ Fault
       \/ session[s].closer = "awaiting" /\ answer[s] = "error" /\ UNCHANGED faults
    /\ CleanupEnds(s, 1..session[s].close_owner)

-----------------------------------------------------------------------------
(* The owners: SessionScheduler.open_session and close_session             *)

\* The operation a completion would answer is still awaited
Awaited(s, k, op) ==
    IF op = "open" THEN open_pc[s] = "awaiting" /\ session[s].opened = k
    ELSE session[s].closer = "awaiting" /\ session[s].close_owner = k

\* Owner k ends the first operation of session s with `result`
OwnerEnds(s, k, result) ==
    /\ inbox' = [inbox EXCEPT ![s][k] = Tail(@)]
    /\ answer' = [answer EXCEPT ![s] =
                     IF Awaited(s, k, Head(inbox[s][k])) THEN result ELSE @]
    /\ UNCHANGED <<coordVars, session, openVars, control>>

IsFull(k) == Cardinality({t \in Sessions : k \in held[t]}) >= Capacity[k]

\* An open allocates or is refused, its hook fails, perhaps with the clean-up
\* that follows, or it was aborted before it ran
OwnerOpens(s, k) ==
    /\ inbox[s][k] # <<>> /\ Head(inbox[s][k]) = "open"
    /\ \/ /\ ~IsFull(k) /\ held' = [held EXCEPT ![s] = @ \cup {k}]
          /\ OwnerEnds(s, k, "ok") /\ UNCHANGED faults
       \/ /\ IsFull(k) /\ OwnerEnds(s, k, "full")
          /\ UNCHANGED <<held, faults>>
       \/ /\ Fault /\ OwnerEnds(s, k, "error")
          /\ \/ UNCHANGED held
             \/ ~IsFull(k) /\ held' = [held EXCEPT ![s] = @ \cup {k}]
       \/ /\ ~Awaited(s, k, "open") /\ OwnerEnds(s, k, "none")
          /\ UNCHANGED <<held, faults>>

\* A close releases, or its hook fails
OwnerCloses(s, k) ==
    /\ inbox[s][k] # <<>> /\ Head(inbox[s][k]) = "close"
    /\ \/ /\ held' = [held EXCEPT ![s] = @ \ {k}]
          /\ OwnerEnds(s, k, "ok") /\ UNCHANGED faults
       \/ Fault /\ OwnerEnds(s, k, "error") /\ UNCHANGED held

-----------------------------------------------------------------------------
Next ==
    \/ \E s \in Sessions :
         \/ OpenSession(s) \/ OpenSent(s) \/ OpenAnswered(s) \/ ReadSent(s)
         \/ OpenRefused(s) \/ OpenBreaks(s) \/ OpenUnwinds(s)
         \/ OpenRetries(s) \/ OpenExpires(s)
         \/ AppendSession(s) \/ PumpTurns(s) \/ PumpIdles(s) \/ PumpSteps(s)
         \/ PumpFails(s) \/ ReadEnds(s)
         \/ CloseSession(s) \/ CleanupStarts(s) \/ CleanupJoins(s)
         \/ CleanupTimesOut(s) \/ CloseSent(s) \/ CloseAnswered(s)
         \/ CloseFails(s)
         \/ \E k \in Owners : OwnerOpens(s, k) \/ OwnerCloses(s, k)
    \/ \E c \in Controls :
         \/ ControlSession(c) \/ ControlLooks(c) \/ ControlSent(c)
         \/ ControlAnswered(c) \/ ControlRejected(c) \/ ControlFails(c)
    \/ StopSessions
    \/ \E K \in SUBSET Owners : ShutdownStageSessions(K)

Spec == Init /\ [][Next]_vars

\* The event loop runs every task that can go on, the deadline of an open
\* passes, and an owner runs what it has received.  Callers and faults owe
\* nothing, the idle timeout and the operation timeout included.
Fairness ==
    /\ \A s \in Sessions :
         /\ WF_vars(OpenSent(s) \/ OpenAnswered(s) \/ ReadSent(s)
                    \/ OpenRefused(s) \/ OpenUnwinds(s) \/ OpenRetries(s)
                    \/ OpenExpires(s))
         /\ WF_vars(PumpTurns(s) \/ PumpSteps(s))
         /\ WF_vars(CleanupStarts(s) \/ CleanupJoins(s) \/ CloseSent(s)
                    \/ CloseAnswered(s) \/ CloseFails(s))
         /\ \A k \in Owners : WF_vars(OwnerOpens(s, k) \/ OwnerCloses(s, k))
    /\ \A c \in Controls :
         WF_vars(ControlLooks(c) \/ ControlSent(c) \/ ControlAnswered(c))

FairSpec == Spec /\ Fairness

-----------------------------------------------------------------------------
\* A control keeps its place among the appends from the moment it goes out
\* until its last owner has answered: no append accepted after it is under
\* way, and if it is ordered, every control called before it has returned and
\* every append accepted before it has been submitted, and unless it preempts
\* also confirmed (control_session and the barrier test of pump_session).
ControlsKeepPlace ==
    \A c \in Controls : control[c].pc \in {"sending", "awaiting"} =>
        LET s == SessionOf[c] IN
        /\ InFlight(s) # "none" => session[s].first <= control[c].barrier
        /\ c \in Ordered =>
             /\ Head(session[s].barriers) = c
             /\ session[s].first >= control[c].barrier
             /\ \/ InFlight(s) = "none"
                \/ c \in Preempting /\ InFlight(s) = "submitted"

\* Whatever an owner holds or is about to allocate for a session is on record:
\* the session is registered and names the owner in opened, and once its
\* clean-up has ended the owner takes no further sessions (open_route records
\* the attempt first; cleanup_session and fail_session_cleanup).
HeldIsRecorded ==
    \A s \in Sessions, k \in Owners :
        k \in held[s] \/ Contains(inbox[s][k], "open") =>
            /\ s \in sessions /\ k <= session[s].opened
            /\ session[s].closer = "done" => k \in unavailable

\* An owner is told to close only when no owner downstream of it holds the
\* session or may come to hold it (the reversed loop of cleanup_session, which
\* stops at the first owner that does not confirm).
UpstreamClosesLast ==
    \A s \in Sessions, k \in Owners : Contains(inbox[s][k], "close") =>
        \A j \in Owners : j > k =>
            j \notin held[s] /\ ~Contains(inbox[s][j], "open")

\* Every call ends: an open opens or is refused, a control returns although
\* it shares one wake event with the pump and the other controls, and a close
\* task that has been created closes its session.
CallsReturn ==
    /\ \A s \in Sessions :
         /\ open_pc[s] \notin Returned ~> open_pc[s] \in Returned
         /\ session[s].closer = "requested" ~> session[s].closer = "done"
    /\ \A c \in Controls : control[c].pc = "queued" ~>
                               control[c].pc \in {"done", "rejected", "failed"}

\* "A full queue rejects it and keeps the session open" (report in
\* serve/session_wire.py): the step in which a control is rejected because
\* the Coordinator is full leaves the session as it was.
RejectedKeepsOpen ==
    [][\A c \in Controls :
          control[c].pc # "rejected" /\ control'[c].pc = "rejected" =>
              session'[SessionOf[c]].is_closing =
                  session[SessionOf[c]].is_closing]_vars
=============================================================================
