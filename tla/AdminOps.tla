------------------------------ MODULE AdminOps ------------------------------
(***************************************************************************)
(* Administrative operations (pause, continue, weight updates, ...) from   *)
(* the caller of Coordinator.admin to the scheduler of every               *)
(* tensor-parallel rank and back:                                          *)
(*                                                                         *)
(*   - Coordinator.admin sends the operation to its target stages one by   *)
(*     one under admin_lock and waits, with a timeout, for one result from *)
(*     each (sglang_omni/pipeline/coordinator.py);                         *)
(*   - a stage handles the message inside its receive loop; the leader of  *)
(*     a tensor-parallel group passes it on to the followers, runs its own *)
(*     share and collects theirs (pipeline/stage/runtime.py and            *)
(*     pipeline/tp_control.py);                                            *)
(*   - the scheduler thread of each rank takes it from admin_queue; with   *)
(*     several ranks the entry rank broadcasts it, and every rank pairs    *)
(*     the outcomes with its waiting callers in order                      *)
(*     (scheduling/omni_scheduler.py).                                     *)
(*                                                                         *)
(* Every wait has a timeout of its own, so each layer may go on while the  *)
(* layer below is still working, and meets the late answer later.  Timers  *)
(* are not modelled: a wait may time out whenever its answer is not there. *)
(***************************************************************************)
EXTENDS Integers, Sequences, SequencesExt

CONSTANTS
    Ops,         \* one element per call of admin(): the op_ids
    Stages,      \* the stages
    Ranks,       \* the tensor-parallel ranks of each stage; 0 is the leader
    Resolutions, \* what resolve_admin_stages may give the operations
    Updates,     \* the operations with is_update_action(action)
    Supporting,  \* the stages whose scheduler has an admin handler
    Outcomes,    \* what run_admin_action may return as success of each operation
    NoOp,        \* "nothing" where an operation is expected
    NoResult     \* "nothing" where a result is expected

ASSUME AdminAssumption ==
    /\ \A s \in Stages : 0 \in Ranks[s]
    /\ Resolutions \subseteq [Ops -> Seq(Stages) \ {<<>>}]
    /\ \A f \in Resolutions, o \in Ops : IsInjective(f[o])
    /\ Updates \subseteq Ops
    /\ Supporting \subseteq Stages
    /\ Outcomes \in [Ops -> SUBSET BOOLEAN]
    /\ NoOp \notin Ops

Workers == UNION {{s} \X Ranks[s] : s \in Stages}
Leader(s) == <<s, 0>>
Followers(s) == {s} \X (Ranks[s] \ {0})

\* tp_size > 1
Parallel(s) == Ranks[s] # {0}

VARIABLES
    pc,            \* where each caller of admin() is
    admin_lock,    \* the holder of admin_lock, or NoOp
    lock_waiters,  \* the callers waiting for it; asyncio.Lock is FIFO
    unsent,        \* the target stages each operation has still to be sent to
    admin_ops,     \* the operations registered in admin_ops
    results,       \* AdminPendingOperation.results: per operation and target
    future,        \* AdminPendingOperation.future: its value, or NoResult
    outcome,       \* how each call ended: "none" until it does
    work,          \* messages to a worker: the leader's socket, work_queue
    answers,       \* admin results on their way from a stage to Coordinator
    doing,         \* the operation a worker's receive loop is handling
    step,          \* where in on_admin it is
    local,         \* the leader's own result while it collects the others
    rank_results,  \* admin_result_queue of a follower
    admin_queue,   \* OmniScheduler.admin_queue
    broadcast,     \* per stage, the admin messages its entry rank broadcast
    waiters,       \* tp_admin_waiters
    tp_results,    \* tp_admin_results
    replies,       \* the response queue of each worker and operation
    applied        \* history: the outcomes of run_admin_action on each rank

coordinatorVars ==
    <<pc, admin_lock, lock_waiters, unsent, admin_ops, results, future, outcome>>
stageVars == <<doing, step, local, rank_results>>
schedulerVars == <<broadcast, waiters, tp_results, applied>>
vars == <<coordinatorVars, work, answers, stageVars, admin_queue, schedulerVars, replies>>

\* An AdminResult, and what a rank's run_admin_action gives (the operation it
\* ran is not in the code's dictionary; it is kept to state properties)
Result == [success : BOOLEAN, skipped : BOOLEAN]
Run == [op : Ops, success : BOOLEAN]

\* AdminPendingOperation.expected_stages
TargetSet(o) == DOMAIN results[o]

Init ==
    /\ pc = [o \in Ops |-> "idle"]
    /\ admin_lock = NoOp
    /\ lock_waiters = <<>>
    /\ unsent \in Resolutions
    /\ admin_ops = {}
    /\ results = [o \in Ops |-> [s \in ToSet(unsent[o]) |-> NoResult]]
    /\ future = [o \in Ops |-> NoResult]
    /\ outcome = [o \in Ops |-> "none"]
    /\ work = [w \in Workers |-> <<>>]
    /\ answers = [s \in Stages |-> <<>>]
    /\ doing = [w \in Workers |-> NoOp]
    /\ step = [w \in Workers |-> "idle"]
    /\ local = [s \in Stages |-> NoResult]
    /\ rank_results = [w \in Workers |-> <<>>]
    /\ admin_queue = [w \in Workers |-> <<>>]
    /\ broadcast = [s \in Stages |-> <<>>]
    /\ waiters = [w \in Workers |-> <<>>]
    /\ tp_results = [w \in Workers |-> <<>>]
    /\ replies = [w \in Workers |-> [o \in Ops |-> NoResult]]
    /\ applied = [w \in Workers |-> <<>>]

-----------------------------------------------------------------------------
(* Coordinator.admin *)

Call(o) ==
    /\ pc[o] = "idle"
    /\ pc' = [pc EXCEPT ![o] = "queued"]
    /\ lock_waiters' = Append(lock_waiters, o)
    /\ UNCHANGED <<admin_lock, unsent, admin_ops, results, future, outcome,
                   work, answers, stageVars, admin_queue, schedulerVars, replies>>

Acquire_NoLock(o) ==
    /\ pc[o] = "queued"
    /\ admin_lock' = o
    /\ lock_waiters' = Remove(lock_waiters, o)
    /\ admin_ops' = admin_ops \union {o}
    /\ pc' = [pc EXCEPT ![o] = "sending"]
    /\ UNCHANGED <<unsent, results, future, outcome,
                   work, answers, stageVars, admin_queue, schedulerVars, replies>>

\* async with admin_lock, and the registration of the pending operation
Acquire(o) ==
    /\ admin_lock = NoOp
    /\ lock_waiters # <<>>
    /\ o = Head(lock_waiters)
    /\ admin_lock' = o
    /\ lock_waiters' = Tail(lock_waiters)
    /\ admin_ops' = admin_ops \union {o}
    /\ pc' = [pc EXCEPT ![o] = "sending"]
    /\ UNCHANGED <<unsent, results, future, outcome,
                   work, answers, stageVars, admin_queue, schedulerVars, replies>>

\* The next send_admin is accepted by the socket; after the last one the
\* caller waits for the future
Send(o) ==
    LET s == Head(unsent[o]) IN
    /\ pc[o] = "sending"
    /\ work' = [work EXCEPT ![Leader(s)] = Append(@, o)]
    /\ unsent' = [unsent EXCEPT ![o] = Tail(@)]
    /\ pc' = [pc EXCEPT ![o] = IF Len(unsent[o]) = 1 THEN "waiting" ELSE "sending"]
    /\ UNCHANGED <<admin_lock, lock_waiters, admin_ops, results, future, outcome,
                   answers, stageVars, admin_queue, schedulerVars, replies>>

Leave_KeepsLock(o, how) ==
    /\ admin_ops' = admin_ops \ {o}
    /\ pc' = [pc EXCEPT ![o] = "done"]
    /\ outcome' = [outcome EXCEPT ![o] = how]
    /\ UNCHANGED <<admin_lock, lock_waiters, results, future,
                   answers, stageVars, admin_queue, schedulerVars, replies>>

\* The finally clause and the end of the async with block
Leave(o, how) ==
    /\ admin_lock' = NoOp
    /\ admin_ops' = admin_ops \ {o}
    /\ pc' = [pc EXCEPT ![o] = "done"]
    /\ outcome' = [outcome EXCEPT ![o] = how]
    /\ UNCHANGED <<lock_waiters, results, future,
                   answers, stageVars, admin_queue, schedulerVars, replies>>

\* A send raises
SendFails(o) ==
    /\ pc[o] = "sending"
    /\ Leave(o, "raised")
    /\ UNCHANGED <<work, unsent>>

\* The caller is cancelled: before it has the lock; while a send is pending,
\* which the socket may or may not have taken; or while it waits
CancelQueued(o) ==
    /\ pc[o] = "queued"
    /\ pc' = [pc EXCEPT ![o] = "done"]
    /\ outcome' = [outcome EXCEPT ![o] = "raised"]
    /\ lock_waiters' = Remove(lock_waiters, o)
    /\ UNCHANGED <<admin_lock, unsent, admin_ops, results, future,
                   work, answers, stageVars, admin_queue, schedulerVars, replies>>

CancelSending(o) ==
    /\ pc[o] = "sending"
    /\ Leave(o, "raised")
    /\ \/ UNCHANGED <<work, unsent>>
       \/ /\ work' = [work EXCEPT ![Leader(Head(unsent[o]))] = Append(@, o)]
          /\ unsent' = [unsent EXCEPT ![o] = Tail(@)]

\* wait_for times out, or the caller is cancelled in it.  Either may come
\* between the future getting its value and the caller resuming.
GiveUp(o) ==
    /\ pc[o] = "waiting"
    /\ Leave(o, "raised")
    /\ UNCHANGED <<work, unsent>>

Success_Vacuous(o, rs) ==
    IF o \in Updates
    THEN \A r \in rs : ~r.skipped => r.success
    ELSE \A r \in rs : r.success

\* aggregate_admin_results: an update must have been carried out somewhere,
\* and stages that skipped it have no say
Success(o, rs) ==
    IF o \in Updates
    THEN LET updated == {r \in rs : ~r.skipped}
         IN  updated # {} /\ \A r \in updated : r.success
    ELSE \A r \in rs : r.success

\* The future has its value, and admin returns the aggregated response
Return(o) ==
    /\ pc[o] = "waiting"
    /\ future[o] # NoResult
    /\ Leave(o, IF Success(o, future[o]) THEN "success" ELSE "failure")
    /\ UNCHANGED <<work, unsent>>

\* The completion loop hands the next result of stage s to
\* handle_admin_result; one for an operation that is gone is dropped
HandleAdminResult(s) ==
    /\ answers[s] # <<>>
    /\ answers' = [answers EXCEPT ![s] = Tail(@)]
    /\ LET o   == Head(answers[s]).op
           got == [results[o] EXCEPT ![s] = Head(answers[s]).result]
           all == {got[t] : t \in TargetSet(o)}
       IN  IF o \in admin_ops
           THEN /\ results' = [results EXCEPT ![o] = got]
                /\ future' = IF NoResult \notin all /\ future[o] = NoResult
                             THEN [future EXCEPT ![o] = all] ELSE future
           ELSE UNCHANGED <<results, future>>
    /\ UNCHANGED <<pc, admin_lock, lock_waiters, unsent, admin_ops, outcome,
                   work, stageVars, admin_queue, schedulerVars, replies>>

-----------------------------------------------------------------------------
(* Stage.on_admin, leader and followers *)

\* The receive loop takes the next message.  A leader first puts it into the
\* work queue of every follower; then run_admin_operation hands it to the
\* scheduler, or answers at once when the scheduler has no admin handler.
Receive(w) ==
    LET s == w[1]
        o == Head(work[w])
        fanout == IF w = Leader(s) THEN Followers(s) ELSE {}
    IN
    /\ doing[w] = NoOp
    /\ work[w] # <<>>
    /\ doing' = [doing EXCEPT ![w] = o]
    /\ step' = [step EXCEPT ![w] = IF s \in Supporting THEN "run" ELSE "skip"]
    /\ work' = [v \in Workers |-> CASE v = w       -> Tail(work[v])
                                    [] v \in fanout -> Append(work[v], o)
                                    [] OTHER       -> work[v]]
    /\ admin_queue' = IF s \in Supporting
                      THEN [admin_queue EXCEPT ![w] = Append(@, o)] ELSE admin_queue
    /\ UNCHANGED <<coordinatorVars, answers, local, rank_results, schedulerVars, replies>>

\* send_admin_result to the Coordinator, after which the loop is free again
Answer(s, result) ==
    /\ answers' = [answers EXCEPT ![s] = Append(@, [op |-> doing[Leader(s)], result |-> result])]
    /\ doing' = [doing EXCEPT ![Leader(s)] = NoOp]
    /\ step' = [step EXCEPT ![Leader(s)] = "idle"]

\* The rank's own result is known: a follower passes it to its leader, a
\* leader goes on to collect, and a stage of one rank answers
RankDone(w, result) ==
    LET s == w[1] IN
    \/ /\ w # Leader(s)
       /\ rank_results' = [rank_results EXCEPT
                              ![w] = Append(@, [op |-> doing[w], result |-> result])]
       /\ doing' = [doing EXCEPT ![w] = NoOp]
       /\ step' = [step EXCEPT ![w] = "idle"]
       /\ UNCHANGED <<local, answers>>
    \/ /\ w = Leader(s)
       /\ Parallel(s)
       /\ local' = [local EXCEPT ![s] = result]
       /\ step' = [step EXCEPT ![w] = "collect"]
       /\ UNCHANGED <<doing, rank_results, answers>>
    \/ /\ w = Leader(s)
       /\ ~Parallel(s)
       /\ Answer(s, result)
       /\ UNCHANGED <<local, rank_results>>

\* enqueue_admin returns the reply of the scheduler
RunDone(w) ==
    /\ step[w] = "run"
    /\ replies[w][doing[w]] # NoResult
    /\ RankDone(w, [success |-> replies[w][doing[w]].success, skipped |-> FALSE])
    /\ UNCHANGED <<coordinatorVars, work, admin_queue, schedulerVars, replies>>

RunTimeout_Withdraws(w) ==
    /\ step[w] = "run"
    /\ replies[w][doing[w]] = NoResult
    /\ RankDone(w, [success |-> FALSE, skipped |-> FALSE])
    /\ admin_queue' = [admin_queue EXCEPT ![w] = Remove(@, doing[w])]
    /\ UNCHANGED <<coordinatorVars, work, schedulerVars, replies>>

RunTimeout_DropsWaiter(w) ==
    /\ step[w] = "run"
    /\ replies[w][doing[w]] = NoResult
    /\ RankDone(w, [success |-> FALSE, skipped |-> FALSE])
    /\ waiters' = [waiters EXCEPT ![w] = Remove(@, doing[w])]
    /\ UNCHANGED <<coordinatorVars, work, admin_queue, broadcast, tp_results, applied, replies>>

\* enqueue_admin times out.  The action stays queued, and its waiter stays in
\* tp_admin_waiters: it may still run, and be answered, later
RunTimeout(w) ==
    /\ step[w] = "run"
    /\ replies[w][doing[w]] = NoResult
    /\ RankDone(w, [success |-> FALSE, skipped |-> FALSE])
    /\ UNCHANGED <<coordinatorVars, work, admin_queue, schedulerVars, replies>>

\* The scheduler has no admin handler
Skip(w) ==
    /\ step[w] = "skip"
    /\ RankDone(w, [success |-> TRUE, skipped |-> TRUE])
    /\ UNCHANGED <<coordinatorVars, work, admin_queue, schedulerVars, replies>>

\* q.get on every follower's queue: the results that are there are taken
TakeRankResults(s) ==
    rank_results' = [w \in Workers |->
        IF w \in Followers(s) /\ rank_results[w] # <<>>
        THEN Tail(rank_results[w]) ELSE rank_results[w]]

IsOf_Any(m, o) == TRUE

\* The op_id check of collect_admin_results
IsOf(m, o) == m.op = o

\* Every follower has a result in its queue.  One that belongs to another
\* operation, left there by a collection that timed out, raises, and the
\* leader reports failure
Collect(s) ==
    LET heads == {Head(rank_results[w]) : w \in Followers(s)}
        sound == \A m \in heads : IsOf(m, doing[Leader(s)]) /\ m.result.success
    IN
    /\ step[Leader(s)] = "collect"
    /\ \A w \in Followers(s) : rank_results[w] # <<>>
    /\ TakeRankResults(s)
    /\ Answer(s, [local[s] EXCEPT !.success = @ /\ sound])
    /\ local' = [local EXCEPT ![s] = NoResult]
    /\ UNCHANGED <<coordinatorVars, work, admin_queue, schedulerVars, replies>>

\* Some follower has not answered within timeout_s
CollectTimeout(s) ==
    /\ step[Leader(s)] = "collect"
    /\ \E w \in Followers(s) : rank_results[w] = <<>>
    /\ TakeRankResults(s)
    /\ Answer(s, [local[s] EXCEPT !.success = FALSE])
    /\ local' = [local EXCEPT ![s] = NoResult]
    /\ UNCHANGED <<coordinatorVars, work, admin_queue, schedulerVars, replies>>

-----------------------------------------------------------------------------
(* The scheduler thread of a rank *)

\* answer_tp_admin_waiters, given the two queues as they are on entry
AnswerWaiters(w, ws, rs) ==
    LET n == IF Len(ws) < Len(rs) THEN Len(ws) ELSE Len(rs)
        pair(o) == {i \in 1..n : ws[i] = o}
    IN
    /\ waiters' = [waiters EXCEPT ![w] = SubSeq(ws, n + 1, Len(ws))]
    /\ tp_results' = [tp_results EXCEPT ![w] = SubSeq(rs, n + 1, Len(rs))]
    /\ replies' = [replies EXCEPT ![w] = [o \in Ops |->
           IF pair(o) = {} THEN @[o] ELSE rs[CHOOSE i \in pair(o) : TRUE]]]

\* One iteration of process_admin_requests with several ranks.  The entry
\* rank's inbox is drained into the broadcast by the same thread, in order
Enqueue(w) ==
    LET s == w[1]
        o == Head(admin_queue[w])
    IN
    /\ Parallel(s)
    /\ admin_queue[w] # <<>>
    /\ admin_queue' = [admin_queue EXCEPT ![w] = Tail(@)]
    /\ broadcast' = IF w = Leader(s) THEN [broadcast EXCEPT ![s] = Append(@, o)] ELSE broadcast
    /\ AnswerWaiters(w, Append(waiters[w], o), tp_results[w])
    /\ UNCHANGED <<coordinatorVars, work, answers, stageVars, applied>>

\* A rank receives the next admin message of the broadcast, applies it (which
\* may fail) and keeps the outcome for its waiter, who may not be there yet
Apply(w) ==
    LET s == w[1]
        o == broadcast[s][Len(applied[w]) + 1]
    IN
    /\ Len(applied[w]) < Len(broadcast[s])
    /\ \E ok \in Outcomes[o] :
          LET run == [op |-> o, success |-> ok] IN
          /\ applied' = [applied EXCEPT ![w] = Append(@, run)]
          /\ AnswerWaiters(w, waiters[w], Append(tp_results[w], run))
    /\ UNCHANGED <<coordinatorVars, work, answers, stageVars, admin_queue, broadcast>>

\* One iteration of process_admin_requests with a single rank
RunAlone(w) ==
    LET o == Head(admin_queue[w]) IN
    /\ ~Parallel(w[1])
    /\ admin_queue[w] # <<>>
    /\ admin_queue' = [admin_queue EXCEPT ![w] = Tail(@)]
    /\ \E ok \in Outcomes[o] :
          LET run == [op |-> o, success |-> ok] IN
          /\ applied' = [applied EXCEPT ![w] = Append(@, run)]
          /\ replies' = [replies EXCEPT ![w][o] = run]
    /\ UNCHANGED <<coordinatorVars, work, answers, stageVars, broadcast, waiters, tp_results>>

Next ==
    \/ \E o \in Ops :
          \/ Call(o) \/ Acquire(o) \/ Send(o) \/ SendFails(o)
          \/ CancelQueued(o) \/ CancelSending(o) \/ GiveUp(o) \/ Return(o)
    \/ \E s \in Stages : HandleAdminResult(s) \/ Collect(s) \/ CollectTimeout(s)
    \/ \E w \in Workers :
          \/ Receive(w) \/ RunDone(w) \/ RunTimeout(w) \/ Skip(w)
          \/ Enqueue(w) \/ Apply(w) \/ RunAlone(w)

Spec == Init /\ [][Next]_vars

\* What the event loops, timers and scheduler threads guarantee: a caller
\* whose turn it is gets the lock, a send to a connected stage is accepted or
\* fails, a wait ends with its answer or its timeout, and a scheduler thread
\* goes through its loop.  A stage is never required to answer in time, and
\* nobody is required to call, cancel or fail.
FairSpec ==
    /\ Spec
    /\ \A o \in Ops :   \* the caller's task
          WF_vars(Acquire(o) \/ Send(o) \/ SendFails(o) \/ GiveUp(o) \/ Return(o))
    /\ \A w \in Workers :  \* the receive loop
          WF_vars(\/ Receive(w) \/ RunDone(w) \/ RunTimeout(w) \/ Skip(w)
                  \/ w = Leader(w[1]) /\ (Collect(w[1]) \/ CollectTimeout(w[1])))
    /\ \A w \in Workers :  \* the scheduler thread
          WF_vars(Enqueue(w) \/ Apply(w) \/ RunAlone(w))

-----------------------------------------------------------------------------
(* Properties *)

\* A caller of admin() is told success only if every rank of every target
\* stage that supports admin operations has carried out this very operation
\* and succeeded, however many answers of earlier operations came late
\* (handle_admin_result, collect_admin_results, answer_tp_admin_waiters); an
\* update reported as successful was carried out by at least one stage.
SuccessIsEverywhere ==
    \A o \in Ops : outcome[o] = "success" =>
        /\ \A s \in TargetSet(o) \intersect Supporting : \A r \in Ranks[s] :
              [op |-> o, success |-> TRUE] \in ToSet(applied[<<s, r>>])
        /\ o \in Updates => TargetSet(o) \intersect Supporting # {}

\* The ranks of all stages carry operations out in one common order: no two
\* of them apply, say, a pause and a continue the other way round, whatever
\* was cancelled, timed out or failed half sent.  This is what admin_lock is
\* held for while an operation is sent.
SameOrder ==
    \A v, w \in Workers :
        \A i, j \in 1..Len(applied[v]), k, l \in 1..Len(applied[w]) :
            /\ i < j
            /\ applied[v][i].op = applied[w][k].op
            /\ applied[v][j].op = applied[w][l].op
            => k < l

\* The reply a waiting caller gets from its scheduler is the outcome of its
\* own operation: pairing waiters and outcomes by position
\* (answer_tp_admin_waiters) never shifts, not even when callers gave up.
RepliesAreOwn ==
    \A w \in Workers, o \in Ops :
        replies[w][o] # NoResult => replies[w][o].op = o

\* Every call of admin() ends, even when stages answer late or never and
\* other callers are cancelled at any point: the lock always comes free.
CallsEnd ==
    \A o \in Ops : pc[o] = "queued" ~> pc[o] = "done"

\* An operation that reached a stage is carried out by every rank of it,
\* also when its caller, its stage or its leader stopped waiting: no rank of
\* a group is left without an action the other ranks applied.
NoRankLeftBehind ==
    \A o \in Ops :
        pc[o] = "done" ~> \A s \in (TargetSet(o) \ ToSet(unsent[o])) \intersect Supporting :
                              \A r \in Ranks[s] : o \in {x.op : x \in ToSet(applied[<<s, r>>])}

=============================================================================
