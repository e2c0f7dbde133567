----------------------------- MODULE WorkerPool -----------------------------
(***************************************************************************)
(* The router's worker pool (sglang_omni_router/src/worker_pool): requests *)
(* on different threads take permits from counting semaphores (one global, *)
(* one per class, one per worker for sessions), choose a worker by health, *)
(* load and recency, and give everything back when their lease is dropped. *)
(* Only the choice and the reservation are under a lock; health probes and *)
(* dropped leases change what it looks at in the meantime.                 *)
(***************************************************************************)
EXTENDS Integers, FiniteSets, FiniteSetsExt

CONSTANTS
    Requests,      \* each is one request of a client
    Count,         \* the workers are 1..Count, in the order of registration
    Classes,       \* the capacity classes; an unconfigured one has limit 0
    SessionClasses,
    Route,         \* "matching": dispatch, dispatch_session; "owner": the same
                   \* with an uploaded voice; "control": dispatch_voice_owner
                   \* and PinnedWorker::dispatch, which take no class permit
    ClassOf, CreditsOf,
    Matches,       \* the workers with a matching profile, if there are any;
                   \* the one worker that is named unless "matching"
    GlobalLimit, SessionLimit,
    Configs,       \* the settings of the router that vary: its strategy, and the
                   \* limit of each class
    None

Workers == 1..Count

ASSUME PoolAssumption ==
    /\ Count \in Nat
    /\ SessionClasses \subseteq Classes
    /\ Route \in [Requests -> {"matching", "owner", "control"}]
    /\ ClassOf \in [Requests -> Classes]
    /\ CreditsOf \in [Requests -> Nat \ {0}]
    /\ Matches \in [Requests -> SUBSET Workers]
    /\ \A r \in Requests : Route[r] # "matching" =>
           \A v, w \in Matches[r] : v = w
    /\ GlobalLimit \in Nat
    /\ SessionLimit \in [Workers -> Nat]
    /\ Configs \subseteq [strategy : {"RoundRobin", "LeastRequests"},
                          limits : [Classes -> Nat]]
    /\ None \notin Requests

VARIABLES
    config,
    global, closed,  \* the global semaphore: its permits; "open" or "closed"
    class,           \* the permits of each class
    session,         \* the session permits of each worker
    load,            \* active_requests
    healthy,         \* the workers whose AtomicHealth is Healthy
    position,        \* RecencyOrder: where each worker is in ordinals
    lock,            \* the request whose thread holds the selector's lock
    pc,              \* where each request is
    outcome,         \* how it ended: "relayed", "internal" or, for any other
                     \* AdmissionError or DispatchError, "refused"
    held,            \* the parts of its lease: "class", "envelope", "session", "load"
    worker,          \* the worker its lease is for
    next,            \* the worker its scan comes to next
    eligible,        \* the workers it found so far that it may choose
    minimum, ties,   \* select_least_requests of the holder of the lock
    overtaken        \* history: how often v was preferred to a candidate w since
                     \* w was chosen last

permits == <<global, class, session, load>>
scans == <<next, eligible>>
chooser == <<position, minimum, ties, overtaken>>
leases == <<held, worker>>
vars == <<config, permits, closed, healthy, chooser, lock, pc, outcome, scans, leases>>

IsSession(r) == Route[r] # "control" /\ ClassOf[r] \in SessionClasses

\* The weight of the load: the credits, 1 for new_owner and new_pinned.
Weight(r) == IF Route[r] = "control" THEN 1 ELSE CreditsOf[r]

Init ==
    /\ config \in Configs
    /\ global = GlobalLimit /\ closed = "open"
    /\ class = config.limits /\ session = SessionLimit
    /\ load = [w \in Workers |-> 0]
    /\ healthy = {}
    /\ position = [w \in Workers |-> w]
    /\ lock = None
    /\ pc = [r \in Requests |-> "new"]
    /\ outcome = [r \in Requests |-> "none"]
    /\ held = [r \in Requests |-> {}]
    /\ worker = [r \in Requests |-> 0]
    /\ next = [r \in Requests |-> 1]
    /\ eligible = [r \in Requests |-> {}]
    /\ minimum = 0 /\ ties = {}
    /\ overtaken = [v \in Workers |-> [w \in Workers |-> 0]]

-----------------------------------------------------------------------------
(* Admission.                                                              *)

To(r, l) == pc' = [pc EXCEPT ![r] = l]

\* The request is answered with how; what it holds is dropped, see Drop.
Ending(r, how) ==
    /\ To(r, "ending")
    /\ outcome' = [outcome EXCEPT ![r] = how]

\* The locals of its dispatch go out of scope.
ForgetScan(r) ==
    /\ next' = [next EXCEPT ![r] = 1]
    /\ eligible' = [eligible EXCEPT ![r] = {}]

Gets(r, part) == held' = [held EXCEPT ![r] = @ \union part]

\* try_admit_envelope
AdmitEnvelope(r) ==
    /\ pc[r] = "new"
    /\ \/ /\ closed = "closed" \/ global = 0
          /\ Ending(r, "refused") /\ UNCHANGED <<held, global>>
       \/ /\ closed = "open" /\ global > 0
          /\ global' = global - 1
          /\ Gets(r, {"envelope"})
          /\ To(r, IF Route[r] = "control" THEN "admitted" ELSE "enveloped")
          /\ UNCHANGED outcome
    /\ UNCHANGED <<config, class, session, load, closed, healthy, chooser, lock,
                   scans, worker>>

\* try_admit_class, which drops the envelope if the class is full
AdmitClass(r) ==
    /\ pc[r] = "enveloped"
    /\ IF class[ClassOf[r]] >= CreditsOf[r]
       THEN /\ class' = [class EXCEPT ![ClassOf[r]] = @ - CreditsOf[r]]
            /\ Gets(r, {"class"}) /\ To(r, "admitted")
            /\ UNCHANGED outcome
       ELSE Ending(r, "refused") /\ UNCHANGED <<class, held>>
    /\ UNCHANGED <<config, global, session, load, closed, healthy, chooser, lock,
                   scans, worker>>

-----------------------------------------------------------------------------
(* Dispatch to the one worker that the request names: uploaded_voice_owner *)
(* and its callers, dispatch_voice_owner and PinnedWorker::dispatch.       *)

\* The worker may be unhealthy, or there is no owner, no matching profile or an
\* ambiguous model.
OwnerChecks(r) ==
    /\ pc[r] = "admitted" /\ Route[r] # "matching"
    /\ \/ Ending(r, "refused") /\ UNCHANGED eligible
       \/ \E w \in Matches[r] :
             /\ w \in healthy
             /\ eligible' = [eligible EXCEPT ![r] = {w}]
             /\ To(r, "owned") /\ UNCHANGED outcome
    /\ UNCHANGED <<config, permits, closed, healthy, chooser, lock, next, leases>>

\* The lease for w: RequestLease::new, new_session, new_owner or new_pinned.
Lease(r, w) ==
    /\ session' = [session EXCEPT ![w] = IF IsSession(r) THEN @ - 1 ELSE @]
    /\ load' = [load EXCEPT ![w] = @ + Weight(r)]
    /\ worker' = [worker EXCEPT ![r] = w]
    /\ Gets(r, {"load"} \union (IF IsSession(r) THEN {"session"} ELSE {}))
    /\ To(r, "relaying")

\* Mutant: the owner's session permit is taken without the lock.
OwnerReserves_NoLock(r) ==
    /\ pc[r] = "owned"
    /\ \E w \in eligible[r] :
          IF IsSession(r) /\ session[w] = 0
          THEN Ending(r, "refused") /\ UNCHANGED <<session, load, leases>>
          ELSE Lease(r, w) /\ UNCHANGED outcome
    /\ ForgetScan(r)
    /\ UNCHANGED <<config, global, class, closed, healthy, chooser, lock>>

\* The lock is taken and released in one step.
OwnerReserves(r) ==
    /\ pc[r] = "owned" /\ lock = None
    /\ \E w \in eligible[r] :
          IF IsSession(r) /\ session[w] = 0
          THEN Ending(r, "refused") /\ UNCHANGED <<session, load, leases>>
          ELSE Lease(r, w) /\ UNCHANGED outcome
    /\ ForgetScan(r)
    /\ UNCHANGED <<config, global, class, closed, healthy, chooser, lock>>

-----------------------------------------------------------------------------
(* Dispatch by choice: dispatch_matching looks at the health of all        *)
(* workers before it takes the lock, dispatch_session under the lock.      *)

\* matching_profiles, which may find no profile or an ambiguous model.
BeginScan(r) ==
    /\ pc[r] = "admitted" /\ Route[r] = "matching"
    /\ \/ Ending(r, "refused") /\ UNCHANGED lock
       \/ ~IsSession(r) /\ To(r, "scanning") /\ UNCHANGED <<lock, outcome>>
       \/ /\ IsSession(r) /\ lock = None
          /\ lock' = r
          /\ To(r, "scanning") /\ UNCHANGED outcome
    /\ UNCHANGED <<config, permits, closed, healthy, chooser, scans, leases>>

\* One turn of the loop over the records.
Scan(r) ==
    LET w == next[r]
        found == w \in Matches[r] /\ w \in healthy
        room == IsSession(r) => session[w] # 0
    IN  /\ pc[r] = "scanning" /\ w <= Count
        /\ next' = [next EXCEPT ![r] = w + 1]
        /\ eligible' = [eligible EXCEPT ![r] = IF found /\ room THEN @ \union {w} ELSE @]
        /\ UNCHANGED <<config, permits, closed, healthy, chooser, lock, pc, outcome, leases>>

\* The loop is over; a session's request has the lock already.
EndScan(r) ==
    /\ pc[r] = "scanning" /\ next[r] > Count
    /\ \/ /\ eligible[r] = {}
          /\ Ending(r, "refused") /\ ForgetScan(r)
          /\ lock' = IF lock = r THEN None ELSE lock
       \/ /\ eligible[r] # {} /\ lock = IF IsSession(r) THEN r ELSE None
          /\ lock' = r
          /\ To(r, "choosing") /\ next' = [next EXCEPT ![r] = 1]
          /\ UNCHANGED <<eligible, outcome>>
    /\ UNCHANGED <<config, permits, closed, healthy, chooser, leases>>

\* One turn of the loop of select_least_requests.  The load it reads may be
\* lower by the time of the choice, never higher: loads grow under the lock.
ReadLoad(r) ==
    LET w == next[r]
        less == ties = {} \/ load[w] < minimum
    IN  /\ pc[r] = "choosing" /\ config.strategy = "LeastRequests" /\ w <= Count
        /\ next' = [next EXCEPT ![r] = w + 1]
        /\ \/ w \notin eligible[r] /\ UNCHANGED <<minimum, ties>>
           \/ /\ w \in eligible[r] /\ less
              /\ minimum' = load[w] /\ ties' = {w}
           \/ /\ w \in eligible[r] /\ ~less
              /\ ties' = IF load[w] = minimum THEN ties \union {w} ELSE ties
              /\ UNCHANGED minimum
        /\ UNCHANGED <<config, permits, closed, healthy, position, overtaken, lock, pc,
                       outcome, eligible, leases>>

\* Mutant: the chosen worker keeps its place.
MoveBehind_Stays(v) == UNCHANGED position

\* ordinals[position..worker_count].rotate_left(1)
MoveBehind(v) ==
    position' = [w \in Workers |->
        CASE w = v -> Count
          [] position[w] > position[v] -> position[w] - 1
          [] OTHER -> position[w]]

\* The choice and the reservation.
Reserve(r) ==
    LET candidates == IF config.strategy = "RoundRobin" THEN eligible[r] ELSE ties
    IN  /\ pc[r] = "choosing"
        /\ config.strategy = "LeastRequests" => next[r] > Count
        /\ \E v \in candidates :
              /\ \A w \in candidates : position[v] <= position[w]
              /\ MoveBehind(v)
              /\ overtaken' = [p \in Workers |-> [q \in Workers |->
                     CASE q = v -> 0
                       [] p = v /\ q \in candidates \ {v} -> overtaken[p][q] + 1
                       [] OTHER -> overtaken[p][q]]]
              /\ IF IsSession(r) /\ session[v] = 0
                 THEN Ending(r, "internal") /\ UNCHANGED <<session, load, leases>>
                 ELSE Lease(r, v) /\ UNCHANGED outcome
        /\ lock' = None /\ ForgetScan(r)
        /\ minimum' = 0 /\ ties' = {}
        /\ UNCHANGED <<config, global, class, closed, healthy>>

-----------------------------------------------------------------------------
(* The end of a request, probes and draining.                              *)

\* The response is complete, fails or its client is gone.
Finish(r) ==
    /\ pc[r] = "relaying"
    /\ Ending(r, "relayed")
    /\ UNCHANGED <<config, permits, closed, healthy, chooser, lock, scans, leases>>

\* Mutant: the load is given back with weight 1.
Drop_One(r, part) ==
    /\ held' = [held EXCEPT ![r] = @ \ {part}]
    /\ global' = IF part = "envelope" THEN global + 1 ELSE global
    /\ class' = IF part = "class" THEN [class EXCEPT ![ClassOf[r]] = @ + CreditsOf[r]]
                ELSE class
    /\ session' = IF part = "session" THEN [session EXCEPT ![worker[r]] = @ + 1] ELSE session
    /\ load' = IF part = "load" THEN [load EXCEPT ![worker[r]] = @ - 1] ELSE load

\* A field of the lease is dropped.
Drop(r, part) ==
    /\ held' = [held EXCEPT ![r] = @ \ {part}]
    /\ global' = IF part = "envelope" THEN global + 1 ELSE global
    /\ class' = IF part = "class" THEN [class EXCEPT ![ClassOf[r]] = @ + CreditsOf[r]]
                ELSE class
    /\ session' = IF part = "session" THEN [session EXCEPT ![worker[r]] = @ + 1] ELSE session
    /\ load' = IF part = "load" THEN [load EXCEPT ![worker[r]] = @ - Weight(r)] ELSE load

\* The fields go one by one, in the order of their declaration.
DropNext(r) ==
    /\ pc[r] = "ending"
    /\ \/ "class" \in held[r] /\ Drop(r, "class")
       \/ "class" \notin held[r] /\ "envelope" \in held[r] /\ Drop(r, "envelope")
       \/ held[r] \subseteq {"session", "load"} /\ "session" \in held[r] /\ Drop(r, "session")
       \/ held[r] = {"load"} /\ Drop(r, "load")
    /\ worker' = [worker EXCEPT ![r] = IF held[r] = {"load"} THEN 0 ELSE @]
    /\ UNCHANGED <<config, closed, healthy, chooser, lock, pc, outcome, scans>>

\* run_worker_health: a probe changes the health of w.  When it does is up to
\* the answers of the worker and ProbeTracker::observe.
Probe(w) ==
    /\ healthy' = IF w \in healthy THEN healthy \ {w} ELSE healthy \union {w}
    /\ UNCHANGED <<config, permits, closed, chooser, lock, pc, outcome, scans, leases>>

\* WorkerPool::drain
Drain ==
    /\ closed = "open"
    /\ closed' = "closed"
    /\ UNCHANGED <<config, permits, healthy, chooser, lock, pc, outcome, scans, leases>>

Next ==
    \/ \E r \in Requests :
          \/ AdmitEnvelope(r) \/ AdmitClass(r) \/ OwnerChecks(r) \/ OwnerReserves(r)
          \/ BeginScan(r) \/ Scan(r) \/ EndScan(r) \/ ReadLoad(r) \/ Reserve(r)
          \/ Finish(r) \/ DropNext(r)
    \/ \E w \in Workers : Probe(w)
    \/ Drain

Spec == Init /\ [][Next]_vars

-----------------------------------------------------------------------------
Holding(part) == {r \in Requests : part \in held[r]}

\* Every permit and every unit of load is accounted to a lease that is not
\* dropped yet, on each exit of a request, with nothing taken or given back
\* twice: refused admission, failed dispatch, relayed response (the Drop
\* implementations; decrement_load's "worker load cannot underflow").
PermitsExact ==
    /\ global = GlobalLimit - Cardinality(Holding("envelope"))
    /\ \A c \in Classes : class[c] = config.limits[c] -
           MapThenSumSet(LAMBDA r : CreditsOf[r], {r \in Holding("class") : ClassOf[r] = c})
    /\ \A w \in Workers :
           /\ session[w] = SessionLimit[w] -
                  Cardinality({r \in Holding("session") : worker[r] = w})
           /\ load[w] = MapThenSumSet(Weight, {r \in Holding("load") : worker[r] = w})

\* dispatch_session never fails with "router dispatch invariant failed": a
\* worker that had a session permit when it was found eligible still has one
\* when it is chosen, although leases of other requests come and go, because
\* permits are only taken under the selector's lock.
NeverInternal == \A r \in Requests : outcome[r] # "internal"

\* No worker is preferred twice to another candidate that was not chosen in
\* between, however the sets of candidates change from request to request
\* (SelectorGuard::select, whose comment rules out "sharing a modulo phase").
NotPassedTwice == \A v, w \in Workers : overtaken[v][w] <= 1
=============================================================================
