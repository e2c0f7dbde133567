-------------------------- MODULE WorkerPoolProofs --------------------------
(***************************************************************************)
(* For any requests, any number of workers and any limits: a session that  *)
(* has chosen a worker finds its permit, and no worker is passed over      *)
(* twice.  The first rests on who holds the selector's lock, the second on *)
(* the order of the workers.                                               *)
(***************************************************************************)
EXTENDS WorkerPool, TLAPS

Places == {"new", "enveloped", "admitted", "owned", "scanning", "choosing",
           "relaying", "ending"}

Outcomes == {"none", "refused", "relayed"}

Types ==
    /\ pc \in [Requests -> Places]
    /\ outcome \in [Requests -> Outcomes]
    /\ session \in [Workers -> Nat]
    /\ eligible \in [Requests -> SUBSET Workers]
    /\ next \in [Requests -> Nat \ {0}]
    /\ lock \in Requests \union {None}

\* A request that chooses, and a session already while it scans, has the lock.
Locked(r) ==
    /\ pc[r] = "choosing" => lock = r /\ ties \subseteq eligible[r]
    /\ pc[r] = "scanning" /\ IsSession(r) => lock = r

\* The workers that a session has found still have a permit.
Room(r) ==
    /\ pc[r] \in {"new", "enveloped", "admitted"} => eligible[r] = {}
    /\ pc[r] \in {"scanning", "choosing"} /\ IsSession(r) =>
           \A w \in eligible[r] : session[w] # 0

\* What select_least_requests has found belongs to who has the lock.
TiesOwned == ties # {} => \E r \in Requests : lock = r /\ pc[r] = "choosing"

LockInv ==
    /\ Types
    /\ \A r \in Requests : Locked(r) /\ Room(r)
    /\ TiesOwned

\* A worker that was preferred to w since w was chosen last is behind w.
Turn ==
    /\ position \in [Workers -> Workers]
    /\ \A v, w \in Workers : position[v] = position[w] => v = w
    /\ overtaken \in [Workers -> [Workers -> {0, 1}]]
    /\ \A v, w \in Workers : overtaken[v][w] = 1 => position[w] < position[v]

\* WorkerPool::build: nobody has the lock, nothing is found.
LEMMA LockInit == Init => LockInv
<1> SUFFICES ASSUME Init PROVE LockInv
  OBVIOUS
<1> USE PoolAssumption DEF Init
<1>1. Types
  BY DEF Types, Places, Outcomes, Workers
<1> QED
  BY <1>1 DEF LockInv, Locked, Room, TiesOwned

\* What another request does to q: nothing, if q has the lock and permits are
\* only given back; and q needs nothing if it has not.
LEMMA Others ==
  ASSUME LockInv, NEW q \in Requests,
         pc'[q] = pc[q], eligible'[q] = eligible[q],
         \/ lock # q
         \/ /\ UNCHANGED <<lock, ties>>
            /\ \A w \in Workers : session[w] # 0 => session'[w] # 0
  PROVE  Locked(q)' /\ Room(q)'
<1>1. Locked(q) /\ Room(q) /\ eligible[q] \subseteq Workers
  BY DEF LockInv, Types
<1> QED
  BY <1>1 DEF Locked, Room, IsSession

\* r moves between places where it needs no lock, and takes a permit at most
\* when nobody has the lock.
LEMMA Moves ==
  ASSUME NEW r \in Requests, LockInv,
         pc[r] \notin {"scanning", "choosing"},
         NEW p \in Places \ {"scanning", "choosing"}, pc' = [pc EXCEPT ![r] = p],
         outcome' \in [Requests -> Outcomes],
         NEW E \in SUBSET Workers, eligible' = [eligible EXCEPT ![r] = E],
         p \in {"new", "enveloped", "admitted"} => E = {},
         next' \in [Requests -> Nat \ {0}],
         session' \in [Workers -> Nat],
         UNCHANGED <<lock, ties>>,
         lock # None => \A w \in Workers : session[w] # 0 => session'[w] # 0
  PROVE  LockInv'
<1>1. Types'
  BY DEF LockInv, Types
<1>2. ASSUME NEW q \in Requests PROVE Locked(q)' /\ Room(q)'
  <2>1. CASE q = r
    BY <2>1 DEF LockInv, Types, Locked, Room, IsSession
  <2>2. CASE q # r
    <3>1. pc'[q] = pc[q] /\ eligible'[q] = eligible[q]
      BY <2>2 DEF LockInv, Types
    <3> QED
      BY <3>1, Others, PoolAssumption
  <2> QED
    BY <2>1, <2>2
<1>3. TiesOwned'
  <2> SUFFICES ASSUME ties # {} PROVE \E q \in Requests : lock = q /\ pc'[q] = "choosing"
    BY DEF TiesOwned
  <2>1. PICK q \in Requests : lock = q /\ pc[q] = "choosing"
    BY DEF LockInv, TiesOwned
  <2> QED
    BY <2>1 DEF LockInv, Types
<1> QED
  BY <1>1, <1>2, <1>3 DEF LockInv

\* try_admit_envelope and try_admit_class.
LEMMA AdmissionLock ==
  ASSUME LockInv, NEW r \in Requests, AdmitEnvelope(r) \/ AdmitClass(r)
  PROVE  LockInv'
<1>1. /\ pc[r] \in {"new", "enveloped"}
      /\ UNCHANGED <<lock, ties, session, eligible, next>>
      /\ eligible[r] = {}
  BY DEF AdmitEnvelope, AdmitClass, chooser, scans, LockInv, Room
<1>2. PICK p \in {"enveloped", "admitted", "ending"} : pc' = [pc EXCEPT ![r] = p]
  BY DEF AdmitEnvelope, AdmitClass, Ending, To
<1>3. outcome' \in [Requests -> Outcomes]
  BY DEF AdmitEnvelope, AdmitClass, Ending, LockInv, Types, Outcomes
<1>4. eligible' = [eligible EXCEPT ![r] = {}]
  BY <1>1 DEF LockInv, Types
<1>5. next' \in [Requests -> Nat \ {0}] /\ session' \in [Workers -> Nat]
  BY <1>1 DEF LockInv, Types
<1>6. p \in Places \ {"scanning", "choosing"} /\ {} \in SUBSET Workers
  BY DEF Places
<1> QED
  BY <1>1, <1>2, <1>3, <1>4, <1>5, <1>6, Moves

\* uploaded_voice_owner and its callers.
LEMMA OwnerChecksLock ==
  ASSUME LockInv, NEW r \in Requests, OwnerChecks(r)
  PROVE  LockInv'
<1>1. /\ pc[r] = "admitted"
      /\ UNCHANGED <<lock, ties, session, next>>
  BY DEF OwnerChecks, chooser, permits
<1>2. PICK E \in SUBSET Workers : eligible' = [eligible EXCEPT ![r] = E]
  <2>1. CASE UNCHANGED eligible
    BY <2>1 DEF LockInv, Types
  <2>2. CASE \E w \in Matches[r] : eligible' = [eligible EXCEPT ![r] = {w}]
    <3>1. PICK w \in Matches[r] : eligible' = [eligible EXCEPT ![r] = {w}]
      BY <2>2
    <3>2. Matches[r] \subseteq Workers
      BY PoolAssumption
    <3>3. {w} \in SUBSET Workers
      BY <3>2
    <3> QED
      BY <3>1, <3>3
  <2> QED
    BY <2>1, <2>2 DEF OwnerChecks
<1>3. PICK p \in {"owned", "ending"} : pc' = [pc EXCEPT ![r] = p]
  BY DEF OwnerChecks, Ending, To
<1>4. outcome' \in [Requests -> Outcomes]
  BY DEF OwnerChecks, Ending, LockInv, Types, Outcomes
<1>5. next' \in [Requests -> Nat \ {0}] /\ session' \in [Workers -> Nat]
  BY <1>1 DEF LockInv, Types
<1>6. p \in Places \ {"scanning", "choosing"}
  BY DEF Places
<1> QED
  BY <1>1, <1>2, <1>3, <1>4, <1>5, <1>6, Moves

\* The owner's permit is taken while nobody has the lock.
LEMMA OwnerReservesLock ==
  ASSUME LockInv, NEW r \in Requests, OwnerReserves(r)
  PROVE  LockInv'
<1>1. /\ pc[r] = "owned" /\ lock = None
      /\ UNCHANGED <<lock, ties>>
      /\ eligible' = [eligible EXCEPT ![r] = {}]
      /\ next' = [next EXCEPT ![r] = 1]
  BY DEF OwnerReserves, ForgetScan, chooser
<1>2. PICK w \in eligible[r] :
          IF IsSession(r) /\ session[w] = 0
          THEN Ending(r, "refused") /\ UNCHANGED <<session, load, leases>>
          ELSE Lease(r, w) /\ UNCHANGED outcome
  BY DEF OwnerReserves
<1>3. session' \in [Workers -> Nat]
  <2>1. w \in Workers /\ session \in [Workers -> Nat]
    BY DEF LockInv, Types
  <2>2. CASE IsSession(r) /\ session[w] = 0
    BY <1>2, <2>1, <2>2
  <2>3. CASE ~(IsSession(r) /\ session[w] = 0)
    BY <1>2, <2>1, <2>3 DEF Lease
  <2> QED
    BY <2>2, <2>3
<1>4. PICK p \in {"relaying", "ending"} : pc' = [pc EXCEPT ![r] = p]
  BY <1>2 DEF Ending, Lease, To
<1>5. outcome' \in [Requests -> Outcomes]
  BY <1>2 DEF Ending, LockInv, Types, Outcomes
<1>6. next' \in [Requests -> Nat \ {0}]
  BY <1>1 DEF LockInv, Types
<1>7. p \in Places \ {"scanning", "choosing"} /\ {} \in SUBSET Workers
  BY DEF Places
<1> QED
  BY <1>1, <1>3, <1>4, <1>5, <1>6, <1>7, Moves

\* A session's request takes the lock before it looks at any worker.
LEMMA BeginScanLock ==
  ASSUME LockInv, NEW r \in Requests, BeginScan(r)
  PROVE  LockInv'
<1>1. /\ pc[r] = "admitted" /\ eligible[r] = {}
      /\ UNCHANGED <<ties, session, next, eligible>>
  BY DEF BeginScan, chooser, permits, scans, LockInv, Room
<1>2. next' \in [Requests -> Nat \ {0}] /\ session' \in [Workers -> Nat]
  BY <1>1 DEF LockInv, Types
<1>3. CASE Ending(r, "refused") /\ UNCHANGED lock
  <2>1. /\ pc' = [pc EXCEPT ![r] = "ending"]
        /\ outcome' \in [Requests -> Outcomes]
        /\ eligible' = [eligible EXCEPT ![r] = {}]
    BY <1>1, <1>3 DEF Ending, To, LockInv, Types, Outcomes
  <2>2. "ending" \in Places \ {"scanning", "choosing"} /\ {} \in SUBSET Workers
    BY DEF Places
  <2> QED
    BY <1>1, <1>2, <1>3, <2>1, <2>2, Moves
<1>4. CASE /\ To(r, "scanning") /\ UNCHANGED outcome
           /\ \/ ~IsSession(r) /\ UNCHANGED lock
              \/ IsSession(r) /\ lock = None /\ lock' = r
  <2>1. Types'
    BY <1>1, <1>4 DEF To, LockInv, Types, Places
  <2>2. ASSUME NEW q \in Requests PROVE Locked(q)' /\ Room(q)'
    <3>1. CASE q = r
      BY <1>1, <1>4, <3>1 DEF To, LockInv, Types, Locked, Room, IsSession
    <3>2. CASE q # r
      <4>1. pc'[q] = pc[q] /\ eligible'[q] = eligible[q]
        BY <1>1, <1>4, <3>2 DEF To, LockInv, Types
      <4>2. lock # q \/ UNCHANGED lock
        BY <1>4, PoolAssumption
      <4> QED
        BY <1>1, <4>1, <4>2, Others
    <3> QED
      BY <3>1, <3>2
  <2>3. TiesOwned'
    <3> SUFFICES ASSUME ties # {}
                 PROVE \E q \in Requests : lock' = q /\ pc'[q] = "choosing"
      BY <1>1 DEF TiesOwned
    <3>1. PICK q \in Requests : lock = q /\ pc[q] = "choosing"
      BY DEF LockInv, TiesOwned
    <3> QED
      BY <1>1, <1>4, <3>1, PoolAssumption DEF To, LockInv, Types
  <2> QED
    BY <2>1, <2>2, <2>3 DEF LockInv
<1> QED
  BY <1>3, <1>4 DEF BeginScan

\* One turn of the loop over the records: a worker without a permit is not found.
LEMMA ScanLock ==
  ASSUME LockInv, NEW r \in Requests, Scan(r)
  PROVE  LockInv'
<1>1. /\ pc[r] = "scanning"
      /\ UNCHANGED <<ties, session, lock, pc, outcome>>
      /\ next' = [next EXCEPT ![r] = next[r] + 1]
      /\ \/ UNCHANGED eligible
         \/ /\ eligible' = [eligible EXCEPT ![r] = eligible[r] \union {next[r]}]
            /\ next[r] \in Matches[r]
            /\ IsSession(r) => session[next[r]] # 0
  BY DEF Scan, chooser, permits, LockInv, Types
<1>2. Matches[r] \subseteq Workers
  BY PoolAssumption
<1>3. Types'
  <2>1. next' \in [Requests -> Nat \ {0}]
    BY <1>1 DEF LockInv, Types
  <2>2. eligible' \in [Requests -> SUBSET Workers]
    BY <1>1, <1>2 DEF LockInv, Types
  <2> QED
    BY <1>1, <2>1, <2>2 DEF LockInv, Types
<1>4. ASSUME NEW q \in Requests PROVE Locked(q)' /\ Room(q)'
  <2>1. CASE q = r
    BY <1>1, <2>1 DEF LockInv, Types, Locked, Room, IsSession
  <2>2. CASE q # r
    <3>1. pc'[q] = pc[q] /\ eligible'[q] = eligible[q]
      BY <1>1, <2>2 DEF LockInv, Types
    <3> QED
      BY <1>1, <3>1, Others
  <2> QED
    BY <2>1, <2>2
<1>5. TiesOwned'
  BY <1>1 DEF LockInv, TiesOwned
<1> QED
  BY <1>3, <1>4, <1>5 DEF LockInv

\* The end of the loop: the lock is given up, or taken, or kept.
LEMMA EndScanLock ==
  ASSUME LockInv, NEW r \in Requests, EndScan(r)
  PROVE  LockInv'
<1>1. /\ pc[r] = "scanning"
      /\ UNCHANGED <<ties, session>>
      /\ next' = [next EXCEPT ![r] = 1]
  BY DEF EndScan, ForgetScan, chooser, permits
<1>2. ties # {} => lock # r /\ lock # None
  BY <1>1, PoolAssumption DEF LockInv, TiesOwned
<1>3. CASE /\ Ending(r, "refused") /\ ForgetScan(r)
           /\ lock' = IF lock = r THEN None ELSE lock
  <2>1. Types'
    BY <1>1, <1>3 DEF Ending, To, ForgetScan, LockInv, Types, Places, Outcomes
  <2>2. ASSUME NEW q \in Requests PROVE Locked(q)' /\ Room(q)'
    <3>1. CASE q = r
      BY <1>3, <3>1 DEF Ending, To, LockInv, Types, Locked, Room
    <3>2. CASE q # r
      <4>1. pc'[q] = pc[q] /\ eligible'[q] = eligible[q]
        BY <1>3, <3>2 DEF Ending, To, ForgetScan, LockInv, Types
      <4>2. lock # q \/ UNCHANGED lock
        BY <1>3, <3>2
      <4> QED
        BY <1>1, <4>1, <4>2, Others
    <3> QED
      BY <3>1, <3>2
  <2>3. TiesOwned'
    <3> SUFFICES ASSUME ties # {}
                 PROVE \E q \in Requests : lock' = q /\ pc'[q] = "choosing"
      BY <1>1 DEF TiesOwned
    <3>1. PICK q \in Requests : lock = q /\ pc[q] = "choosing"
      BY DEF LockInv, TiesOwned
    <3> QED
      BY <1>1, <1>2, <1>3, <3>1 DEF Ending, To, LockInv, Types
  <2> QED
    BY <2>1, <2>2, <2>3 DEF LockInv
<1>4. CASE /\ lock = IF IsSession(r) THEN r ELSE None
           /\ lock' = r
           /\ To(r, "choosing") /\ UNCHANGED <<eligible, outcome>>
  <2>1. Types'
    BY <1>1, <1>4 DEF To, LockInv, Types, Places
  <2>2. ties = {}
    BY <1>2, <1>4
  <2>3. ASSUME NEW q \in Requests PROVE Locked(q)' /\ Room(q)'
    <3>1. CASE q = r
      BY <1>1, <1>4, <2>2, <3>1 DEF To, LockInv, Types, Locked, Room, IsSession
    <3>2. CASE q # r
      <4>1. pc'[q] = pc[q] /\ eligible'[q] = eligible[q]
        BY <1>4, <3>2 DEF To, LockInv, Types
      <4>2. lock # q
        BY <1>4, <3>2, PoolAssumption
      <4> QED
        BY <4>1, <4>2, Others
    <3> QED
      BY <3>1, <3>2
  <2> QED
    BY <1>1, <2>1, <2>2, <2>3 DEF LockInv, TiesOwned
<1> QED
  BY <1>3, <1>4 DEF EndScan

\* One turn of the loop of select_least_requests, by who has the lock.
LEMMA ReadLoadLock ==
  ASSUME LockInv, NEW r \in Requests, ReadLoad(r)
  PROVE  LockInv'
<1>1. /\ pc[r] = "choosing"
      /\ UNCHANGED <<session, lock, pc, outcome, eligible>>
      /\ next' = [next EXCEPT ![r] = next[r] + 1]
      /\ \/ UNCHANGED ties
         \/ /\ next[r] \in eligible[r]
            /\ ties' = {next[r]} \/ ties' = ties \union {next[r]}
  BY DEF ReadLoad, permits
<1>2. lock = r /\ ties \subseteq eligible[r]
  BY <1>1 DEF LockInv, Locked
<1>3. Types'
  BY <1>1 DEF LockInv, Types
<1>4. ASSUME NEW q \in Requests PROVE Locked(q)' /\ Room(q)'
  <2>1. CASE q = r
    <3>1. ties' \subseteq eligible[r]
      BY <1>1, <1>2
    <3> QED
      BY <1>1, <1>2, <2>1, <3>1 DEF LockInv, Locked, Room
  <2>2. CASE q # r
    BY <1>1, <1>2, <2>2, Others
  <2> QED
    BY <2>1, <2>2
<1>5. TiesOwned'
  BY <1>1, <1>2 DEF TiesOwned
<1> QED
  BY <1>3, <1>4, <1>5 DEF LockInv

\* The choice is among workers that have a permit, so one can be taken.
LEMMA ReserveLock ==
  ASSUME LockInv, NEW r \in Requests, Reserve(r)
  PROVE  LockInv'
<1>1. /\ pc[r] = "choosing" /\ lock = r /\ ties \subseteq eligible[r]
      /\ lock' = None /\ ties' = {}
      /\ eligible' = [eligible EXCEPT ![r] = {}]
      /\ next' = [next EXCEPT ![r] = 1]
  BY DEF Reserve, ForgetScan, LockInv, Locked
<1>2. PICK v \in eligible[r] :
          IF IsSession(r) /\ session[v] = 0
          THEN Ending(r, "internal") /\ UNCHANGED <<session, load, leases>>
          ELSE Lease(r, v) /\ UNCHANGED outcome
  BY <1>1 DEF Reserve
<1>3. v \in Workers /\ session \in [Workers -> Nat]
  BY DEF LockInv, Types
<1>4. IsSession(r) => session[v] # 0
  BY <1>1 DEF LockInv, Room
<1>5. Lease(r, v) /\ UNCHANGED outcome
  BY <1>2, <1>4
<1>6. session' \in [Workers -> Nat]
  BY <1>3, <1>4, <1>5 DEF Lease
<1>7. pc' = [pc EXCEPT ![r] = "relaying"]
  BY <1>5 DEF Lease, To
<1>8. Types'
  BY <1>1, <1>5, <1>6, <1>7 DEF LockInv, Types, Places
<1>9. ASSUME NEW q \in Requests PROVE Locked(q)' /\ Room(q)'
  <2>1. CASE q = r
    BY <1>7, <2>1 DEF LockInv, Types, Locked, Room
  <2>2. CASE q # r
    <3>1. pc'[q] = pc[q] /\ eligible'[q] = eligible[q]
      BY <1>1, <1>7, <2>2 DEF LockInv, Types
    <3> QED
      BY <1>1, <2>2, <3>1, Others
  <2> QED
    BY <2>1, <2>2
<1> QED
  BY <1>1, <1>8, <1>9 DEF LockInv, TiesOwned

\* The end of a request only gives permits back.
LEMMA EndLock ==
  ASSUME LockInv, NEW r \in Requests, Finish(r) \/ DropNext(r)
  PROVE  LockInv'
<1>1. /\ pc[r] \in {"relaying", "ending"}
      /\ pc' = [pc EXCEPT ![r] = "ending"]
      /\ UNCHANGED <<lock, ties, eligible, next>>
  BY DEF Finish, DropNext, Ending, To, scans, chooser, LockInv, Types
<1>2. outcome' \in [Requests -> Outcomes]
  BY DEF Finish, DropNext, Ending, LockInv, Types, Outcomes
<1>3. \/ UNCHANGED session
      \/ session' = [session EXCEPT ![worker[r]] = @ + 1]
  BY DEF Finish, DropNext, Drop, permits
<1>4. /\ session' \in [Workers -> Nat]
      /\ \A w \in Workers : session[w] # 0 => session'[w] # 0
  BY <1>3 DEF LockInv, Types
<1>5. eligible' = [eligible EXCEPT ![r] = eligible[r]] /\ eligible[r] \in SUBSET Workers
  BY <1>1 DEF LockInv, Types
<1>6. "ending" \in Places \ {"scanning", "choosing"} /\ next' \in [Requests -> Nat \ {0}]
  BY <1>1 DEF Places, LockInv, Types
<1> QED
  BY <1>1, <1>2, <1>4, <1>5, <1>6, Moves

\* Every step keeps the invariant about the lock.
LEMMA LockStep == LockInv /\ [Next]_vars => LockInv'
<1> SUFFICES ASSUME LockInv, [Next]_vars PROVE LockInv'
  OBVIOUS
<1>1. CASE UNCHANGED <<pc, outcome, session, eligible, next, lock, ties>>
  BY <1>1 DEF LockInv, Types, Locked, Room, TiesOwned, IsSession
<1>2. CASE (\E w \in Workers : Probe(w)) \/ Drain \/ UNCHANGED vars
  BY <1>1, <1>2 DEF Probe, Drain, vars, permits, chooser, scans
<1> QED
  BY <1>2, AdmissionLock, OwnerChecksLock, OwnerReservesLock, BeginScanLock, ScanLock,
     EndScanLock, ReadLoadLock, ReserveLock, EndLock DEF Next

\* The chosen worker goes behind all others, whose order stays.
LEMMA MovedBehind ==
  ASSUME Turn, NEW v \in Workers, MoveBehind(v)
  PROVE  /\ position' \in [Workers -> Workers]
         /\ \A w \in Workers \ {v} : position'[w] < position'[v]
         /\ \A u, w \in Workers \ {v} :
               position'[u] < position'[w] <=> position[u] < position[w]
         /\ \A u, w \in Workers : position'[u] = position'[w] => u = w
<1> USE DEF Workers
<1>1. Count \in Nat /\ position \in [Workers -> Workers]
      /\ \A u, w \in Workers : position[u] = position[w] => u = w
  BY PoolAssumption DEF Turn
<1>2. ASSUME NEW w \in Workers \ {v}
      PROVE  /\ position[w] # position[v]
             /\ position'[w] = IF position[w] > position[v] THEN position[w] - 1
                               ELSE position[w]
             /\ position'[w] \in 1..Count - 1
  BY <1>1 DEF MoveBehind
<1>3. position'[v] = Count /\ Count \in Workers
  BY <1>1 DEF MoveBehind
<1>4. position' \in [Workers -> Workers]
  <2>1. ASSUME NEW w \in Workers PROVE position'[w] \in Workers
    <3>1. CASE w = v
      BY <1>3, <3>1
    <3>2. CASE w # v
      <4>1. position'[w] \in 1..Count - 1
        BY <1>2, <3>2
      <4>2. Count \in Nat
        BY PoolAssumption
      <4> QED
        BY <4>1, <4>2
    <3> QED
      BY <3>1, <3>2
  <2> QED
    BY <2>1 DEF MoveBehind
<1>5. ASSUME NEW w \in Workers \ {v} PROVE position'[w] < position'[v]
  <2>1. position'[w] \in 1..Count - 1
    BY <1>2
  <2>2. Count \in Nat
    BY PoolAssumption
  <2> QED
    BY <1>3, <2>1, <2>2
<1>6. ASSUME NEW u \in Workers \ {v}, NEW w \in Workers \ {v}
      PROVE  /\ position'[u] < position'[w] <=> position[u] < position[w]
             /\ position'[u] = position'[w] => u = w
  <2>1. position[u] \in Int /\ position[w] \in Int /\ position[v] \in Int
    BY <1>1
  <2>2. /\ position[u] # position[v]
        /\ position'[u] = IF position[u] > position[v] THEN position[u] - 1
                          ELSE position[u]
    BY <1>2
  <2>3. /\ position[w] # position[v]
        /\ position'[w] = IF position[w] > position[v] THEN position[w] - 1
                          ELSE position[w]
    BY <1>2
  <2>4. position[u] = position[w] => u = w
    BY <1>1
  <2> HIDE DEF Workers
  <2> QED
    BY <2>1, <2>2, <2>3, <2>4
<1>7. \A u, w \in Workers : position'[u] = position'[w] => u = w
  <2> SUFFICES ASSUME NEW u \in Workers, NEW w \in Workers, position'[u] = position'[w]
               PROVE u = w
    OBVIOUS
  <2>1. \A x \in Workers : position'[x] \in Int
    BY <1>4
  <2> QED
    BY <1>5, <1>6, <2>1
<1> QED
  BY <1>4, <1>5, <1>6, <1>7

\* Only the choice moves workers, and it takes the candidate in front.
LEMMA TurnStep == LockInv /\ Turn /\ [Next]_vars => Turn'
<1> SUFFICES ASSUME LockInv, Turn, [Next]_vars PROVE Turn'
  OBVIOUS
<1>1. CASE UNCHANGED <<position, overtaken>>
  BY <1>1 DEF Turn
<1>2. ASSUME NEW r \in Requests, Reserve(r) PROVE Turn'
  <2> DEFINE candidates == IF config.strategy = "RoundRobin" THEN eligible[r] ELSE ties
  <2>1. candidates \subseteq Workers
    BY <1>2 DEF Reserve, LockInv, Types, Locked
  <2>2. PICK v \in candidates :
          /\ \A w \in candidates : position[v] <= position[w]
          /\ MoveBehind(v)
          /\ overtaken' = [p \in Workers |-> [q \in Workers |->
                 CASE q = v -> 0
                   [] p = v /\ q \in candidates \ {v} -> overtaken[p][q] + 1
                   [] OTHER -> overtaken[p][q]]]
    BY <1>2 DEF Reserve
  <2> HIDE DEF candidates
  <2>3. v \in Workers
    BY <2>1
  <2>4. /\ position' \in [Workers -> Workers]
        /\ \A w \in Workers \ {v} : position'[w] < position'[v]
        /\ \A u, w \in Workers \ {v} :
              position'[u] < position'[w] <=> position[u] < position[w]
        /\ \A u, w \in Workers : position'[u] = position'[w] => u = w
    BY <2>2, <2>3, MovedBehind
  <2>5. ASSUME NEW p \in Workers, NEW q \in Workers
        PROVE  /\ overtaken'[p][q] \in {0, 1}
               /\ overtaken'[p][q] = 1 => position'[q] < position'[p]
    <3>1. overtaken[p][q] \in {0, 1} /\ (overtaken[p][q] = 1 => position[q] < position[p])
      BY DEF Turn
    <3>2. position[p] \in Int /\ position[q] \in Int
      BY DEF Turn, Workers
    <3>3. CASE q = v
      <4>1. overtaken'[p][q] = 0
        BY <2>2, <3>3
      <4> QED
        BY <3>3, <4>1
    <3>4. CASE q # v /\ p = v /\ q \in candidates
      <4>1. overtaken'[p][q] = overtaken[p][q] + 1
        BY <2>2, <3>4
      <4>2. overtaken[p][q] = 0
        BY <2>2, <3>1, <3>2, <3>4
      <4> QED
        BY <2>4, <3>4, <4>1, <4>2
    <3>5. CASE q # v /\ ~(p = v /\ q \in candidates)
      <4>1. overtaken'[p][q] = overtaken[p][q]
        BY <2>2, <3>5
      <4> QED
        BY <2>4, <3>1, <3>5, <4>1
    <3> QED
      BY <3>3, <3>4, <3>5
  <2>6. overtaken' \in [Workers -> [Workers -> {0, 1}]]
    BY <2>2, <2>5
  <2> QED
    BY <2>4, <2>5, <2>6 DEF Turn
<1>3. CASE ~\E r \in Requests : Reserve(r)
  <2>1. UNCHANGED <<position, overtaken>>
    BY <1>3 DEF Next, vars, chooser, AdmitEnvelope, AdmitClass, OwnerChecks, OwnerReserves,
       BeginScan, Scan, EndScan, ReadLoad, Finish, DropNext, Probe, Drain
  <2> QED
    BY <1>1, <2>1
<1> QED
  BY <1>2, <1>3

\* WorkerPool::build puts the workers in the order of registration.
LEMMA TurnInit == Init => Turn
  BY DEF Init, Turn, Workers

\* Both invariants hold in every reachable state of the pool.
LEMMA PoolInvariant == Spec => [](LockInv /\ Turn)
<1>1. Init => LockInv /\ Turn
  BY LockInit, TurnInit
<1>2. LockInv /\ Turn /\ [Next]_vars => (LockInv /\ Turn)'
  BY LockStep, TurnStep
<1> QED
  BY <1>1, <1>2, PTL DEF Spec

\* dispatch_session never fails with "router dispatch invariant failed".
THEOREM PermitKept == Spec => []NeverInternal
<1>1. LockInv => NeverInternal
  BY DEF LockInv, Types, Outcomes, NeverInternal
<1> QED
  BY <1>1, PoolInvariant, PTL

\* SelectorGuard::select prefers no worker twice to one that waits.
THEOREM EachHasItsTurn == Spec => []NotPassedTwice
<1>1. Turn => NotPassedTwice
  BY DEF Turn, NotPassedTwice
<1> QED
  BY <1>1, PoolInvariant, PTL
=============================================================================
