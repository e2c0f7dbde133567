-------------------------- MODULE ReferenceEncoder --------------------------
(***************************************************************************)
(* ReferenceEncodeService (scheduling/reference_encoder.py): threads ask   *)
(* for the artifact of a reference file.  The first one to miss the cache  *)
(* for a key leads the encode, others follow its future; leaders of        *)
(* different keys may be batched by a worker thread.  The key is the hash  *)
(* of the file's content, and the file may change at any time: a content   *)
(* is a number that only grows, and the artifact of content v is v.        *)
(***************************************************************************)
EXTENDS StageCache

CONSTANTS
    Calls,     \* the calls of get_or_encode, each by a thread of its own
    Paths,     \* the reference files
    BatchSizes,\* what max_batch_size may be; 1: no batch worker
    Closes,    \* {"close"} if the service may be closed
    None,
    Failed,    \* the outcome of an encode that raised
    Stopper    \* the None that close puts into batch_queue

VARIABLES
    disk,      \* the content of each file
    pc,        \* where each call is: "start", "keyed", "leads", "waits" (for the
               \* worker), "follows", "encoded", "checked" or "unchecked" (by
               \* revalidate), "failing", "resolves", "done"
    path,      \* the file it asks for
    key,       \* the content it found when it computed its key, or None
    whom,      \* the leader whose future it follows, or None
    art,       \* the artifact it has, Failed, or None
    fut,       \* the future of each leader: None, Failed or an artifact
    inflight,  \* the in-flight table: the leader of each key, or None
    max_batch_size, \* the service's setting, one of BatchSizes
    batchFut,  \* the future each leader put into the queue
    queue,     \* batch_queue
    batch,     \* what the worker has drained
    worker     \* "idle", "encoding", "stopping" or "stopped"

calls == <<pc, path, key, whom, art>>
batching == <<max_batch_size, batchFut, queue, batch, worker>>
vars == <<disk, calls, fut, inflight, batching, cacheVars>>

Init ==
    /\ disk = [p \in Paths |-> 1]
    /\ pc = [c \in Calls |-> "start"]
    /\ path = [c \in Calls |-> None]
    /\ key = [c \in Calls |-> None]
    /\ whom = [c \in Calls |-> None]
    /\ art = [c \in Calls |-> None]
    /\ fut = [c \in Calls |-> None]
    /\ inflight = [k \in Keys |-> None]
    /\ max_batch_size \in BatchSizes
    /\ batchFut = [c \in Calls |-> None]
    /\ queue = <<>> /\ batch = <<>> /\ worker = "idle"
    /\ CacheInit

\* The file is replaced by one with another content.
FileChanges(p) ==
    /\ disk[p] + 1 \in Keys
    /\ disk' = [disk EXCEPT ![p] = @ + 1]
    /\ UNCHANGED <<calls, fut, inflight, batching, cacheVars>>

To(c, l) == pc' = [pc EXCEPT ![c] = l]

\* get_or_encode begins: the key is computed from the file.  A file that
\* cannot be hashed has none, and is encoded outside the cache.
ComputesKey(c, p) ==
    /\ pc[c] = "start"
    /\ path' = [path EXCEPT ![c] = p]
    /\ \/ key' = [key EXCEPT ![c] = disk[p]] /\ To(c, "keyed")
       \/ UNCHANGED key /\ To(c, "leads")
    /\ UNCHANGED <<disk, whom, art, fut, inflight, batching, cacheVars>>

\* The block under the lock: a hit, a follower or a new leader.
LooksUp(c) ==
    /\ pc[c] = "keyed"
    /\ \/ \E d \in Cached(key[c]) :
             /\ Get(key[c])
             /\ art' = [art EXCEPT ![c] = d]
             /\ To(c, "done")
             /\ UNCHANGED <<whom, inflight>>
       \/ /\ Cached(key[c]) = {} /\ inflight[key[c]] # None
          /\ whom' = [whom EXCEPT ![c] = inflight[key[c]]]
          /\ To(c, "follows")
          /\ UNCHANGED <<art, inflight, cacheVars>>
       \/ /\ Cached(key[c]) = {} /\ inflight[key[c]] = None
          /\ inflight' = [inflight EXCEPT ![key[c]] = c]
          /\ To(c, "leads")
          /\ UNCHANGED <<art, whom, cacheVars>>
    /\ UNCHANGED <<disk, path, key, fut, batching>>

\* A follower has its leader's outcome.
FollowerEnds(c) ==
    /\ pc[c] = "follows"
    /\ fut[whom[c]] # None
    /\ art' = [art EXCEPT ![c] = fut[whom[c]]]
    /\ To(c, "done")
    /\ UNCHANGED <<disk, path, key, whom, fut, inflight, batching, cacheVars>>

FollowerTimesOut(c) ==
    /\ pc[c] = "follows"
    /\ art' = [art EXCEPT ![c] = Failed]
    /\ To(c, "done")
    /\ UNCHANGED <<disk, path, key, whom, fut, inflight, batching, cacheVars>>

\* Where a leader goes once it has the outcome a of its encode.
Encoded(c, a) ==
    /\ art' = [art EXCEPT ![c] = a]
    /\ To(c, IF key[c] = None THEN "done"
             ELSE IF a = Failed THEN "failing" ELSE "encoded")

\* encode_leader without a worker: the file is read and encoded, or cannot be.
EncodesOne(c) ==
    /\ max_batch_size = 1
    /\ pc[c] = "leads"
    /\ \E a \in {disk[path[c]], Failed} : Encoded(c, a)
    /\ UNCHANGED <<disk, path, key, whom, fut, inflight, batching, cacheVars>>

\* encode_leader with a worker.
Enqueues(c) ==
    /\ max_batch_size > 1
    /\ pc[c] = "leads"
    /\ queue' = Append(queue, c)
    /\ To(c, "waits")
    /\ UNCHANGED <<disk, path, key, whom, art, fut, inflight, max_batch_size, batchFut, batch, worker,
                   cacheVars>>

LeaderWakes(c) ==
    /\ pc[c] = "waits"
    /\ batchFut[c] # None
    /\ Encoded(c, batchFut[c])
    /\ UNCHANGED <<disk, path, key, whom, fut, inflight, batching, cacheVars>>

LeaderTimesOut(c) ==
    /\ pc[c] = "waits"
    /\ batchFut[c] = None
    /\ Encoded(c, Failed)
    /\ UNCHANGED <<disk, path, key, whom, fut, inflight, batching, cacheVars>>

\* Mutant: what was encoded is cached without another look at the file.
Revalidates_Never(c) ==
    /\ pc[c] = "encoded"
    /\ To(c, "checked")
    /\ UNCHANGED <<disk, path, key, whom, art, fut, inflight, batching, cacheVars>>

\* revalidate: the key is computed once more.
Revalidates(c) ==
    /\ pc[c] = "encoded"
    /\ To(c, IF disk[path[c]] = key[c] THEN "checked" ELSE "unchecked")
    /\ UNCHANGED <<disk, path, key, whom, art, fut, inflight, batching, cacheVars>>

\* The second block under the lock.
Publishes(c) ==
    /\ pc[c] \in {"checked", "unchecked"}
    /\ \/ pc[c] = "checked" /\ Put(key[c], art[c])
       \/ pc[c] = "unchecked" /\ UNCHANGED cacheVars
    /\ inflight' = [inflight EXCEPT ![key[c]] = None]
    /\ To(c, "resolves")
    /\ UNCHANGED <<disk, path, key, whom, art, fut, batching>>

\* Mutant: a leader that fails leaves its entry in the table.
Fails_Poisons(c) ==
    /\ pc[c] = "failing"
    /\ To(c, "resolves")
    /\ UNCHANGED <<disk, path, key, whom, art, fut, inflight, batching, cacheVars>>

\* The except clause, up to the end of its locked block.
Fails(c) ==
    /\ pc[c] = "failing"
    /\ inflight' = [inflight EXCEPT ![key[c]] = None]
    /\ To(c, "resolves")
    /\ UNCHANGED <<disk, path, key, whom, art, fut, batching, cacheVars>>

\* Mutant: only a success is passed on to the followers.
Resolves_Success(c) ==
    /\ pc[c] = "resolves"
    /\ fut' = [fut EXCEPT ![c] = IF art[c] = Failed THEN None ELSE art[c]]
    /\ To(c, "done")
    /\ UNCHANGED <<disk, path, key, whom, art, inflight, batching, cacheVars>>

\* leader_fut.set_result or set_exception.
Resolves(c) ==
    /\ pc[c] = "resolves"
    /\ fut' = [fut EXCEPT ![c] = art[c]]
    /\ To(c, "done")
    /\ UNCHANGED <<disk, path, key, whom, art, inflight, batching, cacheVars>>

-----------------------------------------------------------------------------
(* The batch worker.                                                       *)

\* drain_batch, which waits for a first entry and takes a few more.  The
\* stopper ends it.
Drains ==
    /\ worker = "idle"
    /\ queue # <<>>
    /\ \E n \in 1..Min({max_batch_size, Len(queue)}) :
          LET taken == SubSeq(queue, 1, n)
              stops == taken[n] = Stopper
          IN  /\ \A i \in 1..(n - 1) : taken[i] # Stopper
              /\ batch' = IF stops THEN SubSeq(taken, 1, n - 1) ELSE taken
              /\ queue' = SubSeq(queue, n + 1, Len(queue))
              /\ worker' = IF stops THEN "stopping" ELSE "encoding"
    /\ UNCHANGED <<disk, calls, fut, inflight, max_batch_size, batchFut, cacheVars>>

\* Mutant: a short answer of encode_batch is not noticed.
EncodesBatch_Shifted ==
    /\ worker \in {"encoding", "stopping"} /\ batch # <<>>
    /\ \E k \in {0, 1} :
          batchFut' = [c \in Calls |->
              IF \E i \in DOMAIN batch : batch[i] = c
              THEN LET i == CHOOSE i \in DOMAIN batch : batch[i] = c
                   IN  IF i + k \in DOMAIN batch THEN disk[path[batch[i + k]]] ELSE None
              ELSE batchFut[c]]
    /\ batch' = <<>>
    /\ worker' = IF worker = "encoding" THEN "idle" ELSE worker
    /\ UNCHANGED <<disk, calls, fut, inflight, max_batch_size, queue, cacheVars>>

\* encode_batch: all together, or one by one if that fails; every future of
\* the batch is resolved.
EncodesBatch ==
    /\ worker \in {"encoding", "stopping"} /\ batch # <<>>
    /\ \E bad \in SUBSET ToSet(batch) :
          batchFut' = [c \in Calls |->
              IF c \notin ToSet(batch) THEN batchFut[c]
              ELSE IF c \in bad THEN Failed ELSE disk[path[c]]]
    /\ batch' = <<>>
    /\ worker' = IF worker = "encoding" THEN "idle" ELSE worker
    /\ UNCHANGED <<disk, calls, fut, inflight, max_batch_size, queue, cacheVars>>

\* drain_pending_on_shutdown: what is queued behind the stopper fails.
WorkerStops ==
    /\ worker = "stopping" /\ batch = <<>>
    /\ batchFut' = [c \in Calls |-> IF c \in ToSet(queue) THEN Failed ELSE batchFut[c]]
    /\ queue' = <<>>
    /\ worker' = "stopped"
    /\ UNCHANGED <<disk, calls, fut, inflight, max_batch_size, batch, cacheVars>>

\* close
Close ==
    /\ "close" \in Closes /\ max_batch_size > 1
    /\ worker # "stopped"
    /\ Stopper \notin ToSet(queue)
    /\ queue' = Append(queue, Stopper)
    /\ UNCHANGED <<disk, calls, fut, inflight, max_batch_size, batchFut, batch, worker, cacheVars>>

-----------------------------------------------------------------------------
LeaderStep(c) ==
    \/ EncodesOne(c) \/ Enqueues(c) \/ LeaderWakes(c) \/ LeaderTimesOut(c)
    \/ Revalidates(c) \/ Publishes(c) \/ Fails(c) \/ Resolves(c)

Next ==
    \/ \E c \in Calls : \/ \E p \in Paths : ComputesKey(c, p)
                        \/ LooksUp(c) \/ LeaderStep(c)
                        \/ FollowerEnds(c) \/ FollowerTimesOut(c)
    \/ Drains \/ EncodesBatch \/ WorkerStops \/ Close
    \/ \E p \in Paths : FileChanges(p)

Spec == Init /\ [][Next]_vars

\* Threads make progress and encodes end.  The leader's wait for the worker
\* has a timeout, which runs out; the followers' timeout is left out: no
\* follower should need it.
LiveSpec ==
    /\ Spec
    /\ \A c \in Calls : WF_vars(LooksUp(c) \/ LeaderStep(c) \/ FollowerEnds(c))

-----------------------------------------------------------------------------
\* What is cached under a key was encoded from the content with that key, even
\* if the file changed while it was encoded (revalidate before cache.put).
CacheIsTrue == \A e \in ToSet(entries) : e.data = e.key

\* One encode per key: a key is in the table exactly as long as one call leads
\* it, and that call is the one in the table; so no failed encode is found
\* there by a later call (the two locked blocks and the except clause).
InflightIsLed ==
    \A k \in Keys :
        {c \in Calls : key[c] = k /\ pc[c] \in {"leads", "waits", "encoded", "checked",
                                                "unchecked", "failing"}}
        = {inflight[k]} \ {None}

\* A call never gets the artifact of a content older than the one its file had
\* when it asked, nor of one that no file had yet (cache, table and the
\* pairing of a batch with its results).
NeverOlder ==
    \A c \in Calls : art[c] \in Data /\ key[c] # None =>
        art[c] >= key[c] /\ \E p \in Paths : art[c] <= disk[p]

\* Every call that computed its key ends, without help of the followers'
\* timeout: a leader resolves its future however its encode ends, also when
\* the service is closed meanwhile (leader_fut, the except clause).
EncodesEnd == \A c \in Calls : pc[c] # "start" ~> pc[c] = "done"
=============================================================================
