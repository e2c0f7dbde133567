----------------------------- MODULE StageCache -----------------------------
(***************************************************************************)
(* The byte-budgeted LRU cache of stage outputs (scheduling/               *)
(* stage_cache.py) as the encode service uses it: get and put, each under  *)
(* the cache's lock.                                                       *)
(***************************************************************************)
EXTENDS Naturals, FiniteSets, Sequences, SequencesExt

CONSTANTS
    Keys,      \* cache keys
    Data,      \* the values cached
    SizeOf,    \* their sizes
    MaxSize,   \* max_size
    MaxBytes   \* max_bytes

ASSUME CacheAssumption ==
    /\ SizeOf \in [Data -> Nat]
    /\ MaxSize \in Nat
    /\ MaxBytes \in Nat

VARIABLES
    entries,   \* the OrderedDict: [key, data] records, least recent first
    bytes      \* current_bytes

cacheVars == <<entries, bytes>>

CacheInit == entries = <<>> /\ bytes = 0

Without(es, ks) == SelectSeq(es, LAMBDA e : e.key \notin ks)

Total(es) == FoldLeft(LAMBDA n, e : n + SizeOf[e.data], 0, es)

\* get: the value, which becomes the most recent one.
Cached(k) == {e.data : e \in {x \in ToSet(entries) : x.key = k}}

Get(k) ==
    /\ entries' = Without(entries, {k}) \o SelectSeq(entries, LAMBDA e : e.key = k)
    /\ UNCHANGED bytes

\* Mutant: the count keeps the size of what is evicted.
EvictOverBudget_Keeps(es, n) ==
    LET Fits(i) == /\ Len(es) - i <= MaxSize
                   /\ n - Total(SubSeq(es, 1, i)) <= MaxBytes
        out == CHOOSE i \in 0..Len(es) : Fits(i) /\ \A j \in 0..(i - 1) : ~Fits(j)
    IN  /\ entries' = SubSeq(es, out + 1, Len(es))
        /\ bytes' = n

\* evict_over_budget, with the entries es and the count n it finds: the least
\* recent entries go until both budgets are kept.
EvictOverBudget(es, n) ==
    LET Fits(i) == /\ Len(es) - i <= MaxSize
                   /\ n - Total(SubSeq(es, 1, i)) <= MaxBytes
        out == CHOOSE i \in 0..Len(es) : Fits(i) /\ \A j \in 0..(i - 1) : ~Fits(j)
    IN  /\ entries' = SubSeq(es, out + 1, Len(es))
        /\ bytes' = n - Total(SubSeq(es, 1, out))

\* put: an old value of the key goes even if the new one is too large.
Put(k, d) ==
    LET freed == bytes - Total(SelectSeq(entries, LAMBDA e : e.key = k))
        rest == Without(entries, {k})
    IN  IF SizeOf[d] > MaxBytes
        THEN entries' = rest /\ bytes' = freed
        ELSE EvictOverBudget(Append(rest, [key |-> k, data |-> d]), freed + SizeOf[d])

-----------------------------------------------------------------------------
\* The running count is the sum of the sizes of the entries, whatever puts,
\* replacements and evictions came before; it keeps to the budget, and so does
\* the number of entries (put, evict_over_budget).
BytesExact ==
    /\ bytes = Total(entries)
    /\ bytes <= MaxBytes
    /\ Len(entries) <= MaxSize
=============================================================================
