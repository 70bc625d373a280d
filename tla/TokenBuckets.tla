---------------------------- MODULE TokenBuckets ----------------------------
(***************************************************************************)
(* The token buckets (token_bucket.py) in front of the MCP tools and of    *)
(* the admin panel: a registry of buckets that idle ones are swept from, a *)
(* lock for the registry and one for each bucket.  A caller gets its       *)
(* bucket under the first and takes from it under the second; in between   *)
(* others run.  A token is Cost units, so that refill may be fractional.   *)
(***************************************************************************)
EXTENDS Integers, Sequences, FiniteSets, FiniteSetsExt

CONSTANTS
    Takers,     \* threads in take_tokens: the MCP event loop, the admin worker threads
    Identities,  \* the keys of buckets
    Shapes,      \* settings [capacity, refill], in units and units a tick
    Cost,        \* units a token is made of
    SweepAfter,  \* _SWEEP_INTERVAL
    MaxTime      \* bound: the clock

VARIABLES
    clock,
    shape,      \* the settings the middleware has cached
    heap,       \* every bucket made: [tokens, updated, capacity, refill]
    registry,   \* identity -> its bucket, 0 for none
    lastSweep,
    held,       \* caller -> the bucket it got and the identity it acts for
    granted     \* identity -> the times of its granted calls

bucketVars == <<clock, shape, heap, registry, lastSweep, held, granted>>

NoBucket == [bucket |-> 0, for |-> 0]

BucketInit ==
    /\ clock = 0
    /\ shape \in Shapes
    /\ heap = <<>>
    /\ registry = [k \in Identities |-> 0]
    /\ lastSweep = 0
    /\ held = [c \in Takers |-> NoBucket]
    /\ granted = [k \in Identities |-> <<>>]

BucketTick ==
    /\ clock < MaxTime
    /\ clock' = clock + 1
    /\ UNCHANGED <<shape, heap, registry, lastSweep, held, granted>>

\* _current_bucket_shape: an administrator set other values and the cached ones expired.
Reshape ==
    /\ shape' \in Shapes \ {shape}
    /\ UNCHANGED <<clock, heap, registry, lastSweep, held, granted>>

NewBucket == [tokens |-> shape.capacity, updated |-> clock,
              capacity |-> shape.capacity, refill |-> shape.refill]

SweptAll == [k \in Identities |-> 0]
Swept ==
    [k \in Identities |->
        IF registry[k] # 0 /\ clock - heap[registry[k]].updated > SweepAfter THEN 0 ELSE registry[k]]

\* take_tokens under _REGISTRY_LOCK: sweep when it is time, find or make the bucket.
Fetch(c, k) ==
    /\ held[c] = NoBucket
    /\ LET due  == clock - lastSweep > SweepAfter
           left == IF due THEN Swept ELSE registry
           made == left[k] = 0
           slot == IF made THEN Len(heap) + 1 ELSE left[k]
       IN  /\ lastSweep' = IF due THEN clock ELSE lastSweep
           /\ heap' = IF made THEN Append(heap, NewBucket) ELSE heap
           /\ registry' = [left EXCEPT ![k] = slot]
           /\ held' = [held EXCEPT ![c] = [bucket |-> slot, for |-> k]]
    /\ UNCHANGED <<clock, shape, granted>>

RefilledUncapped(b) ==
    [b EXCEPT !.tokens = b.tokens + (clock - b.updated) * b.refill, !.updated = clock]
Refilled(b) ==
    [b EXCEPT !.tokens = Min({b.capacity, b.tokens + (clock - b.updated) * b.refill}),
              !.updated = clock]

\* TokenBucket.take under the lock of the bucket
Take(c) ==
    /\ held[c] # NoBucket
    /\ LET i == held[c].bucket
           k == held[c].for
           full == Refilled(heap[i])
       IN  IF full.tokens >= Cost
           THEN /\ heap' = [heap EXCEPT ![i] = [full EXCEPT !.tokens = @ - Cost]]
                /\ granted' = [granted EXCEPT ![k] = Append(@, clock)]
           ELSE heap' = [heap EXCEPT ![i] = full] /\ UNCHANGED granted
    /\ held' = [held EXCEPT ![c] = NoBucket]
    /\ UNCHANGED <<clock, shape, registry, lastSweep>>

BucketNext ==
    \/ BucketTick \/ Reshape
    \/ \E c \in Takers : Take(c) \/ \E k \in Identities : Fetch(c, k)

BucketSpec == BucketInit /\ [][BucketNext]_bucketVars

(***************************************************************************)
(* Properties                                                              *)
(***************************************************************************)
Grants(k, s, t) == Cardinality({i \in DOMAIN granted[k] : granted[k][i] \in s .. t})
Widest == Max({s.capacity : s \in Shapes})
Fastest == Max({s.refill : s \in Shapes})

SweepPeriod == SweepAfter + 1
\* A bucket is made again, full, each time it was idle for a sweep; settings that fill it in
\* less time gain nothing by that (admin.py:111 accepts a capacity of 1000 at 0.1 a second).
Regranted == (Widest + SweepAfter) \div SweepPeriod
Sustained == Max({Fastest, Regranted})

\* There are callers, a largest capacity and a highest rate.
BucketShapes ==
    /\ IsFiniteSet(Takers) /\ Takers # {}
    /\ Cost \in Nat /\ SweepAfter \in Nat
    /\ Shapes \subseteq [capacity : Nat, refill : Nat]
    /\ \E a \in Shapes : \A b \in Shapes : b.capacity <= a.capacity
    /\ \E a \in Shapes : \A b \in Shapes : b.refill <= a.refill

\* A caller may take one token from a bucket that was swept as it got it, and no sweep finds
\* every caller with a bucket: so many may others take in an interval that long.
Stragglers(length) == (Cardinality(Takers) - 1) * (2 + length \div (SweepAfter + 1))

\* "Bursts are capped at capacity, sustained rate is the refill rate" (token_bucket.py:11):
\* no identity gets more in any interval, whatever is set meanwhile, up to what stragglers
\* take; but the rate of settings that refill slower than a sweep drops the bucket is the
\* capacity in the time of a sweep, for the next call is given a full one.
BucketBound ==
    \A k \in Identities : \A s \in 0 .. clock : \A t \in s .. clock :
        (Grants(k, s, t) - Stragglers(t - s)) * Cost <= Widest + (t - s) * Sustained
=============================================================================
