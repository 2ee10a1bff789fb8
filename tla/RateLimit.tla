----------------------------- MODULE RateLimit -----------------------------
(***************************************************************************)
(* The rate limiter of one key: DORateLimitStore.ts (a Durable Object that *)
(* counts in time buckets) called through rateLimits.ts.                   *)
(*                                                                         *)
(* Time is counted in units of a bucket's granularity.  A limit is a       *)
(* window [size, limit]: the main period, the burst window and the rolling *)
(* day are checked alike.  `used` remembers what was really accepted and   *)
(* counted, instant by instant; the code keeps only buckets.               *)
(***************************************************************************)
EXTENDS Integers, FiniteSets, FiniteSetsExt

CONSTANTS
  Windows,       \* the configured windows: a set of [size, limit]
  BucketSize,    \* config.bucketSize
  CleanupEvery,  \* the five minutes between two cleanups
  Costs,         \* values of incrementBy (credits of a model)
  MaxTime        \* bound on the clock

ASSUME LimitAssumption ==
  /\ BucketSize \in Nat \ {0} /\ CleanupEvery \in Nat /\ MaxTime \in Nat
  /\ Costs \subseteq Nat \ {0} /\ Costs # {} /\ IsFiniteSet(Costs)
  /\ Windows \subseteq [size : Nat \ {0}, limit : Nat \ {0}] /\ IsFiniteSet(Windows)

VARIABLES
  now,
  kept,          \* state in memory: [buckets, cleaned]
  stored,        \* the 'state' entry of the object's storage, if it has one
  loaded,        \* this.initialized
  used,          \* instant -> cost accepted and counted then
  answer         \* of the last request at this instant: none, accepted or refused

limitVars == <<now, kept, stored, loaded, used, answer>>

Times == 0 .. MaxTime
BucketOf(t) == (t \div BucketSize) * BucketSize
Buckets == {BucketOf(t) : t \in Times}
NoBucket == [count |-> 0, stamp |-> 0]
Nothing == [b \in Buckets |-> NoBucket]
MaxWindow == Max({w.size : w \in Windows})
MaxCost == Max(Costs)

Total(f, S) == MapThenSumSet(LAMBDA x : f[x], S)

StateType == [buckets : [Buckets -> [count : Nat, stamp : Times]], cleaned : Times]

LimitTypeOK ==
  /\ now \in Times
  /\ kept \in StateType
  /\ stored \subseteq StateType /\ Cardinality(stored) <= 1
  /\ loaded \in BOOLEAN
  /\ used \in [Times -> Nat]
  /\ answer \in {"none", "accepted", "refused"}

LimitInit ==
  /\ now = 0
  /\ kept = [buckets |-> Nothing, cleaned |-> 0] /\ stored = {}
  /\ loaded = TRUE
  /\ used = [t \in Times |-> 0]
  /\ answer = "none"

---------------------------------------------------------------------------
\* ensureInitialized; a new object has lastCleanup = now until it loads one.
State == IF loaded THEN kept
         ELSE IF stored = {} THEN [buckets |-> Nothing, cleaned |-> now]
         ELSE CHOOSE st \in stored : TRUE

Cleanup_ByBucket(st) ==
  IF now - st.cleaned <= CleanupEvery THEN st
  ELSE LET old == {b \in Buckets : b <= now - MaxWindow /\ st.buckets[b] # NoBucket}
       IN IF old = {} THEN st
          ELSE [buckets |-> [b \in Buckets |-> IF b \in old THEN NoBucket ELSE st.buckets[b]],
                cleaned |-> now]

\* cleanup: buckets whose last hit is older than the widest window are deleted;
\* a cleanup that deletes nothing is not remembered.
Cleanup(st) ==
  IF now - st.cleaned <= CleanupEvery THEN st
  ELSE LET old == {b \in Buckets : /\ st.buckets[b] # NoBucket
                                   /\ st.buckets[b].stamp < now - MaxWindow}
       IN IF old = {} THEN st
          ELSE [buckets |-> [b \in Buckets |-> IF b \in old THEN NoBucket ELSE st.buckets[b]],
                cleaned |-> now]

\* getBucketsInWindow: from the bucket in which the window begins to now.
CountIn(st, w) ==
  Total([b \in Buckets |-> st.buckets[b].count],
        {b \in Buckets : BucketOf(now - w.size) <= b /\ b <= now})

Exceeded_WithCost(st) == \E w \in Windows : CountIn(st, w) + MaxCost > w.limit

Exceeded(st) == \E w \in Windows : CountIn(st, w) >= w.limit

Hit(st, cost) ==
  [st EXCEPT !.buckets[BucketOf(now)] = [count |-> @.count + cost, stamp |-> now]]

\* increment: one call is atomic, the input gate of the object holds the next
\* one back while it reads or writes storage.  The cleanup is stored by itself.
Increment(cost) ==
  LET st == Cleanup(State) IN
  /\ loaded' = TRUE
  /\ IF Exceeded(st)
     THEN kept' = st /\ UNCHANGED used /\ answer' = "refused"
     ELSE /\ kept' = Hit(st, cost)
          /\ used' = [used EXCEPT ![now] = @ + cost]
          /\ answer' = "accepted"
  /\ stored' = IF kept' = State THEN stored ELSE {kept'}
  /\ UNCHANGED now

\* resetLimit
ResetLimit ==
  /\ kept' = [State EXCEPT !.buckets = Nothing] /\ stored' = {kept'} /\ loaded' = TRUE
  /\ used' = [t \in Times |-> 0] /\ answer' = "none"
  /\ UNCHANGED now

\* getRemainingLimit loads the state and changes nothing else.
GetRemaining ==
  /\ ~loaded
  /\ kept' = State /\ loaded' = TRUE
  /\ UNCHANGED <<now, stored, used, answer>>

\* The object leaves memory; what it had not stored is gone.
Evict ==
  /\ loaded
  /\ loaded' = FALSE
  /\ UNCHANGED <<now, kept, stored, used, answer>>

TimePasses ==
  /\ now < MaxTime
  /\ now' = now + 1 /\ answer' = "none"
  /\ UNCHANGED <<kept, stored, loaded, used>>

LimitNext ==
  \/ \E cost \in Costs : Increment(cost)
  \/ ResetLimit \/ GetRemaining \/ Evict \/ TimePasses

LimitSpec == LimitInit /\ [][LimitNext]_limitVars

---------------------------------------------------------------------------
(* Properties *)

\* Whatever window of a limit's length one looks at, less than the limit plus
\* one request was accepted in it: buckets, their cleanup and the eviction of
\* the object forget no hit that still counts.  (The code admits a request
\* whenever less than the limit is used, so the last one may overshoot.)
WindowBounded ==
  \A w \in Windows, t \in Times :
    Total(used, (t - w.size) .. t \cap Times) <= w.limit - 1 + MaxCost

\* Nobody is refused for requests older than the window and one bucket.
RefusalJustified ==
  answer = "refused" =>
    \E w \in Windows :
      Total(used, ((now - w.size - BucketSize + 1) .. now) \cap Times) >= w.limit
=============================================================================
