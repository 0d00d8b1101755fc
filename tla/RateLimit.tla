------------------------------ MODULE RateLimit -----------------------------
(***************************************************************************)
(* The in-process rate limiter (APP-9, F-06): a map of token buckets, one   *)
(* per key that was seen, with a bound on its size and an amortized sweep.  *)
(* A caller reads the clock before it takes the lock, so that callers may   *)
(* enter out of the order of their clocks.                                  *)
(*                                                                         *)
(* Time is discrete, and one request is worth Window units, so that all     *)
(* levels are integers.  Only differences of times matter: a bucket has an  *)
(* age since last_refill, a caller one since it read the clock.             *)
(***************************************************************************)
EXTENDS Integers, FiniteSets

CONSTANTS
  Keys, Callers,
  Capacity,   \* per_minute
  Window,     \* _full_refill_seconds, 60
  MaxBuckets, \* max_buckets
  SweepEvery, \* _SWEEP_EVERY
  MaxLag      \* bound: time between the read of the clock and the lock

ASSUME RateLimitAssumption ==
  /\ Capacity \in Nat \ {0} /\ Window \in Nat \ {0}
  /\ MaxBuckets \in Nat /\ SweepEvery \in Nat \ {0} /\ MaxLag \in Nat
  /\ IsFiniteSet(Keys)

VARIABLES
  buckets, \* per key: whether it is in _buckets, its tokens and its age
  calls,   \* _calls, modulo SweepEvery
  caller,  \* threads in allow(): whether they have read the clock, how long ago
  answer   \* the last decision

vars == <<buckets, calls, caller, answer>>

-----------------------------------------------------------------------------
AtMost(x, y) == IF x <= y THEN x ELSE y
Full == Capacity * Window

(* An age past which every bucket is full for every caller                   *)
MaxAge == Window + 2 * MaxLag

NoBucket == [on |-> FALSE, tokens |-> 0, age |-> 0]
BucketType == [on: BOOLEAN, tokens: (-(MaxLag * Capacity))..Full, age: 0..MaxAge]
CallerType == [at: {"idle", "lock"}, lag: 0..MaxLag]
Outside == [at |-> "idle", lag |-> 0]

Verdicts == {"none", "yes", "no", "overload"}
NoAnswer == [key |-> "none", verdict |-> "none"]
AnswerType == {NoAnswer} \cup [key: Keys, verdict: Verdicts]

Init ==
  /\ buckets = [k \in Keys |-> NoBucket]
  /\ calls = 0
  /\ caller = [c \in Callers |-> Outside]
  /\ answer = NoAnswer

-----------------------------------------------------------------------------
(* Time passes; a caller that has read the clock gets the lock within MaxLag *)
Tick ==
  /\ \A c \in Callers : caller[c].at = "lock" => caller[c].lag < MaxLag
  /\ buckets' = [k \in Keys |-> IF buckets[k].on
                                THEN [buckets[k] EXCEPT !.age = AtMost(MaxAge, @ + 1)]
                                ELSE buckets[k]]
  /\ caller' = [c \in Callers |-> IF caller[c].at = "lock"
                                  THEN [caller[c] EXCEPT !.lag = @ + 1]
                                  ELSE caller[c]]
  /\ UNCHANGED <<calls, answer>>

ReadClock(c) ==
  /\ caller[c].at = "idle"
  /\ caller' = [caller EXCEPT ![c].at = "lock"]
  /\ UNCHANGED <<buckets, calls, answer>>

(* Mutant: a bucket is dropped before it has refilled.                       *)
Swept_Early(lag) ==
  [k \in Keys |-> IF buckets[k].on /\ buckets[k].age - lag >= Window - 1
                  THEN NoBucket ELSE buckets[k]]

(* _sweep: a bucket idle for the time of a full refill is dropped            *)
Swept(lag) ==
  [k \in Keys |-> IF buckets[k].on /\ buckets[k].age - lag >= Window
                  THEN NoBucket ELSE buckets[k]]

(* Mutant: the bound on the map is looked at when it is exceeded only.       *)
Overloaded_OffByOne(k, known) ==
  ~known[k].on /\ Cardinality({j \in Keys : known[j].on}) > MaxBuckets

(* A key that is not in the map, and a map that is full                      *)
Overloaded(k, known) ==
  ~known[k].on /\ Cardinality({j \in Keys : known[j].on}) >= MaxBuckets

(* The tokens of a bucket at the caller's time, which may lie before its     *)
(* last_refill                                                               *)
Tokens(b, lag) == IF b.on THEN AtMost(Full, b.tokens + (b.age - lag) * Capacity) ELSE Full

(* The call that makes the count a multiple of SweepEvery sweeps             *)
Due == (calls + 1) % SweepEvery = 0

(* allow, under the lock                                                     *)
Allow(c, k) ==
  LET lag == caller[c].lag
      known == IF Due THEN Swept(lag) ELSE buckets
      tokens == Tokens(known[k], lag)
      yes == tokens >= Window
  IN
  /\ caller[c].at = "lock"
  /\ caller' = [caller EXCEPT ![c] = Outside]
  /\ calls' = (calls + 1) % SweepEvery
  /\ IF Overloaded(k, known)
     THEN /\ buckets' = known
          /\ answer' = [key |-> k, verdict |-> "overload"]
     ELSE /\ buckets' = [known EXCEPT ![k] =
                           [on |-> TRUE, age |-> lag,
                            tokens |-> IF yes THEN tokens - Window ELSE tokens]]
          /\ answer' = [key |-> k, verdict |-> IF yes THEN "yes" ELSE "no"]

-----------------------------------------------------------------------------
Next ==
  \/ Tick
  \/ \E c \in Callers : ReadClock(c)
  \/ \E c \in Callers, k \in Keys : Allow(c, k)

Spec == Init /\ [][Next]_vars

-----------------------------------------------------------------------------
(* Properties                                                               *)

(* Types, and the bound on the memory: no spray of keys makes the map grow   *)
(* past max_buckets.                                                         *)
Known == {k \in Keys : buckets[k].on}
TypeOK ==
  /\ buckets \in [Keys -> BucketType]
  /\ calls \in 0..(SweepEvery - 1)
  /\ caller \in [Callers -> CallerType]
  /\ answer \in AnswerType
  /\ Cardinality(Known) <= MaxBuckets

(* What the buckets amount to now: one that was dropped counts as full       *)
Level(b) == IF b.on THEN AtMost(Full, b.tokens + b.age * Capacity) ELSE Full
Ideal == INSTANCE TokenBucket WITH level <- [k \in Keys |-> Level(buckets[k])]

(* The map behaves like one bucket per key that is never dropped: no sweep   *)
(* and no order of the callers' clocks gives a key more than its rate, or    *)
(* refuses one that has tokens to spare, and a map that is full refuses only *)
(* keys that have not used their rate lately (RateLimiter.allow, _sweep).    *)
Implements == Ideal!Spec
=============================================================================
