-------------------------- MODULE RateLimitProofs --------------------------
(***************************************************************************)
(* Theorems about RateLimit, for every number of keys and callers and every *)
(* rate, window, bound and lag: the types and the bound of the map, and     *)
(* that the map with its sweep implements one bucket per key.               *)
(***************************************************************************)
EXTENDS RateLimit, FiniteSetTheorems, TLAPS

(* The tokens a bucket would have now, were it not bounded                   *)
Worth(b) == b.tokens + b.age * Capacity

(* What Tick and Allow need of a bucket: a caller whose clock is behind may  *)
(* leave negative tokens, but never more than the time since has restored    *)
Sound(b) == b \in BucketType /\ (b.on => Worth(b) >= 0)

IInv == TypeOK /\ \A k \in Keys : Sound(buckets[k])

-----------------------------------------------------------------------------
(* Arithmetic                                                               *)

LEMMA Products ==
  ASSUME NEW a \in Int, NEW b \in Int, NEW c \in Nat
  PROVE  /\ a * c \in Int
         /\ a <= b => a * c <= b * c
         /\ (a - b) * c = a * c - b * c
         /\ (a + b) * c = a * c + b * c
  OBVIOUS

LEMMA Constants ==
  /\ Full \in Nat /\ Full >= Window /\ Window >= 1
  /\ MaxLag * Capacity \in Nat /\ MaxAge \in Nat
  /\ MaxAge * Capacity = Full + 2 * (MaxLag * Capacity)
<1>1. Capacity >= 1 /\ Window >= 1 /\ Capacity \in Nat /\ Window \in Nat /\ MaxLag \in Nat
  BY RateLimitAssumption
<1>2. Full \in Nat /\ Full >= Window
  <2>1. 1 * Window <= Capacity * Window
    BY <1>1, Products
  <2> QED BY <1>1, <2>1 DEF Full
<1>3. MaxLag * Capacity \in Nat /\ MaxAge \in Nat
  BY <1>1 DEF MaxAge
<1>4. MaxAge * Capacity = Full + 2 * (MaxLag * Capacity)
  BY <1>1 DEF MaxAge, Full
<1> QED BY <1>1, <1>2, <1>3, <1>4

(* What a bucket amounts to lies between nothing and full                    *)
LEMMA LevelRange ==
  ASSUME NEW b, Sound(b)
  PROVE  Level(b) \in 0..Full
<1>1. b.tokens \in Int /\ b.age \in Int /\ b.on \in BOOLEAN
  BY Constants DEF Sound, BucketType
<1>2. b.age * Capacity \in Int
  BY <1>1, Products, RateLimitAssumption
<1> QED BY <1>1, <1>2, Constants DEF Sound, Worth, Level, AtMost

(* A bucket that has reached the last age is full                            *)
LEMMA Restored ==
  ASSUME NEW b \in BucketType, b.on, b.age = MaxAge
  PROVE  Worth(b) >= Full
<1>1. b.tokens \in Int /\ b.tokens >= -(MaxLag * Capacity)
  BY Constants DEF BucketType
<1> QED BY <1>1, Constants DEF Worth

(* Time: a bucket grows older by one                                         *)
LEMMA OlderBucket ==
  ASSUME NEW b, Sound(b), b.on
  PROVE  LET o == [b EXCEPT !.age = AtMost(MaxAge, b.age + 1)]
         IN  Sound(o) /\ Level(o) = AtMost(Full, Level(b) + Capacity)
<1> DEFINE o == [b EXCEPT !.age = AtMost(MaxAge, b.age + 1)]
<1>1. /\ b.tokens \in (-(MaxLag * Capacity))..Full /\ b.age \in 0..MaxAge
      /\ b = [on |-> b.on, tokens |-> b.tokens, age |-> b.age]
  BY DEF Sound, BucketType
<1>2. /\ o \in BucketType /\ o.on /\ o.tokens = b.tokens
      /\ o.age = AtMost(MaxAge, b.age + 1)
  BY <1>1, Constants DEF Sound, BucketType, AtMost
<1>3. Capacity \in Nat /\ b.age * Capacity \in Int /\ (b.age + 1) * Capacity = b.age * Capacity + Capacity
  BY <1>1, Constants, RateLimitAssumption
<1>4. Worth(b) >= 0 /\ Worth(b) \in Int
  BY <1>1, <1>3, Constants DEF Sound, Worth
<1>5. CASE b.age = MaxAge
  <2>1. o.age = b.age
    BY <1>2, <1>5, Constants DEF AtMost
  <2>2. Worth(o) = Worth(b)
    BY <1>2, <2>1 DEF Worth
  <2>3. Worth(b) >= Full
    BY <1>5, Restored DEF Sound
  <2> QED BY <1>2, <1>3, <1>4, <2>2, <2>3, Constants DEF Sound, Level, Worth, AtMost
<1>6. CASE b.age # MaxAge
  <2>1. o.age = b.age + 1
    BY <1>1, <1>2, <1>6, Constants DEF AtMost
  <2>2. Worth(o) = Worth(b) + Capacity
    BY <1>1, <1>2, <1>3, <2>1, Constants DEF Worth
  <2> QED BY <1>2, <1>3, <1>4, <2>2, Constants DEF Sound, Level, Worth, AtMost
<1> QED BY <1>5, <1>6

-----------------------------------------------------------------------------
(* One call of allow                                                        *)

Slack == MaxLag * Capacity

(* What a sweep leaves of a bucket                                           *)
Left(b, lag) == IF b.on /\ b.age - lag >= Window THEN NoBucket ELSE b

LEMMA UnknownBucket == Sound(NoBucket) /\ Level(NoBucket) = Full
  BY Constants DEF Sound, NoBucket, BucketType, Level

(* A bucket the sweep drops is full but for the lag                          *)
LEMMA LeftBucket ==
  ASSUME NEW b, Sound(b), NEW lag \in 0..MaxLag
  PROVE  /\ Sound(Left(b, lag))
         /\ Left(b, lag) # b => Level(Left(b, lag)) = Full /\ Level(b) >= Full - Slack
<1>1. CASE Left(b, lag) = b
  BY <1>1
<1>2. CASE Left(b, lag) # b
  <2>1. Left(b, lag) = NoBucket /\ b.on /\ b.age - lag >= Window
    BY <1>2 DEF Left
  <2>2. b.tokens \in Int /\ b.tokens >= -Slack /\ b.age \in Nat
    BY Constants DEF Sound, BucketType, Slack
  <2>3. b.age >= Window /\ Window \in Nat /\ Capacity \in Nat
    BY <2>1, <2>2, RateLimitAssumption
  <2>4. Full <= b.age * Capacity /\ b.age * Capacity \in Int
    <3>1. Window * Capacity <= b.age * Capacity
      BY <2>2, <2>3, Products
    <3>2. Window * Capacity = Full
      BY <2>3 DEF Full
    <3> QED BY <2>2, <2>3, <3>1, <3>2, Products
  <2>5. Level(b) >= Full - Slack
    BY <2>1, <2>2, <2>4, Constants DEF Level, AtMost, Slack
  <2> QED BY <2>1, <2>5, UnknownBucket
<1> QED BY <1>1, <1>2

(* The bucket of a key that is in the map, or enters it                      *)
Served(b, lag) ==
  [on |-> TRUE, age |-> lag,
   tokens |-> IF Tokens(b, lag) >= Window THEN Tokens(b, lag) - Window ELSE Tokens(b, lag)]

(* The tokens at the caller's time are what they are now less the lag, or    *)
(* full                                                                      *)
LEMMA TokensAtLag ==
  ASSUME NEW b, Sound(b), NEW lag \in 0..MaxLag
  PROVE  /\ lag * Capacity \in 0..Slack
         /\ Tokens(b, lag) \in (-Slack)..Full
         /\ \/ Tokens(b, lag) = Full /\ Level(b) = Full
            \/ b.on /\ Worth(b) \in Int /\ Tokens(b, lag) = Worth(b) - lag * Capacity
<1>1. /\ Capacity \in Nat /\ lag \in Int /\ MaxLag \in Int /\ b.age \in Int /\ b.tokens \in Int
      /\ b.on \in BOOLEAN
  BY RateLimitAssumption, Constants DEF Sound, BucketType
<1>2. lag * Capacity \in Int /\ 0 * Capacity <= lag * Capacity /\ lag * Capacity <= Slack
  BY <1>1, Products DEF Slack
<1>3. lag * Capacity \in 0..Slack
  BY <1>1, <1>2, Constants DEF Slack
<1>4. CASE ~b.on
  BY <1>3, <1>4, Constants DEF Tokens, Level, Slack
<1>5. CASE b.on
  <2>1. (b.age - lag) * Capacity = b.age * Capacity - lag * Capacity /\ b.age * Capacity \in Int
    BY <1>1, Products
  <2>2. Worth(b) \in Int /\ Worth(b) >= 0 /\ Level(b) = AtMost(Full, Worth(b))
    BY <1>1, <1>5, <2>1 DEF Sound, Worth, Level
  <2>3. Tokens(b, lag) = AtMost(Full, Worth(b) - lag * Capacity)
    BY <1>1, <1>3, <1>5, <2>1 DEF Tokens, Worth
  <2> QED BY <1>3, <1>5, <2>2, <2>3, Constants DEF AtMost, Slack
<1> QED BY <1>1, <1>4, <1>5

LEMMA ServedBucket ==
  ASSUME NEW b, Sound(b), NEW lag \in 0..MaxLag
  PROVE  /\ Sound(Served(b, lag))
         /\ Tokens(b, lag) >= Window =>
              \/ Level(b) >= Window /\ Level(Served(b, lag)) = Level(b) - Window
              \/ /\ Level(b) >= Full - Slack
                 /\ Level(Served(b, lag)) \in (Full - Window)..AtMost(Full, Full - Window + Slack)
         /\ Tokens(b, lag) < Window =>
              /\ Level(b) < Window + Slack
              /\ Level(Served(b, lag)) = Level(b)
<1> DEFINE t == Tokens(b, lag)
           l == lag * Capacity
           n == Served(b, lag)
<1>1. /\ l \in 0..Slack /\ t \in (-Slack)..Full
      /\ \/ t = Full /\ Level(b) = Full
         \/ b.on /\ Worth(b) \in Int /\ t = Worth(b) - l
  BY TokensAtLag
<1>2. /\ Slack \in Nat /\ Full \in Nat /\ Window \in Nat /\ Full >= Window /\ Window >= 1
      /\ MaxAge \in Nat /\ lag \in 0..MaxAge
  BY Constants, RateLimitAssumption DEF Slack, MaxAge
<1>3. n.on /\ n.age = lag /\ n.tokens = IF t >= Window THEN t - Window ELSE t
  BY DEF Served
<1>4. n \in BucketType
  BY <1>1, <1>2 DEF Served, BucketType, Slack
<1>5. Worth(n) = (IF t >= Window THEN t - Window ELSE t) + l
  BY <1>3 DEF Worth
<1>6. Level(n) = AtMost(Full, Worth(n))
  BY <1>3 DEF Level, Worth
<1>7. b.on => Level(b) = AtMost(Full, Worth(b)) /\ Worth(b) >= 0
  BY DEF Level, Worth, Sound
<1> HIDE DEF t, l, n
<1>8. Worth(n) >= 0
  BY <1>1, <1>2, <1>5, <1>7
<1>9. t >= Window => \/ Level(b) >= Window /\ Level(n) = Level(b) - Window
                     \/ /\ Level(b) >= Full - Slack
                        /\ Level(n) \in (Full - Window)..AtMost(Full, Full - Window + Slack)
  BY <1>1, <1>2, <1>5, <1>6, <1>7 DEF AtMost
<1>10. t < Window => Level(b) < Window + Slack /\ Level(n) = Level(b)
  BY <1>1, <1>2, <1>5, <1>6, <1>7 DEF AtMost
<1> QED BY <1>4, <1>8, <1>9, <1>10 DEF t, n, Sound

-----------------------------------------------------------------------------
(* A whole call, for all keys                                               *)

KnownAt(lag) == IF Due THEN Swept(lag) ELSE buckets

LEMMA KnownKeys ==
  ASSUME IInv, NEW lag \in 0..MaxLag
  PROVE  /\ KnownAt(lag) \in [Keys -> BucketType]
         /\ \A k \in Keys : /\ Sound(KnownAt(lag)[k])
                            /\ \/ KnownAt(lag)[k] = buckets[k]
                               \/ /\ Level(KnownAt(lag)[k]) = Full
                                  /\ Level(buckets[k]) >= Full - Slack
                            /\ KnownAt(lag)[k].on => buckets[k].on
<1>1. \A k \in Keys : Sound(buckets[k])
  BY DEF IInv
<1>2. buckets \in [Keys -> BucketType]
  BY DEF IInv, TypeOK
<1>3. \A k \in Keys : KnownAt(lag)[k] \in {buckets[k], Left(buckets[k], lag)}
  BY <1>2 DEF KnownAt, Swept, Left
<1>4. \A k \in Keys : Sound(Left(buckets[k], lag))
  BY <1>1, LeftBucket
<1>5. \A k \in Keys : Sound(KnownAt(lag)[k])
  BY <1>1, <1>3, <1>4
<1>6. KnownAt(lag) \in [Keys -> BucketType]
  BY <1>2, <1>5 DEF KnownAt, Swept, Sound
<1>7. \A k \in Keys : KnownAt(lag)[k] # buckets[k] =>
         Level(KnownAt(lag)[k]) = Full /\ Level(buckets[k]) >= Full - Slack
  BY <1>1, <1>3, LeftBucket
<1>8. \A k \in Keys : KnownAt(lag)[k].on => buckets[k].on
  BY <1>3 DEF Left, NoBucket
<1> QED BY <1>5, <1>6, <1>7, <1>8

On(f) == {k \in Keys : f[k].on}

LEMMA MapBound ==
  ASSUME IInv, NEW f \in [Keys -> BucketType],
         \A k \in Keys : f[k].on => buckets[k].on,
         NEW k \in Keys, ~(~f[k].on /\ Cardinality(On(f)) >= MaxBuckets),
         NEW b \in BucketType
  PROVE  /\ Cardinality(On(f)) <= MaxBuckets
         /\ Cardinality(On([f EXCEPT ![k] = b])) <= MaxBuckets
<1>1. IsFiniteSet(Keys) /\ MaxBuckets \in Nat
  BY RateLimitAssumption
<1>2. IsFiniteSet(Known) /\ On(f) \subseteq Known
  BY <1>1, FS_Subset DEF Known, On
<1>3. /\ IsFiniteSet(On(f)) /\ Cardinality(Known) \in Nat /\ Cardinality(On(f)) \in Nat
      /\ Cardinality(On(f)) <= Cardinality(Known)
  BY <1>2, FS_Subset, FS_CardinalityType
<1>4. Cardinality(On(f)) <= MaxBuckets
  BY <1>1, <1>3 DEF IInv, TypeOK
<1>5. Cardinality(On(f) \cup {k}) <= MaxBuckets
  <2>1. Cardinality(On(f) \cup {k}) =
          IF k \in On(f) THEN Cardinality(On(f)) ELSE Cardinality(On(f)) + 1
    BY <1>3, FS_AddElement
  <2>2. k \notin On(f) => Cardinality(On(f)) < MaxBuckets
    BY <1>1, <1>3 DEF On
  <2> QED BY <1>1, <1>3, <1>4, <2>1, <2>2
<1>6. On([f EXCEPT ![k] = b]) \subseteq On(f) \cup {k}
  BY DEF On
<1>7. IsFiniteSet(On(f) \cup {k})
  BY <1>3, FS_AddElement
<1>8. /\ Cardinality(On([f EXCEPT ![k] = b])) \in Nat
      /\ Cardinality(On(f) \cup {k}) \in Nat
      /\ Cardinality(On([f EXCEPT ![k] = b])) <= Cardinality(On(f) \cup {k})
  BY <1>6, <1>7, FS_Subset, FS_CardinalityType
<1> QED BY <1>1, <1>4, <1>5, <1>8

LEMMA InitIInv == Init => IInv
<1> SUFFICES ASSUME Init PROVE IInv
  OBVIOUS
<1>1. \A k \in Keys : Sound(buckets[k])
  BY UnknownBucket DEF Init
<1>2. buckets \in [Keys -> BucketType]
  BY UnknownBucket DEF Init, Sound
<1>3. Known = {}
  BY DEF Init, Known, NoBucket
<1>4. Cardinality(Known) <= MaxBuckets
  BY <1>3, FS_EmptySet, RateLimitAssumption
<1>5. calls \in 0..(SweepEvery - 1) /\ caller \in [Callers -> CallerType] /\ answer \in AnswerType
  BY RateLimitAssumption DEF Init, CallerType, Outside, AnswerType
<1> QED BY <1>1, <1>2, <1>4, <1>5 DEF IInv, TypeOK

LEMMA TickIInv == IInv /\ Tick => IInv'
<1> SUFFICES ASSUME IInv, Tick PROVE IInv'
  OBVIOUS
<1>1. buckets \in [Keys -> BucketType] /\ \A k \in Keys : Sound(buckets[k])
  BY DEF IInv, TypeOK
<1>2. ASSUME NEW k \in Keys PROVE Sound(buckets'[k]) /\ (buckets'[k].on <=> buckets[k].on)
  <2>1. CASE ~buckets[k].on
    BY <1>1, <2>1 DEF Tick
  <2>2. CASE buckets[k].on
    <3>1. buckets'[k] = [buckets[k] EXCEPT !.age = AtMost(MaxAge, buckets[k].age + 1)]
      BY <1>1, <2>2 DEF Tick
    <3>2. Sound(buckets'[k])
      BY <1>1, <2>2, <3>1, OlderBucket
    <3>3. buckets'[k].on = buckets[k].on
      BY <1>1, <3>1 DEF BucketType
    <3> QED BY <3>2, <3>3
  <2> QED BY <2>1, <2>2
<1>3. \A k \in Keys : Sound(buckets[k])'
  BY <1>2 DEF Sound, Worth
<1>4. Known' = Known
  BY <1>2 DEF Known
<1>5. buckets' \in [Keys -> BucketType]
  BY <1>2 DEF Tick, Sound
<1>6. caller' \in [Callers -> CallerType]
  <2>1. \A c \in Callers : caller'[c] \in CallerType
    BY RateLimitAssumption DEF Tick, IInv, TypeOK, CallerType
  <2> QED BY <2>1 DEF Tick
<1> QED BY <1>3, <1>4, <1>5, <1>6 DEF IInv, TypeOK, Tick

LEMMA AllowIInv ==
  ASSUME IInv, NEW c \in Callers, NEW k \in Keys, Allow(c, k)
  PROVE  IInv'
<1> DEFINE lag == caller[c].lag
           known == KnownAt(lag)
<1>1. lag \in 0..MaxLag
  BY DEF IInv, TypeOK, CallerType
<1>2. /\ known \in [Keys -> BucketType]
      /\ \A j \in Keys : Sound(known[j]) /\ (known[j].on => buckets[j].on)
  BY <1>1, KnownKeys
<1>3. Sound(Served(known[k], lag))
  BY <1>1, <1>2, ServedBucket
<1>4. \/ buckets' = known
      \/ /\ buckets' = [known EXCEPT ![k] = Served(known[k], lag)]
         /\ ~(~known[k].on /\ Cardinality(On(known)) >= MaxBuckets)
  BY DEF Allow, KnownAt, Served, Overloaded, On
<1>5. /\ caller' \in [Callers -> CallerType] /\ calls' \in 0..(SweepEvery - 1)
      /\ answer' \in AnswerType
  <2>1. calls \in Nat /\ SweepEvery \in Nat /\ SweepEvery >= 1
    BY RateLimitAssumption DEF IInv, TypeOK
  <2>2. (calls + 1) % SweepEvery \in 0..(SweepEvery - 1)
    BY <2>1
  <2>3. caller' \in [Callers -> CallerType]
    BY RateLimitAssumption DEF Allow, IInv, TypeOK, CallerType, Outside
  <2> QED BY <2>2, <2>3 DEF Allow, AnswerType, Verdicts
<1> HIDE DEF lag, known
<1>6. CASE buckets' = known
  <2>1. \A j \in Keys : Sound(buckets[j])'
    BY <1>2, <1>6 DEF Sound, Worth
  <2>2. IsFiniteSet(Known) /\ Known' \subseteq Known
    BY <1>2, <1>6, FS_Subset, RateLimitAssumption DEF Known
  <2>3. /\ Cardinality(Known') <= Cardinality(Known) /\ Cardinality(Known) \in Nat
        /\ Cardinality(Known') \in Nat
    BY <2>2, FS_Subset, FS_CardinalityType
  <2>4. Cardinality(Known') <= MaxBuckets
    BY <2>3, RateLimitAssumption DEF IInv, TypeOK
  <2>5. Cardinality(Known)' <= MaxBuckets
    BY <2>4
  <2> QED BY <1>2, <1>5, <1>6, <2>1, <2>5 DEF IInv, TypeOK
<1>7. CASE /\ buckets' = [known EXCEPT ![k] = Served(known[k], lag)]
           /\ ~(~known[k].on /\ Cardinality(On(known)) >= MaxBuckets)
  <2>1. buckets' \in [Keys -> BucketType]
    BY <1>2, <1>3, <1>7 DEF Sound
  <2>2. \A j \in Keys : Sound(buckets[j])'
    BY <1>2, <1>3, <1>7 DEF Sound, Worth
  <2>3. Cardinality(On(buckets')) <= MaxBuckets
    BY <1>2, <1>3, <1>7, MapBound DEF Sound
  <2>4. Cardinality(Known)' <= MaxBuckets
    BY <2>3 DEF Known, On
  <2> QED BY <1>5, <2>1, <2>2, <2>4 DEF IInv, TypeOK
<1> QED BY <1>4, <1>6, <1>7

LEMMA NextIInv == IInv /\ [Next]_vars => IInv'
<1> SUFFICES ASSUME IInv, [Next]_vars PROVE IInv'
  OBVIOUS
<1>1. CASE Tick
  BY <1>1, TickIInv
<1>2. ASSUME NEW c \in Callers, ReadClock(c) PROVE IInv'
  <2>1. caller' \in [Callers -> CallerType]
    BY <1>2 DEF ReadClock, IInv, TypeOK, CallerType
  <2> QED BY <1>2, <2>1 DEF ReadClock, IInv, TypeOK, Known, Sound, Worth
<1>3. ASSUME NEW c \in Callers, NEW k \in Keys, Allow(c, k) PROVE IInv'
  BY <1>3, AllowIInv
<1>4. CASE UNCHANGED vars
  BY <1>4 DEF vars, IInv, TypeOK, Known, Sound, Worth
<1> QED BY <1>1, <1>2, <1>3, <1>4 DEF Next

(* The types hold, and no spray of keys makes the map of the rate limiter    *)
(* grow past max_buckets.                                                    *)
THEOREM TypesHold == Spec => []TypeOK
<1>1. IInv => TypeOK
  BY DEF IInv
<1> QED BY <1>1, InitIInv, NextIInv, PTL DEF Spec

-----------------------------------------------------------------------------
(* The refinement                                                           *)

IdealLevel == [k \in Keys |-> Level(buckets[k])]

LEMMA InitIdeal == Init => Ideal!Init
<1> SUFFICES ASSUME Init PROVE Ideal!Init
  OBVIOUS
<1>1. \A k \in Keys : Level(buckets[k]) = Full
  BY UnknownBucket DEF Init
<1> QED BY <1>1 DEF Init, Ideal!Init, Ideal!Full, Full, NoAnswer, Ideal!NoAnswer

LEMMA TickIdeal == IInv /\ Tick => Ideal!Refill
<1> SUFFICES ASSUME IInv, Tick PROVE Ideal!Refill
  OBVIOUS
<1>1. buckets \in [Keys -> BucketType] /\ \A k \in Keys : Sound(buckets[k])
  BY DEF IInv, TypeOK
<1>2. ASSUME NEW k \in Keys
      PROVE  Level(buckets'[k]) = AtMost(Full, Level(buckets[k]) + Capacity)
  <2>1. CASE ~buckets[k].on
    <3>1. buckets'[k] = buckets[k] /\ Level(buckets[k]) = Full
      BY <1>1, <2>1 DEF Tick, Level
    <3> QED BY <3>1, Constants, RateLimitAssumption DEF AtMost
  <2>2. CASE buckets[k].on
    <3>1. buckets'[k] = [buckets[k] EXCEPT !.age = AtMost(MaxAge, buckets[k].age + 1)]
      BY <1>1, <2>2 DEF Tick
    <3> QED BY <1>1, <2>2, <3>1, OlderBucket
  <2> QED BY <2>1, <2>2
<1>3. \A k \in Keys : Level(buckets[k])' = AtMost(Full, Level(buckets[k]) + Capacity)
  BY <1>2 DEF Level, AtMost
<1> QED BY <1>3 DEF Ideal!Refill, Ideal!Full, Ideal!AtMost, Full, AtMost, Tick

LEMMA AllowIdeal ==
  ASSUME IInv, NEW c \in Callers, NEW k \in Keys, Allow(c, k)
  PROVE  Ideal!Next
<1> DEFINE lag == caller[c].lag
           known == KnownAt(lag)
           old(j) == Level(buckets[j])
           new(j) == Level(buckets'[j])
<1>1. lag \in 0..MaxLag
  BY DEF IInv, TypeOK, CallerType
<1>2. \A j \in Keys : Sound(buckets[j])
  BY DEF IInv
<1>3. /\ known \in [Keys -> BucketType]
      /\ \A j \in Keys : /\ Sound(known[j])
                         /\ \/ known[j] = buckets[j]
                            \/ Level(known[j]) = Full /\ old(j) >= Full - Slack
  BY <1>1, KnownKeys
<1>4. \A j \in Keys : old(j) \in 0..Full /\ Level(known[j]) \in 0..Full
  BY <1>2, <1>3, LevelRange
<1>5. \A j \in Keys : Level(known[j]) = old(j) \/ (Level(known[j]) = Full /\ old(j) >= Full - Slack)
  BY <1>3
<1>6. /\ Slack \in Nat /\ Full \in Nat /\ Window \in Nat /\ Full >= Window /\ Window >= 1
  BY Constants, RateLimitAssumption DEF Slack
<1>7. CASE Overloaded(k, known)
  <2>1. buckets' = known /\ answer' = [key |-> k, verdict |-> "overload"]
    BY <1>7 DEF Allow, KnownAt
  <2>2. ~known[k].on
    BY <1>7 DEF Overloaded
  <2>3. Level(known[k]) = Full
    BY <2>2 DEF Level
  <2>4. old(k) >= Full - Slack
    BY <1>4, <1>5, <1>6, <2>3
  <2>5. \A j \in Keys : new(j) = Level(known[j])
    BY <2>1
  <2>6. \A j \in Keys : new(j) = old(j) \/ (new(j) = Full /\ old(j) >= Full - Slack)
    BY <1>5, <2>5
  <2>7. \A j \in Keys : new(j) \in Int
    BY <1>4, <1>6, <2>5
  <2>8. \A j \in Keys : IdealLevel[j] = old(j) /\ IdealLevel'[j] = new(j)
    BY DEF IdealLevel, Level, AtMost
  <2> HIDE DEF old, new
  <2>9. Ideal!Overload(k)
    BY <2>1, <2>4, <2>6, <2>7, <2>8
    DEF Ideal!Overload, Ideal!Rounded, Ideal!Full, Ideal!Slack, Full, Slack, IdealLevel
  <2> QED BY <2>9 DEF Ideal!Next
<1>8. CASE ~Overloaded(k, known)
  <2>1. /\ buckets' = [known EXCEPT ![k] = Served(known[k], lag)]
        /\ answer' = [key |-> k, verdict |-> IF Tokens(known[k], lag) >= Window
                                             THEN "yes" ELSE "no"]
    BY <1>8 DEF Allow, KnownAt, Served
  <2>2. /\ Sound(Served(known[k], lag))
        /\ Tokens(known[k], lag) >= Window =>
             \/ Level(known[k]) >= Window /\ Level(Served(known[k], lag)) = Level(known[k]) - Window
             \/ /\ Level(known[k]) >= Full - Slack
                /\ Level(Served(known[k], lag))
                     \in (Full - Window)..AtMost(Full, Full - Window + Slack)
        /\ Tokens(known[k], lag) < Window =>
             /\ Level(known[k]) < Window + Slack
             /\ Level(Served(known[k], lag)) = Level(known[k])
    BY <1>1, <1>3, ServedBucket
  <2>3. \A j \in Keys \ {k} : new(j) = Level(known[j])
    BY <1>3, <2>1
  <2>4. new(k) = Level(Served(known[k], lag))
    BY <1>3, <2>1
  <2>5. new(k) \in 0..Full
    BY <2>2, <2>4, LevelRange
  <2>6. \A j \in Keys : new(j) \in Int
    BY <1>4, <1>6, <2>3, <2>5
  <2>7. \A j \in Keys \ {k} : new(j) = old(j) \/ (new(j) = Full /\ old(j) >= Full - Slack)
    BY <1>5, <2>3
  <2>8. \A j \in Keys : IdealLevel[j] = old(j) /\ IdealLevel'[j] = new(j)
    BY DEF IdealLevel, Level, AtMost
  <2>9. Tokens(known[k], lag) \in Int
    BY <1>1, <1>3, <1>6, TokensAtLag
  <2>10. CASE Tokens(known[k], lag) >= Window
    <3>1. answer' = [key |-> k, verdict |-> "yes"]
      BY <2>1, <2>10
    <3>2. \/ old(k) >= Window /\ new(k) = old(k) - Window
          \/ /\ old(k) >= Full - Slack
             /\ new(k) \in (Full - Window)..AtMost(Full, Full - Window + Slack)
      BY <1>4, <1>5, <1>6, <2>2, <2>4, <2>10 DEF AtMost
    <3> HIDE DEF old, new
    <3>3. Ideal!Admit(k)
      BY <2>6, <2>7, <2>8, <3>1, <3>2
      DEF Ideal!Admit, Ideal!Rounded, Ideal!Full, Ideal!Slack, Ideal!AtMost, AtMost, Full, Slack,
          IdealLevel
    <3> QED BY <3>3 DEF Ideal!Next
  <2>11. CASE Tokens(known[k], lag) < Window
    <3>1. answer' = [key |-> k, verdict |-> "no"]
      BY <2>1, <2>9, <2>11, <1>6
    <3>2. old(k) < Window + Slack
      BY <1>4, <1>5, <1>6, <2>2, <2>11
    <3>3. \A j \in Keys : new(j) = old(j) \/ (new(j) = Full /\ old(j) >= Full - Slack)
      BY <1>5, <2>2, <2>4, <2>7, <2>11
    <3> HIDE DEF old, new
    <3>4. Ideal!Refuse(k)
      BY <2>6, <2>8, <3>1, <3>2, <3>3
      DEF Ideal!Refuse, Ideal!Rounded, Ideal!Full, Ideal!Slack, Full, Slack, IdealLevel
    <3> QED BY <3>4 DEF Ideal!Next
  <2> QED BY <1>6, <2>9, <2>10, <2>11
<1> QED BY <1>7, <1>8

LEMMA NextIdeal == IInv /\ [Next]_vars => [Ideal!Next]_(Ideal!bucketVars)
<1> SUFFICES ASSUME IInv, [Next]_vars PROVE [Ideal!Next]_(Ideal!bucketVars)
  OBVIOUS
<1>1. CASE Tick
  BY <1>1, TickIdeal DEF Ideal!Next
<1>2. ASSUME NEW c \in Callers, ReadClock(c) PROVE UNCHANGED Ideal!bucketVars
  BY <1>2 DEF ReadClock, Ideal!bucketVars, Level
<1>3. ASSUME NEW c \in Callers, NEW k \in Keys, Allow(c, k) PROVE Ideal!Next
  BY <1>3, AllowIdeal
<1>4. CASE UNCHANGED vars
  BY <1>4 DEF vars, Ideal!bucketVars, Level
<1> QED BY <1>1, <1>2, <1>3, <1>4 DEF Next

(* The rate limiter's map of buckets, with its bound, its sweep and callers  *)
(* whose clocks are behind, implements a bucket per key that is never        *)
(* dropped (RateLimiter.allow).                                              *)
THEOREM RefinesBuckets == Spec => Implements
  BY InitIInv, NextIInv, InitIdeal, NextIdeal, PTL DEF Spec, Implements, Ideal!Spec
=============================================================================
