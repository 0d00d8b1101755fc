----------------------------- MODULE TokenBucket ----------------------------
(***************************************************************************)
(* What a rate limiter promises: every key has a bucket of its own, which   *)
(* holds Capacity requests and refills over Window.  The clock a decision   *)
(* is based on may be up to MaxLag behind.                                  *)
(***************************************************************************)
EXTENDS Integers

CONSTANTS
  Keys,
  Capacity, \* requests per Window, and the burst
  Window,   \* time in which an empty bucket refills; the worth of a request
  MaxLag

VARIABLES
  level,    \* per key
  answer    \* the last decision

bucketVars == <<level, answer>>

-----------------------------------------------------------------------------
AtMost(x, y) == IF x <= y THEN x ELSE y
Full == Capacity * Window
Slack == MaxLag * Capacity

NoAnswer == [key |-> "none", verdict |-> "none"]

Init ==
  /\ level = [k \in Keys |-> Full]
  /\ answer = NoAnswer

(* Time passes                                                               *)
Refill ==
  /\ level' = [k \in Keys |-> AtMost(Full, level[k] + Capacity)]
  /\ UNCHANGED answer

(* Buckets that would be full but for the lag may count as full              *)
Rounded(old, new) == new = old \/ (new = Full /\ old >= Full - Slack)

(* A request is admitted for what it is worth; one of a key with a full      *)
(* bucket may date back by the lag                                           *)
Admit(k) ==
  /\ answer' = [key |-> k, verdict |-> "yes"]
  /\ level' \in [Keys -> Int]
  /\ \A j \in Keys \ {k} : Rounded(level[j], level'[j])
  /\ \/ level[k] >= Window /\ level'[k] = level[k] - Window
     \/ /\ level[k] >= Full - Slack
        /\ level'[k] \in (Full - Window)..AtMost(Full, Full - Window + Slack)

(* A request is refused for lack of a token                                  *)
Refuse(k) ==
  /\ level[k] < Window + Slack
  /\ answer' = [key |-> k, verdict |-> "no"]
  /\ level' \in [Keys -> Int]
  /\ \A j \in Keys : Rounded(level[j], level'[j])

(* A request of a key that is not known is refused for lack of memory        *)
Overload(k) ==
  /\ level[k] >= Full - Slack
  /\ answer' = [key |-> k, verdict |-> "overload"]
  /\ level' \in [Keys -> Int]
  /\ \A j \in Keys : Rounded(level[j], level'[j])

Next == Refill \/ \E k \in Keys : Admit(k) \/ Refuse(k) \/ Overload(k)

Spec == Init /\ [][Next]_bucketVars
=============================================================================
