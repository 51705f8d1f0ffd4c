------------------------------ MODULE TokenBucket ------------------------------
(*****************************************************************************)
(* What the rate limiter of Register and Login promises: every key has one   *)
(* token bucket, for ever.  A bucket holds at most Burst tokens, gains one   *)
(* every Interval ticks, and a call is granted exactly when it can take one. *)
(*                                                                           *)
(* Levels are counted in ticks of refill: a token is worth Interval.         *)
(*                                                                           *)
(* One observer counts the grants of a key since a moment of its choosing;   *)
(* no action depends on it.                                                  *)
(*****************************************************************************)
EXTENDS Naturals

CONSTANTS
  Keys,      \* what calls are counted by
  Calls,     \* the calls that may be in progress together
  Burst,     \* capacity of a bucket, in tokens
  Interval,  \* ticks it takes to gain a token
  MaxWatch   \* bound: the ticks an observation lasts

VARIABLES
  level,    \* level[k]: what the bucket of k holds
  verdict,  \* verdict[c]: the answer to call c, "none" before it is given
  watch     \* the observed key, the age of the observation and its grants

bucketVars == <<level, verdict, watch>>

Full == Burst * Interval

Verdicts == {"none", "granted", "denied"}

\* An observation of k that starts now.
Watch(k) == [key |-> k, age |-> 0, granted |-> 0]

\* The observation w, one tick later: a new one when it has lasted MaxWatch.
Older(w) ==
  IF w.age < MaxWatch THEN [w EXCEPT !.age = w.age + 1] ELSE Watch(w.key)

\* The observation w when k has been granted a call.
Counted(w, k) == IF w.key = k THEN [w EXCEPT !.granted = w.granted + 1] ELSE w

\* One tick of refill.
Refilled(n) == IF n < Full THEN n + 1 ELSE n

BucketInit ==
  /\ level = [k \in Keys |-> Full]
  /\ verdict = [c \in Calls |-> "none"]
  /\ \E k \in Keys : watch = Watch(k)

Ask(c) ==
  /\ verdict' = [verdict EXCEPT ![c] = "none"]
  /\ UNCHANGED <<level, watch>>

Grant(c, k) ==
  /\ level[k] >= Interval
  /\ level' = [level EXCEPT ![k] = level[k] - Interval]
  /\ verdict' = [verdict EXCEPT ![c] = "granted"]
  /\ watch' = Counted(watch, k)

Deny(c, k) ==
  /\ level[k] < Interval
  /\ verdict' = [verdict EXCEPT ![c] = "denied"]
  /\ UNCHANGED <<level, watch>>

TimePasses ==
  /\ level' = [k \in Keys |-> Refilled(level[k])]
  /\ watch' = Older(watch)
  /\ UNCHANGED verdict

Observe(k) ==
  /\ watch' = Watch(k)
  /\ UNCHANGED <<level, verdict>>

BucketNext ==
  \/ \E c \in Calls : Ask(c)
  \/ \E c \in Calls, k \in Keys : Grant(c, k) \/ Deny(c, k)
  \/ TimePasses
  \/ \E k \in Keys : Observe(k)

BucketSpec == BucketInit /\ [][BucketNext]_bucketVars

(* Whenever one starts to count, a key is granted no more calls in t ticks   *)
(* than its burst and what t ticks refill: "limitPerMinute controls allowed  *)
(* events per minute; burst is the burst capacity" (ratelimit.go:32).        *)
WindowBound == watch.granted * Interval <= Full + watch.age
================================================================================
