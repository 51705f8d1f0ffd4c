---------------------------- MODULE RateLimitProofs ----------------------------
(*****************************************************************************)
(* Proofs about RateLimit, for every set of keys and calls, every rate and   *)
(* every burst: RateInv is an invariant, a key is never granted more than    *)
(* its burst and refill, and the store with its evictions implements the     *)
(* bucket per key of TokenBucket.                                            *)
(*                                                                           *)
(* There is one lemma per action.  It shows that the action preserves        *)
(* RateInv and which action of TokenBucket, if any, it stands for.           *)
(*****************************************************************************)
EXTENDS RateLimit, TLAPS

LEMMA RateFacts ==
  /\ Full \in Nat
  /\ B!Full = Full
  /\ Interval \in Nat \ {0}
  /\ CleanupInterval \in Nat \ {0}
  /\ IdleTime \in Nat
  /\ MaxDelay \in Nat
  /\ MaxIdle \in Nat
  /\ MaxIdle = IdleTime + MaxDelay + 1
  /\ MaxWatch \in Nat
  /\ NoLimiter \notin Limiters
  /\ Full + MaxDelay <= IdleTime
  /\ \A r \in Requests : KeyOf(r) \in Keys
<1>1. Burst \in Nat /\ Interval \in Nat
  BY RateAssumption
<1>2. Burst * Interval \in Nat
  BY <1>1
<1> QED
  BY RateAssumption, <1>2 DEF Full, B!Full, MaxIdle, Keys

\* What the type invariant says of a call in progress.
LEMMA PendingTyped ==
  ASSUME RateTypeOK, NEW c \in Calls, InProgress(c)
  PROVE  /\ call[c] \in Pending
         /\ call[c].req \in Requests
         /\ call[c].lim \in Limiters
         /\ call[c].age \in 0 .. MaxDelay
         /\ KeyOf(call[c].req) \in Keys
BY RateFacts DEF RateTypeOK, InProgress, NoCall, Pending

\* The levels of the abstract buckets.
LEMMA LevelTyped ==
  ASSUME RateTypeOK
  PROVE  /\ Level \in [Keys -> 0 .. Full]
         /\ \A k \in Keys : Level[k] = IF Known(k) THEN credit[entry[k]] ELSE Full
BY RateFacts DEF RateTypeOK, Level, Known

LEMMA LevelSame ==
  ASSUME UNCHANGED <<entry, credit>>
  PROVE  Level' = Level
BY DEF Level

LEMMA InitRateInv == RateInit => RateInv /\ B!BucketInit
<1> SUFFICES ASSUME RateInit PROVE RateInv /\ B!BucketInit
  OBVIOUS
<1>1. PICK w \in Keys : watch = B!Watch(w)
  BY DEF RateInit
<1>2. RateTypeOK
  <2>1. watch \in [key : Keys, age : 0 .. MaxWatch, granted : Nat]
    BY <1>1, RateFacts DEF B!Watch
  <2>2. /\ entry \in [Keys -> Limiters \cup {NoLimiter}]
        /\ idle \in [Keys -> 0 .. MaxIdle]
        /\ credit \in [Limiters -> 0 .. Full]
        /\ call \in [Calls -> {NoCall} \cup Pending]
        /\ verdict \in [Calls -> B!Verdicts]
    BY RateFacts DEF RateInit, B!Verdicts
  <2>3. phase \in 0 .. CleanupInterval - 1
    BY RateFacts DEF RateInit
  <2> QED
    BY <2>1, <2>2, <2>3 DEF RateInit, RateTypeOK
<1>3. Level = [k \in Keys |-> Full]
  BY DEF RateInit, Level
<1>4. HoldsCurrent /\ OwnLimiter /\ Recovers
  BY DEF RateInit, HoldsCurrent, OwnLimiter, Recovers, InProgress, NoCall, Known
<1>5. Accounted
  <2>1. watch.granted = 0 /\ watch.age = 0 /\ watch.key = w
    BY <1>1 DEF B!Watch
  <2>2. Level[watch.key] = Full
    BY <1>3, <2>1
  <2>3. 0 * Interval = 0
    BY RateFacts
  <2> QED
    BY <2>1, <2>2, <2>3, RateFacts DEF Accounted
<1>6. B!BucketInit
  BY <1>3, RateFacts DEF RateInit, B!BucketInit
<1> QED
  BY <1>2, <1>4, <1>5, <1>6 DEF RateInv

\* Steps that move only the loop, or nothing.
LEMMA LoopStep ==
  ASSUME RateInv, RateTypeOK', UNCHANGED <<store, call, verdict, watch>>
  PROVE  RateInv' /\ UNCHANGED B!bucketVars
<1>1. UNCHANGED <<entry, idle, credit>>
  BY DEF store
<1>2. Level' = Level
  BY <1>1, LevelSame
<1>3. HoldsCurrent' /\ OwnLimiter' /\ Recovers'
  BY <1>1 DEF RateInv, HoldsCurrent, OwnLimiter, Recovers, InProgress, Known
<1>4. Accounted'
  BY <1>2 DEF RateInv, Accounted
<1> QED
  BY <1>2, <1>3, <1>4 DEF RateInv, B!bucketVars

\* The key has an entry: the bucket is left alone.
LEMMA ReuseStep ==
  ASSUME RateInv, NEW c \in Calls, NEW r \in Requests,
         getLimiter(c, r), Reuse(c, r)
  PROVE  RateInv' /\ B!Ask(c)
<1> DEFINE k == KeyOf(r)
<1>1. /\ k \in Keys
      /\ Known(k)
      /\ entry[k] \in Limiters
      /\ UNCHANGED <<entry, credit, phase, ticked, sweep, stopped, watch>>
      /\ call' = [call EXCEPT ![c] =
           [pc |-> "allow", req |-> r, lim |-> entry[k], age |-> 0]]
      /\ idle' = [idle EXCEPT ![k] = 0]
      /\ verdict' = [verdict EXCEPT ![c] = "none"]
  BY RateFacts DEF RateInv, RateTypeOK, getLimiter, Reuse, Fetch, Known, loop
<1>2. RateTypeOK'
  <2>1. [pc |-> "allow", req |-> r, lim |-> entry[k], age |-> 0] \in Pending
    BY <1>1, RateFacts DEF Pending
  <2>2. call' \in [Calls -> {NoCall} \cup Pending]
    BY <1>1, <2>1 DEF RateInv, RateTypeOK
  <2>3. idle' \in [Keys -> 0 .. MaxIdle]
    BY <1>1, RateFacts DEF RateInv, RateTypeOK
  <2> QED
    BY <1>1, <2>2, <2>3 DEF RateInv, RateTypeOK, B!Verdicts
<1>3. HoldsCurrent'
  <2> SUFFICES ASSUME NEW d \in Calls, InProgress(d)'
               PROVE  /\ entry[KeyOf(call'[d].req)] = call'[d].lim
                      /\ idle'[KeyOf(call'[d].req)] <= call'[d].age
    BY <1>1 DEF HoldsCurrent
  <2>1. CASE d = c
    <3>1. call'[d] = [pc |-> "allow", req |-> r, lim |-> entry[k], age |-> 0]
      BY <1>1, <2>1 DEF RateInv, RateTypeOK
    <3>2. idle'[k] = 0
      BY <1>1 DEF RateInv, RateTypeOK
    <3> QED
      BY <3>1, <3>2
  <2>2. CASE d # c
    <3>1. call'[d] = call[d] /\ InProgress(d)
      BY <1>1, <2>2 DEF RateInv, RateTypeOK, InProgress
    <3>2. call[d].age \in 0 .. MaxDelay /\ KeyOf(call[d].req) \in Keys
      BY <3>1, PendingTyped DEF RateInv
    <3>3. idle'[KeyOf(call[d].req)] \in {0, idle[KeyOf(call[d].req)]}
      BY <1>1, <3>2 DEF RateInv, RateTypeOK
    <3>4. /\ entry[KeyOf(call[d].req)] = call[d].lim
          /\ idle[KeyOf(call[d].req)] <= call[d].age
      BY <3>1 DEF RateInv, HoldsCurrent
    <3> QED
      BY <3>1, <3>2, <3>3, <3>4, RateFacts
  <2> QED
    BY <2>1, <2>2
<1>4. OwnLimiter'
  BY <1>1 DEF RateInv, OwnLimiter, Known
<1>5. Recovers'
  <2> SUFFICES ASSUME NEW j \in Keys, Known(j)
               PROVE  \/ credit[entry[j]] = Full
                      \/ idle'[j] <= credit[entry[j]] + MaxDelay
    BY <1>1 DEF Recovers, Known
  <2>1. idle'[j] \in {0, idle[j]} /\ idle[j] \in 0 .. MaxIdle
    BY <1>1 DEF RateInv, RateTypeOK
  <2>2. credit[entry[j]] \in 0 .. Full
    BY DEF RateInv, RateTypeOK, Known
  <2>3. credit[entry[j]] = Full \/ idle[j] <= credit[entry[j]] + MaxDelay
    BY DEF RateInv, Recovers
  <2> QED
    BY <2>1, <2>2, <2>3, RateFacts
<1>6. Level' = Level
  BY <1>1, LevelSame
<1>7. Accounted'
  BY <1>1, <1>6 DEF RateInv, Accounted
<1> QED
  BY <1>1, <1>2, <1>3, <1>4, <1>5, <1>6, <1>7 DEF RateInv, B!Ask

\* A key without an entry gets a limiter nobody else can reach.
LEMMA CreateStep ==
  ASSUME RateInv, NEW c \in Calls, NEW r \in Requests,
         getLimiter(c, r), Create(c, r)
  PROVE  RateInv' /\ B!Ask(c)
<1> DEFINE k == KeyOf(r)
<1>1. PICK l \in Limiters :
        /\ Unused(l)
        /\ call' = [call EXCEPT ![c] =
             [pc |-> "allow", req |-> r, lim |-> l, age |-> 0]]
        /\ entry' = [entry EXCEPT ![k] = l]
        /\ credit' = [credit EXCEPT ![l] = Full]
        /\ idle' = [idle EXCEPT ![k] = 0]
  BY DEF Create, Fetch
<1>2. /\ k \in Keys
      /\ entry[k] = NoLimiter
      /\ l # NoLimiter
      /\ UNCHANGED <<phase, ticked, sweep, stopped, watch>>
      /\ verdict' = [verdict EXCEPT ![c] = "none"]
  BY RateFacts DEF getLimiter, Create, Known, loop
<1>3. /\ \A j \in Keys : entry'[j] = IF j = k THEN l ELSE entry[j]
      /\ \A j \in Keys : idle'[j] = IF j = k THEN 0 ELSE idle[j]
      /\ \A m \in Limiters : credit'[m] = IF m = l THEN Full ELSE credit[m]
      /\ \A j \in Keys : entry[j] # l
      /\ \A j \in Keys : entry[j] # NoLimiter => entry[j] \in Limiters
  BY <1>1, <1>2 DEF RateInv, RateTypeOK, Unused
<1>4. RateTypeOK'
  <2>1. [pc |-> "allow", req |-> r, lim |-> l, age |-> 0] \in Pending
    BY RateFacts DEF Pending
  <2>2. call' \in [Calls -> {NoCall} \cup Pending]
    BY <1>1, <2>1 DEF RateInv, RateTypeOK
  <2>3. /\ idle' \in [Keys -> 0 .. MaxIdle]
        /\ credit' \in [Limiters -> 0 .. Full]
        /\ entry' \in [Keys -> Limiters \cup {NoLimiter}]
    BY <1>1, <1>2, RateFacts DEF RateInv, RateTypeOK
  <2> QED
    BY <1>2, <2>2, <2>3 DEF RateInv, RateTypeOK, B!Verdicts
<1>5. HoldsCurrent'
  <2> SUFFICES ASSUME NEW d \in Calls, InProgress(d)'
               PROVE  /\ entry'[KeyOf(call'[d].req)] = call'[d].lim
                      /\ idle'[KeyOf(call'[d].req)] <= call'[d].age
    BY DEF HoldsCurrent
  <2>1. CASE d = c
    <3>1. call'[d] = [pc |-> "allow", req |-> r, lim |-> l, age |-> 0]
      BY <1>1, <2>1 DEF RateInv, RateTypeOK
    <3> QED
      BY <3>1, <1>2, <1>3
  <2>2. CASE d # c
    <3>1. call'[d] = call[d] /\ InProgress(d)
      BY <1>1, <2>2 DEF RateInv, RateTypeOK, InProgress
    <3>2. call[d].lim \in Limiters /\ KeyOf(call[d].req) \in Keys
      BY <3>1, PendingTyped DEF RateInv
    <3>3. /\ entry[KeyOf(call[d].req)] = call[d].lim
          /\ idle[KeyOf(call[d].req)] <= call[d].age
      BY <3>1 DEF RateInv, HoldsCurrent
    <3>4. KeyOf(call[d].req) # k
      BY <3>2, <3>3, <1>2, RateFacts
    <3> QED
      BY <3>1, <3>2, <3>3, <3>4, <1>3
  <2> QED
    BY <2>1, <2>2
<1>6. OwnLimiter'
  BY <1>3 DEF RateInv, OwnLimiter, Known
<1>7. Recovers'
  <2> SUFFICES ASSUME NEW j \in Keys, entry'[j] # NoLimiter
               PROVE  \/ credit'[entry'[j]] = Full
                      \/ idle'[j] <= credit'[entry'[j]] + MaxDelay
    BY DEF Recovers, Known
  <2>1. CASE j = k
    BY <2>1, <1>3
  <2>2. CASE j # k
    <3>1. /\ entry'[j] = entry[j] /\ idle'[j] = idle[j]
          /\ credit'[entry[j]] = credit[entry[j]]
          /\ Known(j)
      BY <2>2, <1>3 DEF Known
    <3> QED
      BY <3>1 DEF RateInv, Recovers
  <2> QED
    BY <2>1, <2>2
<1>8. Level' = Level
  <2>1. \A j \in Keys : (IF entry'[j] = NoLimiter THEN Full ELSE credit'[entry'[j]])
                        = (IF entry[j] = NoLimiter THEN Full ELSE credit[entry[j]])
    BY <1>2, <1>3
  <2> QED
    BY <2>1 DEF Level
<1>9. Accounted'
  BY <1>2, <1>8 DEF RateInv, Accounted
<1> QED
  BY <1>2, <1>4, <1>5, <1>6, <1>7, <1>8, <1>9 DEF RateInv, B!Ask

\* What a call that ends leaves to the others.
LEMMA CallEnds ==
  ASSUME RateInv, NEW c \in Calls, Allow(c)
  PROVE  /\ call' \in [Calls -> {NoCall} \cup Pending]
         /\ HoldsCurrent'
<1>1. call' = [call EXCEPT ![c] = NoCall] /\ UNCHANGED <<entry, idle>>
  BY DEF Allow
<1>2. call' \in [Calls -> {NoCall} \cup Pending]
  BY <1>1 DEF RateInv, RateTypeOK
<1>3. \A d \in Calls : InProgress(d)' => call'[d] = call[d] /\ InProgress(d)
  BY <1>1 DEF RateInv, RateTypeOK, InProgress, NoCall
<1> QED
  BY <1>1, <1>2, <1>3 DEF RateInv, HoldsCurrent

\* A token is taken from the bucket of the call's key, and from no other.
LEMMA AllowedStep ==
  ASSUME RateInv, NEW c \in Calls, Allow(c), Allowed(c)
  PROVE  RateInv' /\ B!Grant(c, KeyOf(call[c].req))
<1> DEFINE k == KeyOf(call[c].req)
           l == call[c].lim
<1>1. /\ InProgress(c)
      /\ credit[l] >= Interval
      /\ credit' = [credit EXCEPT ![l] = credit[l] - Interval]
      /\ verdict' = [verdict EXCEPT ![c] = "granted"]
      /\ watch' = B!Counted(watch, k)
      /\ UNCHANGED <<entry, idle, phase, ticked, sweep, stopped>>
  BY DEF Allow, Allowed, loop
<1>2. /\ k \in Keys /\ l \in Limiters /\ entry[k] = l
      /\ idle[k] <= MaxDelay
  <2>1. /\ k \in Keys /\ l \in Limiters
        /\ call[c].age \in 0 .. MaxDelay
    BY <1>1, PendingTyped DEF RateInv
  <2>2. entry[k] = l /\ idle[k] <= call[c].age
    BY <1>1 DEF RateInv, HoldsCurrent
  <2>3. idle[k] \in 0 .. MaxIdle
    BY <2>1 DEF RateInv, RateTypeOK
  <2> QED
    BY <2>1, <2>2, <2>3, RateFacts
<1>3. /\ credit[l] \in Int /\ credit[l] <= Full /\ Interval \in Nat
      /\ credit[l] - Interval \in 0 .. Full
      /\ l # NoLimiter
  BY <1>1, <1>2, RateFacts DEF RateInv, RateTypeOK
<1>4. /\ credit' \in [Limiters -> 0 .. Full]
      /\ \A m \in Limiters :
           credit'[m] = IF m = l THEN credit[l] - Interval ELSE credit[m]
  BY <1>1, <1>3 DEF RateInv, RateTypeOK
<1>5. \A j \in Keys : entry[j] = l => j = k
  BY <1>2, <1>3 DEF RateInv, OwnLimiter, Known
<1>6. Level' = [Level EXCEPT ![k] = Level[k] - Interval]
  <2>1. \A j \in Keys :
          (IF entry'[j] = NoLimiter THEN Full ELSE credit'[entry'[j]])
          = IF j = k THEN Level[k] - Interval ELSE Level[j]
    <3> TAKE j \in Keys
    <3>1. entry'[j] = entry[j] /\ entry[j] \in Limiters \cup {NoLimiter}
      BY <1>1 DEF RateInv, RateTypeOK
    <3>2. /\ Level[k] = credit[l]
          /\ Level[j] = IF entry[j] = NoLimiter THEN Full ELSE credit[entry[j]]
      BY <1>2, <1>3, LevelTyped DEF RateInv, Known
    <3> QED
      BY <3>1, <3>2, <1>2, <1>3, <1>4, <1>5
  <2> QED
    BY <2>1 DEF Level
<1>7. B!Grant(c, k)
  <2>1. Level[k] = credit[l]
    BY <1>2, <1>3, LevelTyped DEF RateInv, Known
  <2> QED
    BY <1>1, <1>6, <2>1 DEF B!Grant
<1>8. watch' \in [key : Keys, age : 0 .. MaxWatch, granted : Nat]
  BY <1>1 DEF RateInv, RateTypeOK, B!Counted
<1>9. RateTypeOK'
  <2>1. verdict' \in [Calls -> B!Verdicts]
    BY <1>1 DEF RateInv, RateTypeOK, B!Verdicts
  <2> QED
    BY <1>1, <1>4, <1>8, <2>1, CallEnds DEF RateInv, RateTypeOK
<1>10. OwnLimiter'
  BY <1>1 DEF RateInv, OwnLimiter, Known
<1>11. Recovers'
  <2> SUFFICES ASSUME NEW j \in Keys, Known(j)
               PROVE  \/ credit'[entry[j]] = Full
                      \/ idle[j] <= credit'[entry[j]] + MaxDelay
    BY <1>1 DEF Recovers, Known
  <2>1. entry[j] \in Limiters
    BY DEF RateInv, RateTypeOK, Known
  <2>2. CASE j = k
    BY <2>2, <1>2, <1>3, <1>4, RateFacts DEF RateInv, RateTypeOK
  <2>3. CASE j # k
    <3>1. credit'[entry[j]] = credit[entry[j]]
      BY <2>1, <2>3, <1>4, <1>5
    <3> QED
      BY <3>1 DEF RateInv, Recovers
  <2> QED
    BY <2>2, <2>3
<1>12. Accounted'
  <2> DEFINE g == watch.granted
  <2>1. /\ g \in Nat /\ watch.age \in Nat /\ watch.key \in Keys
        /\ Level \in [Keys -> 0 .. Full]
        /\ g * Interval + Level[watch.key] <= Full + watch.age
    BY LevelTyped, RateFacts DEF RateInv, RateTypeOK, Accounted
  <2>2. CASE watch.key = k
    <3>1. /\ watch'.granted = g + 1 /\ watch'.age = watch.age
          /\ watch'.key = k
      BY <1>1, <2>2 DEF B!Counted, RateInv, RateTypeOK
    <3>2. Level'[k] = Level[k] - Interval
      BY <1>2, <1>6, <2>1
    <3>3. (g + 1) * Interval = g * Interval + Interval
      BY <2>1, <1>3
    <3>4. g * Interval \in Int /\ Level[k] \in Int
      BY <2>1, <1>2, <1>3
    <3>5. g * Interval + Interval + (Level[k] - Interval) <= Full + watch.age
      BY <2>1, <2>2, <3>4, <1>3, RateFacts
    <3> QED
      BY <3>1, <3>2, <3>3, <3>5 DEF Accounted
  <2>3. CASE watch.key # k
    <3>1. watch' = watch
      BY <1>1, <2>3 DEF B!Counted
    <3>2. Level'[watch.key] = Level[watch.key]
      BY <1>6, <2>1, <2>3
    <3> QED
      BY <2>1, <3>1, <3>2 DEF Accounted
  <2> QED
    BY <2>2, <2>3
<1> QED
  BY <1>7, <1>9, <1>10, <1>11, <1>12, CallEnds DEF RateInv

\* A refused call takes nothing.
LEMMA DeniedStep ==
  ASSUME RateInv, NEW c \in Calls, Allow(c), Denied(c)
  PROVE  RateInv' /\ B!Deny(c, KeyOf(call[c].req))
<1> DEFINE k == KeyOf(call[c].req)
<1>1. /\ InProgress(c)
      /\ credit[call[c].lim] < Interval
      /\ verdict' = [verdict EXCEPT ![c] = "denied"]
      /\ UNCHANGED <<entry, idle, credit, phase, ticked, sweep, stopped, watch>>
  BY DEF Allow, Denied, loop
<1>2. Level' = Level
  BY <1>1, LevelSame
<1>3. Level[k] = credit[call[c].lim]
  <2>1. k \in Keys /\ call[c].lim \in Limiters /\ entry[k] = call[c].lim
    BY <1>1, PendingTyped DEF RateInv, HoldsCurrent
  <2> QED
    BY <2>1, LevelTyped, RateFacts DEF RateInv, Known
<1>4. B!Deny(c, k)
  BY <1>1, <1>2, <1>3 DEF B!Deny
<1>5. RateTypeOK'
  <2>1. verdict' \in [Calls -> B!Verdicts]
    BY <1>1 DEF RateInv, RateTypeOK, B!Verdicts
  <2> QED
    BY <1>1, <2>1, CallEnds DEF RateInv, RateTypeOK
<1>6. OwnLimiter' /\ Recovers'
  BY <1>1 DEF RateInv, OwnLimiter, Recovers, Known
<1>7. Accounted'
  BY <1>1, <1>2 DEF RateInv, Accounted
<1> QED
  BY <1>4, <1>5, <1>6, <1>7, CallEnds DEF RateInv

\* An entry is only deleted when its bucket is full and no call is using it.
LEMMA CleanupStep ==
  ASSUME RateInv, Cleanup
  PROVE  RateInv' /\ UNCHANGED B!bucketVars
<1>1. /\ sweep.pc = "sweep"
      /\ sweep' = Waiting
      /\ entry' = [k \in Keys |-> IF Stale(k) THEN NoLimiter ELSE entry[k]]
      /\ idle' = [k \in Keys |-> IF Stale(k) THEN 0 ELSE idle[k]]
      /\ UNCHANGED <<credit, call, verdict, phase, ticked, stopped, watch>>
  BY DEF Cleanup
<1>2. sweep.age \in Nat
  BY <1>1, RateFacts DEF RateInv, RateTypeOK, Sweeping, Waiting, Ended
<1>3. \A k \in Keys : Stale(k) => /\ entry[k] \in Limiters
                                 /\ credit[entry[k]] = Full
                                 /\ idle[k] > MaxDelay
  <2> SUFFICES ASSUME NEW k \in Keys, Stale(k)
               PROVE  /\ entry[k] \in Limiters
                      /\ credit[entry[k]] = Full
                      /\ idle[k] > MaxDelay
    OBVIOUS
  <2>1. entry[k] \in Limiters /\ idle[k] \in Nat /\ idle[k] > IdleTime
    BY <1>2, RateFacts DEF RateInv, RateTypeOK, Stale, Known
  <2>2. credit[entry[k]] \in 0 .. Full
    BY <2>1 DEF RateInv, RateTypeOK
  <2>3. credit[entry[k]] = Full \/ idle[k] <= credit[entry[k]] + MaxDelay
    BY DEF RateInv, Recovers, Stale
  <2> QED
    BY <2>1, <2>2, <2>3, RateFacts
<1>4. Level' = Level
  <2>1. \A k \in Keys : (IF entry'[k] = NoLimiter THEN Full ELSE credit'[entry'[k]])
                        = (IF entry[k] = NoLimiter THEN Full ELSE credit[entry[k]])
    BY <1>1, <1>3, RateFacts
  <2> QED
    BY <2>1 DEF Level
<1>5. RateTypeOK'
  <2>1. /\ entry' \in [Keys -> Limiters \cup {NoLimiter}]
        /\ idle' \in [Keys -> 0 .. MaxIdle]
    BY <1>1, RateFacts DEF RateInv, RateTypeOK
  <2> QED
    BY <1>1, <2>1 DEF RateInv, RateTypeOK
<1>6. HoldsCurrent'
  <2> SUFFICES ASSUME NEW c \in Calls, InProgress(c)
               PROVE  /\ entry'[KeyOf(call[c].req)] = call[c].lim
                      /\ idle'[KeyOf(call[c].req)] <= call[c].age
    BY <1>1 DEF HoldsCurrent, InProgress
  <2>1. KeyOf(call[c].req) \in Keys /\ call[c].age \in 0 .. MaxDelay
    BY PendingTyped DEF RateInv
  <2>2. /\ entry[KeyOf(call[c].req)] = call[c].lim
        /\ idle[KeyOf(call[c].req)] <= call[c].age
    BY DEF RateInv, HoldsCurrent
  <2>3. idle[KeyOf(call[c].req)] \in 0 .. MaxIdle
    BY <2>1 DEF RateInv, RateTypeOK
  <2>4. ~Stale(KeyOf(call[c].req))
    BY <1>3, <2>1, <2>2, <2>3, RateFacts
  <2> QED
    BY <1>1, <2>1, <2>2, <2>4
<1>7. OwnLimiter'
  BY <1>1 DEF RateInv, OwnLimiter, Known
<1>8. Recovers'
  BY <1>1 DEF RateInv, Recovers, Known
<1>9. Accounted'
  BY <1>1, <1>4 DEF RateInv, Accounted
<1> QED
  BY <1>1, <1>4, <1>5, <1>6, <1>7, <1>8, <1>9 DEF RateInv, B!bucketVars

\* Refill moves a level up by at most one, and never past Full.
LEMMA RefillFacts ==
  ASSUME NEW n \in 0 .. Full
  PROVE  /\ B!Refilled(n) \in 0 .. Full
         /\ n < Full => B!Refilled(n) = n + 1
         /\ n = Full => B!Refilled(n) = Full
BY RateFacts DEF B!Refilled

\* Time refills every bucket, those without an entry included.
LEMMA TickStep ==
  ASSUME RateInv, Tick
  PROVE  RateInv' /\ B!TimePasses
<1>1. /\ OnTime
      /\ credit' = [l \in Limiters |-> B!Refilled(credit[l])]
      /\ idle' = [k \in Keys |-> Aged(k)]
      /\ call' = [c \in Calls |-> IF InProgress(c)
                                  THEN [call[c] EXCEPT !.age = call[c].age + 1]
                                  ELSE call[c]]
      /\ phase' = (phase + 1) % CleanupInterval
      /\ ticked' = (ticked \/ phase' = 0)
      /\ watch' = B!Older(watch)
      /\ UNCHANGED <<entry, verdict, stopped>>
  BY DEF Tick
<1>2. /\ credit' \in [Limiters -> 0 .. Full]
      /\ \A k \in Keys : Known(k) =>
           /\ entry[k] \in Limiters
           /\ credit[entry[k]] \in 0 .. Full
           /\ credit'[entry[k]] = B!Refilled(credit[entry[k]])
  BY <1>1, RefillFacts DEF RateInv, RateTypeOK, Known
<1>3. \A k \in Keys : /\ idle[k] \in 0 .. MaxIdle
                       /\ idle'[k] \in 0 .. MaxIdle
                       /\ idle'[k] <= idle[k] + 1
  BY <1>1, RateFacts DEF RateInv, RateTypeOK, Aged
<1>4. \A c \in Calls : InProgress(c) =>
        /\ call[c].age \in 0 .. MaxDelay - 1
        /\ call'[c] \in Pending
        /\ call'[c].req = call[c].req
        /\ call'[c].lim = call[c].lim
        /\ call'[c].age = call[c].age + 1
  <2> SUFFICES ASSUME NEW c \in Calls, InProgress(c)
               PROVE  /\ call[c].age \in 0 .. MaxDelay - 1
                      /\ call'[c] \in Pending
                      /\ call'[c].req = call[c].req
                      /\ call'[c].lim = call[c].lim
                      /\ call'[c].age = call[c].age + 1
    OBVIOUS
  <2>1. call[c] \in Pending /\ call[c].age \in 0 .. MaxDelay /\ call[c].age < MaxDelay
    BY <1>1, PendingTyped DEF RateInv, OnTime
  <2>2. call'[c] = [call[c] EXCEPT !.age = call[c].age + 1]
    BY <1>1
  <2>3. call[c].age + 1 \in 0 .. MaxDelay
    BY <2>1, RateFacts
  <2> QED
    BY <2>1, <2>2, <2>3, RateFacts DEF Pending
<1>5. \A c \in Calls : ~InProgress(c) => call'[c] = call[c] /\ ~InProgress(c)'
  BY <1>1 DEF InProgress
<1>6. call' \in [Calls -> {NoCall} \cup Pending]
  <2>1. \A c \in Calls : call'[c] \in {NoCall} \cup Pending
    <3> TAKE c \in Calls
    <3>1. call[c] \in {NoCall} \cup Pending
      BY DEF RateInv, RateTypeOK
    <3> QED
      BY <3>1, <1>4, <1>5 DEF InProgress
  <2>2. call' = [c \in Calls |-> call'[c]]
    BY <1>1
  <2> QED
    BY <2>1, <2>2
<1>7. sweep' \in {Waiting, Ended} \cup Sweeping
  <2>1. CASE sweep.pc = "sweep"
    <3>1. sweep.age \in 0 .. MaxDelay /\ sweep.age < MaxDelay
      BY <1>1, <2>1 DEF RateInv, RateTypeOK, Sweeping, Waiting, Ended, OnTime
    <3>2. sweep.age + 1 \in 0 .. MaxDelay
      BY <3>1, RateFacts
    <3> QED
      BY <2>1, <3>2 DEF Tick, Sweeping
  <2>2. CASE sweep.pc # "sweep"
    BY <2>2 DEF Tick, RateInv, RateTypeOK
  <2> QED
    BY <2>1, <2>2
<1>8. /\ watch' \in [key : Keys, age : 0 .. MaxWatch, granted : Nat]
      /\ watch'.key = watch.key
      /\ \/ watch'.age = watch.age + 1 /\ watch'.granted = watch.granted
         \/ watch'.age = 0 /\ watch'.granted = 0
  <2>1. watch \in [key : Keys, age : 0 .. MaxWatch, granted : Nat]
    BY DEF RateInv, RateTypeOK
  <2>2. CASE watch.age < MaxWatch
    <3>1. watch' = [watch EXCEPT !.age = watch.age + 1]
      BY <1>1, <2>2 DEF B!Older
    <3>2. watch.age + 1 \in 0 .. MaxWatch
      BY <2>1, <2>2, RateFacts
    <3> QED
      BY <2>1, <3>1, <3>2
  <2>3. CASE ~(watch.age < MaxWatch)
    <3>1. watch' = [key |-> watch.key, age |-> 0, granted |-> 0]
      BY <1>1, <2>3 DEF B!Older, B!Watch
    <3> QED
      BY <2>1, <3>1, RateFacts
  <2> QED
    BY <2>2, <2>3
<1>9. RateTypeOK'
  <2>1. phase' \in 0 .. CleanupInterval - 1
    BY <1>1, RateFacts DEF RateInv, RateTypeOK
  <2>2. ticked' \in BOOLEAN
    BY <1>1 DEF RateInv, RateTypeOK
  <2>3. idle' \in [Keys -> 0 .. MaxIdle]
    BY <1>1, <1>3
  <2> QED
    BY <1>1, <1>2, <1>6, <1>7, <1>8, <2>1, <2>2, <2>3 DEF RateInv, RateTypeOK
<1>10. HoldsCurrent'
  <2>0. UNCHANGED entry
    BY <1>1
  <2> SUFFICES ASSUME NEW c \in Calls, InProgress(c)'
               PROVE  /\ entry'[KeyOf(call'[c].req)] = call'[c].lim
                      /\ idle'[KeyOf(call'[c].req)] <= call'[c].age
    BY DEF HoldsCurrent
  <2> InProgress(c)
    BY <1>5 DEF InProgress
  <2>1. /\ call'[c].req = call[c].req /\ call'[c].lim = call[c].lim
        /\ call'[c].age = call[c].age + 1
        /\ call[c].age \in 0 .. MaxDelay - 1
    BY <1>4
  <2>2. KeyOf(call[c].req) \in Keys
    BY PendingTyped DEF RateInv
  <2>3. /\ entry[KeyOf(call[c].req)] = call[c].lim
        /\ idle[KeyOf(call[c].req)] <= call[c].age
    BY DEF RateInv, HoldsCurrent
  <2> QED
    BY <1>3, <2>0, <2>1, <2>2, <2>3, RateFacts
<1>11. OwnLimiter'
  BY <1>1 DEF RateInv, OwnLimiter, Known
<1>12. Recovers'
  <2> SUFFICES ASSUME NEW k \in Keys, Known(k)
               PROVE  \/ credit'[entry[k]] = Full
                      \/ idle'[k] <= credit'[entry[k]] + MaxDelay
    BY <1>1 DEF Recovers, Known
  <2>1. credit[entry[k]] = Full \/ idle[k] <= credit[entry[k]] + MaxDelay
    BY DEF RateInv, Recovers
  <2>2. CASE credit[entry[k]] = Full
    BY <1>2, <2>2, RefillFacts
  <2>3. CASE credit[entry[k]] # Full
    <3>1. credit[entry[k]] \in 0 .. Full /\ credit[entry[k]] < Full
      BY <1>2, <2>3, RateFacts
    <3>2. credit'[entry[k]] = credit[entry[k]] + 1
      BY <1>2, <3>1, RefillFacts
    <3> QED
      BY <1>3, <2>1, <2>3, <3>1, <3>2, RateFacts
  <2> QED
    BY <2>2, <2>3
<1>13. Level' = [k \in Keys |-> B!Refilled(Level[k])]
  <2>1. \A k \in Keys : (IF entry'[k] = NoLimiter THEN Full ELSE credit'[entry'[k]])
                        = B!Refilled(Level[k])
    <3> TAKE k \in Keys
    <3>1. CASE Known(k)
      BY <1>1, <1>2, <3>1, LevelTyped DEF RateInv, Known
    <3>2. CASE ~Known(k)
      <4>1. Level[k] = Full /\ Full \in 0 .. Full
        BY <3>2, LevelTyped, RateFacts DEF RateInv
      <4>2. B!Refilled(Level[k]) = Full
        BY <4>1, RefillFacts
      <4> QED
        BY <1>1, <3>2, <4>2 DEF Known
    <3> QED
      BY <3>1, <3>2
  <2> QED
    BY <2>1 DEF Level
<1>14. Accounted'
  <2>1. /\ watch.key \in Keys /\ watch.age \in Nat /\ watch.granted \in Nat
        /\ Level[watch.key] \in 0 .. Full
        /\ watch.granted * Interval + Level[watch.key] <= Full + watch.age
    BY LevelTyped, RateFacts DEF RateInv, RateTypeOK, Accounted
  <2>2. /\ Level'[watch.key] = B!Refilled(Level[watch.key])
        /\ Level'[watch.key] \in 0 .. Full
        /\ Level'[watch.key] <= Level[watch.key] + 1
    BY <1>13, <2>1, RefillFacts, RateFacts
  <2>3. watch.granted * Interval \in Int /\ 0 * Interval = 0
    BY <2>1, RateFacts
  <2>4. CASE watch'.age = watch.age + 1 /\ watch'.granted = watch.granted
    <3>1. watch.granted * Interval + Level'[watch.key] <= Full + (watch.age + 1)
      BY <2>1, <2>2, <2>3, RateFacts
    <3> QED
      BY <1>8, <2>4, <3>1 DEF Accounted
  <2>5. CASE watch'.age = 0 /\ watch'.granted = 0
    BY <1>8, <2>2, <2>3, <2>5, RateFacts DEF Accounted
  <2> QED
    BY <1>8, <2>4, <2>5
<1>15. B!TimePasses
  BY <1>1, <1>13 DEF B!TimePasses
<1> QED
  BY <1>9, <1>10, <1>11, <1>12, <1>14, <1>15 DEF RateInv

\* A new observation has counted nothing.
LEMMA ObserveStep ==
  ASSUME RateInv, NEW k \in Keys, Observe(k)
  PROVE  RateInv' /\ B!Observe(k)
<1>1. /\ watch' = [key |-> k, age |-> 0, granted |-> 0]
      /\ UNCHANGED <<entry, idle, credit, call, verdict, phase, ticked, sweep, stopped>>
  BY DEF Observe, B!Watch, store, loop
<1>2. Level' = Level
  BY <1>1, LevelSame
<1>3. RateTypeOK'
  BY <1>1, RateFacts DEF RateInv, RateTypeOK
<1>4. HoldsCurrent' /\ OwnLimiter' /\ Recovers'
  BY <1>1 DEF RateInv, HoldsCurrent, OwnLimiter, Recovers, InProgress, Known
<1>5. Accounted'
  <2>1. Level[k] \in 0 .. Full /\ 0 * Interval = 0
    BY LevelTyped, RateFacts DEF RateInv
  <2> QED
    BY <1>1, <1>2, <2>1, RateFacts DEF Accounted
<1>6. B!Observe(k)
  BY <1>1, <1>2 DEF B!Observe, B!Watch
<1> QED
  BY <1>3, <1>4, <1>5, <1>6 DEF RateInv

\* Every step preserves the invariant and is a step of the abstract buckets.
LEMMA RateStep ==
  ASSUME RateInv, [RateNext]_rateVars
  PROVE  RateInv' /\ [B!BucketNext]_(B!bucketVars)
<1>1. CASE \E c \in Calls, r \in Requests : getLimiter(c, r)
  <2>1. PICK c \in Calls, r \in Requests : getLimiter(c, r)
    BY <1>1
  <2>2. RateInv' /\ B!Ask(c)
    BY <2>1, ReuseStep, CreateStep DEF getLimiter
  <2> QED
    BY <2>2 DEF B!BucketNext
<1>2. CASE \E c \in Calls : Allow(c)
  <2>1. PICK c \in Calls : Allow(c)
    BY <1>2
  <2>2. KeyOf(call[c].req) \in Keys
    BY <2>1, PendingTyped DEF RateInv, Allow
  <2>3. RateInv' /\ (B!Grant(c, KeyOf(call[c].req)) \/ B!Deny(c, KeyOf(call[c].req)))
    BY <2>1, AllowedStep, DeniedStep DEF Allow
  <2> QED
    BY <2>2, <2>3 DEF B!BucketNext
<1>3. CASE TakeCutoff \/ LoopReturns \/ Stop
  <2>1. RateTypeOK' /\ UNCHANGED <<store, call, verdict, watch>>
    <3>1. [pc |-> "sweep", age |-> 0] \in Sweeping
      BY RateFacts DEF Sweeping
    <3>2. CASE TakeCutoff
      BY <3>1, <3>2 DEF TakeCutoff, RateInv, RateTypeOK, store
    <3>3. CASE LoopReturns
      BY <3>3 DEF LoopReturns, RateInv, RateTypeOK, store
    <3>4. CASE Stop
      BY <3>4 DEF Stop, RateInv, RateTypeOK, store
    <3> QED
      BY <1>3, <3>2, <3>3, <3>4
  <2> QED
    BY <2>1, LoopStep
<1>4. CASE Cleanup
  BY <1>4, CleanupStep
<1>5. CASE Tick
  BY <1>5, TickStep DEF B!BucketNext
<1>6. CASE \E k \in Keys : Observe(k)
  <2>1. PICK k \in Keys : Observe(k)
    BY <1>6
  <2> QED
    BY <2>1, ObserveStep DEF B!BucketNext
<1>7. CASE UNCHANGED rateVars
  <2>1. UNCHANGED <<store, call, verdict, watch>> /\ RateTypeOK'
    BY <1>7 DEF rateVars, store, RateInv, RateTypeOK
  <2> QED
    BY <2>1, LoopStep
<1> QED
  BY <1>1, <1>2, <1>3, <1>4, <1>5, <1>6, <1>7 DEF RateNext

(* The store never throws away a bucket that is not full, nor one a call in  *)
(* progress is about to use.                                                 *)
THEOREM RateInvariant == RateSpec => []RateInv
<1>1. RateInit => RateInv
  BY InitRateInv
<1>2. RateInv /\ [RateNext]_rateVars => RateInv'
  BY RateStep
<1> QED
  BY <1>1, <1>2, PTL DEF RateSpec

(* A key is granted at most its burst and what is refilled while one counts, *)
(* although its entry may be deleted and made anew.                          *)
THEOREM GrantsBounded == RateSpec => []WindowBound
<1>1. RateInv => WindowBound
  <2> SUFFICES ASSUME RateInv PROVE WindowBound
    OBVIOUS
  <2>1. /\ watch.key \in Keys /\ watch.age \in Nat /\ watch.granted \in Nat
        /\ Level[watch.key] \in 0 .. Full
        /\ watch.granted * Interval + Level[watch.key] <= Full + watch.age
    BY LevelTyped, RateFacts DEF RateInv, RateTypeOK, Accounted
  <2>2. watch.granted * Interval \in Int
    BY <2>1, RateFacts
  <2>3. watch.granted * Interval <= Full + watch.age
    BY <2>1, <2>2, RateFacts
  <2> QED
    BY <2>3, RateFacts DEF WindowBound, B!WindowBound
<1> QED
  BY <1>1, RateInvariant, PTL

(* The store implements one bucket per key that is never evicted.            *)
THEOREM EvictionUnseen == RateSpec => BucketSpec
<1>1. RateInit => B!BucketInit
  BY InitRateInv
<1>2. RateInv /\ [RateNext]_rateVars => [B!BucketNext]_(B!bucketVars)
  BY RateStep
<1> QED
  BY <1>1, <1>2, RateInvariant, PTL DEF RateSpec, BucketSpec, B!BucketSpec
================================================================================
