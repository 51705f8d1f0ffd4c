------------------------------- MODULE RateLimit -------------------------------
(*****************************************************************************)
(* LimiterStore (internal/middleware/ratelimit.go): token buckets of the     *)
(* calls to Register and Login, one for each key seen lately.  A call fetches*)
(* the limiter of its key under s.mu and then, without the lock, takes a     *)
(* token from it; meanwhile cleanupLoop deletes the entries of keys that were*)
(* not seen for ten minutes, and a later call makes a fresh, full limiter.   *)
(*                                                                           *)
(* Time is a tick.  No clock is kept: the store only compares times, so an   *)
(* entry carries the ticks since its lastSeen, and a limiter the credit it   *)
(* has now.  The two stretches in which a goroutine holds a time or a limiter*)
(* it has read before (between getLimiter and Allow, and between taking the  *)
(* cutoff and the lock) last at most MaxDelay ticks.                         *)
(*****************************************************************************)
EXTENDS Integers

CONSTANTS
  Calls,           \* RPCs that may be in the interceptor together
  Requests,        \* their requests: records with fields email and peer
  NoEmail,         \* GetEmail() = ""
  NoPeer,          \* no peer address in the context
  Limiters,        \* heap objects of type *rate.Limiter
  NoLimiter,       \* the key is not in s.clients
  Minute,          \* ticks in a minute
  LimitPerMinute,  \* first argument of NewLimiterStore
  Burst,           \* second argument of NewLimiterStore
  CleanupInterval, \* third argument of NewLimiterStore, in ticks
  IdleTime,        \* the ten minutes of the cutoff
  MaxDelay,        \* bound on the stretches above
  MaxWatch         \* bound on an observation (TokenBucket)

\* rate.Every(time.Minute / time.Duration(limitPerMinute)): ticks per token.
Interval == Minute \div (IF LimitPerMinute <= 0 THEN 60 ELSE LimitPerMinute)

Full == Burst * Interval

(* With the values of main.go (a burst of 3, at least one call a minute) the *)
(* last conjunct says that no goroutine is suspended for seven minutes.      *)
ASSUME RateAssumption ==
  /\ LimitPerMinute \in Int
  /\ Burst \in Nat
  /\ Interval \in Nat \ {0}
  /\ CleanupInterval \in Nat \ {0}
  /\ IdleTime \in Nat
  /\ MaxDelay \in Nat
  /\ MaxWatch \in Nat
  /\ NoLimiter \notin Limiters
  /\ Full + MaxDelay <= IdleTime

(* The key a call is counted by: its e-mail address, else p.Addr.String(),   *)
(* which holds the peer's IP address and port, else "unknown".               *)
KeyOf(r) ==
  IF r.email # NoEmail THEN <<"email", r.email>>
  ELSE IF r.peer # NoPeer THEN <<"peer", r.peer.ip, r.peer.port>>
  ELSE <<"unknown">>

Keys == {KeyOf(r) : r \in Requests}

VARIABLES
  entry,    \* s.clients: key -> limiter, or NoLimiter
  idle,     \* ticks since the entry's lastSeen, 0 when there is no entry
  credit,   \* what each limiter holds, in ticks of refill
  call,     \* call[c]: the limiter c has fetched and has not used yet
  verdict,  \* what Allow returned to the interceptor of c
  phase,    \* ticks since the ticker last fired
  ticked,   \* its channel holds a tick
  sweep,    \* cleanupLoop: waiting, or with the age of its cutoff, or ended
  stopped,  \* stopCh is closed
  watch     \* the observation of TokenBucket

store     == <<entry, idle, credit>>
loop      == <<phase, ticked, sweep, stopped>>
rateVars  == <<entry, idle, credit, call, verdict, phase, ticked, sweep, stopped,
               watch>>

MaxIdle == IdleTime + MaxDelay + 1  \* an entry this idle is past every cutoff

NoCall   == [pc |-> "done"]
Pending  == [pc : {"allow"}, req : Requests, lim : Limiters, age : 0 .. MaxDelay]
Sweeping == [pc : {"sweep"}, age : 0 .. MaxDelay]
Waiting  == [pc |-> "wait"]
Ended    == [pc |-> "ended"]

InProgress(c) == call[c].pc = "allow"

(* What the store implements: a bucket per key that is never thrown away.    *)
(* The bucket of a key without an entry is full.                             *)
Level == [k \in Keys |-> IF entry[k] = NoLimiter THEN Full ELSE credit[entry[k]]]

B == INSTANCE TokenBucket WITH level <- Level

RateTypeOK ==
  /\ entry \in [Keys -> Limiters \cup {NoLimiter}]
  /\ idle \in [Keys -> 0 .. MaxIdle]
  /\ credit \in [Limiters -> 0 .. Full]
  /\ call \in [Calls -> {NoCall} \cup Pending]
  /\ verdict \in [Calls -> B!Verdicts]
  /\ phase \in 0 .. CleanupInterval - 1
  /\ ticked \in BOOLEAN
  /\ sweep \in {Waiting, Ended} \cup Sweeping
  /\ stopped \in BOOLEAN
  /\ watch \in [key : Keys, age : 0 .. MaxWatch, granted : Nat]

RateInit ==
  /\ entry = [k \in Keys |-> NoLimiter]
  /\ idle = [k \in Keys |-> 0]
  /\ credit = [l \in Limiters |-> Full]
  /\ call = [c \in Calls |-> NoCall]
  /\ verdict = [c \in Calls |-> "none"]
  /\ phase = 0
  /\ ticked = FALSE
  /\ sweep = Waiting
  /\ stopped = FALSE
  /\ \E k \in Keys : watch = B!Watch(k)

-------------------------------------------------------------------------------
(* getLimiter, under s.mu                                                     *)

Known(k) == entry[k] # NoLimiter

\* The limiter is not reachable from the map or from a goroutine.
Unused(l) ==
  /\ \A k \in Keys : entry[k] # l
  /\ \A c \in Calls : InProgress(c) => call[c].lim # l

Fetch(c, r, l) ==
  call' = [call EXCEPT ![c] = [pc |-> "allow", req |-> r, lim |-> l, age |-> 0]]

\* Fault: a known key is not marked as seen.
ReuseUnseen(c, r) ==
  /\ Known(KeyOf(r))
  /\ Fetch(c, r, entry[KeyOf(r)])
  /\ UNCHANGED <<entry, credit, idle>>

\* The key has an entry: it is seen now.
Reuse(c, r) ==
  /\ Known(KeyOf(r))
  /\ Fetch(c, r, entry[KeyOf(r)])
  /\ idle' = [idle EXCEPT ![KeyOf(r)] = 0]
  /\ UNCHANGED <<entry, credit>>

\* Fault: the new limiter is not put into the map.
CreateUnstored(c, r) ==
  /\ ~Known(KeyOf(r))
  /\ \E l \in Limiters :
       /\ Unused(l)
       /\ Fetch(c, r, l)
       /\ credit' = [credit EXCEPT ![l] = Full]
  /\ UNCHANGED <<entry, idle>>

\* It has none: rate.NewLimiter starts full.
Create(c, r) ==
  /\ ~Known(KeyOf(r))
  /\ \E l \in Limiters :
       /\ Unused(l)
       /\ Fetch(c, r, l)
       /\ entry' = [entry EXCEPT ![KeyOf(r)] = l]
       /\ credit' = [credit EXCEPT ![l] = Full]
       /\ idle' = [idle EXCEPT ![KeyOf(r)] = 0]

\* Register or Login enters the interceptor with request r.
getLimiter(c, r) ==
  /\ ~InProgress(c)
  /\ verdict' = [verdict EXCEPT ![c] = "none"]
  /\ Reuse(c, r) \/ Create(c, r)
  /\ UNCHANGED <<loop, watch>>

-------------------------------------------------------------------------------
(* l.Allow(), under the limiter's own lock.  A granted call goes on to the    *)
(* handler, a denied one returns ResourceExhausted.                           *)

Allowed(c) ==
  LET l == call[c].lim IN
  /\ credit[l] >= Interval
  /\ credit' = [credit EXCEPT ![l] = credit[l] - Interval]
  /\ verdict' = [verdict EXCEPT ![c] = "granted"]
  /\ watch' = B!Counted(watch, KeyOf(call[c].req))

Denied(c) ==
  /\ credit[call[c].lim] < Interval
  /\ verdict' = [verdict EXCEPT ![c] = "denied"]
  /\ UNCHANGED <<credit, watch>>

Allow(c) ==
  /\ InProgress(c)
  /\ Allowed(c) \/ Denied(c)
  /\ call' = [call EXCEPT ![c] = NoCall]
  /\ UNCHANGED <<entry, idle, loop>>

-------------------------------------------------------------------------------
(* cleanupLoop                                                                *)

\* case <-ticker.C: the cutoff is computed before the lock is taken.
TakeCutoff ==
  /\ sweep = Waiting
  /\ ticked
  /\ ticked' = FALSE
  /\ sweep' = [pc |-> "sweep", age |-> 0]
  /\ UNCHANGED <<store, call, verdict, phase, stopped, watch>>

\* Fault: every entry that was not seen since the last tick is stale.
StaleSoon(k) == Known(k) /\ idle[k] > 0

\* Fault: nothing is.
StaleNever(k) == FALSE

\* v.lastSeen.Before(cutoff)
Stale(k) == Known(k) /\ idle[k] > IdleTime + sweep.age

Cleanup ==
  /\ sweep.pc = "sweep"
  /\ sweep' = Waiting
  /\ entry' = [k \in Keys |-> IF Stale(k) THEN NoLimiter ELSE entry[k]]
  /\ idle' = [k \in Keys |-> IF Stale(k) THEN 0 ELSE idle[k]]
  /\ UNCHANGED <<credit, call, verdict, phase, ticked, stopped, watch>>

\* case <-s.stopCh
LoopReturns ==
  /\ sweep = Waiting
  /\ stopped
  /\ sweep' = Ended
  /\ UNCHANGED <<store, call, verdict, phase, ticked, stopped, watch>>

\* main defers it once.
Stop ==
  /\ ~stopped
  /\ stopped' = TRUE
  /\ UNCHANGED <<store, call, verdict, phase, ticked, sweep, watch>>

-------------------------------------------------------------------------------
(* Time                                                                       *)

\* No goroutine is held up for more than MaxDelay in the stretches above.
OnTime ==
  /\ \A c \in Calls : InProgress(c) => call[c].age < MaxDelay
  /\ sweep.pc = "sweep" => sweep.age < MaxDelay

Aged(k) == IF Known(k) /\ idle[k] < MaxIdle THEN idle[k] + 1 ELSE idle[k]

Tick ==
  /\ OnTime
  /\ credit' = [l \in Limiters |-> B!Refilled(credit[l])]
  /\ idle' = [k \in Keys |-> Aged(k)]
  /\ call' = [c \in Calls |-> IF InProgress(c)
                              THEN [call[c] EXCEPT !.age = call[c].age + 1]
                              ELSE call[c]]
  /\ sweep' = IF sweep.pc = "sweep"
              THEN [pc |-> "sweep", age |-> sweep.age + 1]
              ELSE sweep
  /\ phase' = (phase + 1) % CleanupInterval
  /\ ticked' = (ticked \/ phase' = 0)
  /\ watch' = B!Older(watch)
  /\ UNCHANGED <<entry, verdict, stopped>>

\* A new observation starts.
Observe(k) ==
  /\ watch' = B!Watch(k)
  /\ UNCHANGED <<store, call, verdict, loop>>

RateNext ==
  \/ \E c \in Calls : Allow(c) \/ \E r \in Requests : getLimiter(c, r)
  \/ TakeCutoff
  \/ Cleanup
  \/ LoopReturns
  \/ Stop
  \/ Tick
  \/ \E k \in Keys : Observe(k)

RateSpec == RateInit /\ [][RateNext]_rateVars

(* Time passes and the goroutines of the store run; calls need not come.     *)
RateFairSpec ==
  /\ RateSpec
  /\ WF_rateVars(Tick)
  /\ WF_rateVars(TakeCutoff)
  /\ WF_rateVars(Cleanup)
  /\ \A c \in Calls : WF_rateVars(Allow(c))

-------------------------------------------------------------------------------
(* Properties                                                                 *)

\* A call in progress holds the limiter its key has in the map.
HoldsCurrent ==
  \A c \in Calls : InProgress(c) =>
    /\ entry[KeyOf(call[c].req)] = call[c].lim
    /\ idle[KeyOf(call[c].req)] <= call[c].age

\* Keys do not share a limiter.
OwnLimiter ==
  \A j, k \in Keys : Known(j) /\ entry[j] = entry[k] => j = k

\* An idle limiter refills.
Recovers ==
  \A k \in Keys : Known(k) =>
    \/ credit[entry[k]] = Full
    \/ idle[k] <= credit[entry[k]] + MaxDelay

\* What an observation has counted was in the bucket or was refilled.
Accounted ==
  watch.granted * Interval + Level[watch.key] <= Full + watch.age

(* The inductive invariant: eviction, which runs while calls hold limiters   *)
(* they have fetched, only ever forgets a bucket that is full and that no    *)
(* call is about to use (ratelimit.go:56-60 against 87-89).                  *)
RateInv ==
  /\ RateTypeOK
  /\ HoldsCurrent
  /\ OwnLimiter
  /\ Recovers
  /\ Accounted

\* Bound on the calls a key is granted while it is observed (see TokenBucket).
WindowBound == B!WindowBound

(* The store with its evictions grants and denies exactly as if it kept the  *)
(* bucket of every key for ever ("maintains per-key rate limiters and        *)
(* performs periodic cleanup", ratelimit.go:16).                             *)
BucketSpec == B!BucketSpec

(* The map does not grow for ever: the entry of a key that is not seen any   *)
(* more is deleted ("ensure cleanup eventually removes old entries",         *)
(* ratelimit_test.go:28), unless the loop was stopped.                       *)
StaleEntriesDropped ==
  \A k \in Keys : idle[k] = MaxIdle ~> idle[k] = 0 \/ stopped

(* "falling back to remote IP" (ratelimit.go:94): calls without an address   *)
(* that come from one IP address are counted together.                       *)
CountedByIP ==
  \A c, d \in Calls :
    /\ InProgress(c) /\ call[c].req.email = NoEmail /\ call[c].req.peer # NoPeer
    /\ InProgress(d) /\ call[d].req.email = NoEmail /\ call[d].req.peer # NoPeer
    /\ call[c].req.peer.ip = call[d].req.peer.ip
    => call[c].lim = call[d].lim
================================================================================
