---------------------------- MODULE RateLimiter ----------------------------
(***************************************************************************)
(* agent/app/rate_limit.py: the token bucket in front of /v1/chat and      *)
(* /v1/qc/run, one bucket per API key, held in the memory of one process.  *)
(*                                                                         *)
(* Time is counted in ticks, Minute of them to a minute, and a bucket in   *)
(* units of 1/Minute of a token: a request costs Minute units and a tick   *)
(* refills Rpm units, so that everything is an integer (the code's floats  *)
(* are taken as exact).  allow_request has no await once it has read the   *)
(* clock (the lock is never held across one), so a call is one step.       *)
(***************************************************************************)
EXTENDS Integers

CONSTANTS
  Keys,          \* API keys
  Rpm,           \* RATE_LIMIT_RPM
  Minute,        \* ticks per minute
  MaxTime,       \* bound on the clock
  MaxRestarts    \* bound on the restarts of the process

ASSUME LimiterAssumption ==
  /\ Rpm \in Nat \ {0}          \* rpm <= 0 raises ValueError
  /\ Minute \in Nat \ {0}
  /\ MaxTime \in Nat /\ MaxRestarts \in Nat

VARIABLES
  now,           \* time.monotonic()
  buckets,       \* _buckets: a dict from the keys seen so far
  since,         \* an observer: the start of the window it counts in,
  admitted,      \* the requests admitted in the window, by key,
  restarts       \* and the restarts during the window

limiterVars == <<now, buckets, since, admitted, restarts>>

Capacity == Rpm * Minute

Bucket == [tokens : 0..Capacity, last_refill_ts : Nat]

Smaller(a, b) == IF a <= b THEN a ELSE b

LimiterTypeOK ==
  /\ now \in 0..MaxTime
  /\ DOMAIN buckets \subseteq Keys
  /\ \A k \in DOMAIN buckets :
       buckets[k] \in Bucket /\ buckets[k].last_refill_ts <= now
  /\ since \in 0..now
  /\ admitted \in [Keys -> Nat]
  /\ restarts \in 0..MaxRestarts

LimiterInit ==
  /\ now = 0 /\ since = 0 /\ restarts = 0
  /\ buckets = [k \in {} |-> 0]
  /\ admitted = [k \in Keys |-> 0]

\* Mutant: an idle bucket fills without bound.
LevelUncapped(k) ==
  IF k \in DOMAIN buckets
  THEN buckets[k].tokens + (now - buckets[k].last_refill_ts) * Rpm
  ELSE Capacity

\* Mutant: the bucket of a new key starts empty.
LevelStartsEmpty(k) ==
  IF k \in DOMAIN buckets
  THEN Smaller(Capacity,
               buckets[k].tokens + (now - buckets[k].last_refill_ts) * Rpm)
  ELSE 0

\* The tokens a request of key k finds: a new bucket is full, an old one has
\* been refilled for the time since its last request, up to its capacity.
Level(k) ==
  IF k \in DOMAIN buckets
  THEN Smaller(Capacity,
               buckets[k].tokens + (now - buckets[k].last_refill_ts) * Rpm)
  ELSE Capacity

SetBucket(k, level) ==
  buckets' = [x \in DOMAIN buckets \cup {k} |->
                IF x = k THEN [tokens |-> level, last_refill_ts |-> now]
                ELSE buckets[x]]

Admit(k) ==
  /\ Level(k) >= Minute
  /\ SetBucket(k, Level(k) - Minute)
  /\ admitted' = [admitted EXCEPT ![k] = @ + 1]
  /\ UNCHANGED <<now, since, restarts>>

\* The caller gets a 429.
Refuse(k) ==
  /\ Level(k) < Minute
  /\ SetBucket(k, Level(k))
  /\ UNCHANGED <<now, since, admitted, restarts>>

Tick ==
  /\ now < MaxTime
  /\ now' = now + 1
  /\ UNCHANGED <<buckets, since, admitted, restarts>>

\* The process restarts: the buckets were only in its memory.
Restart ==
  /\ restarts < MaxRestarts
  /\ restarts' = restarts + 1
  /\ buckets' = [k \in {} |-> 0]
  /\ UNCHANGED <<now, since, admitted>>

\* The observer starts a new window, at any moment.
OpenWindow ==
  /\ since' = now /\ restarts' = 0
  /\ admitted' = [k \in Keys |-> 0]
  /\ UNCHANGED <<now, buckets>>

LimiterNext ==
  \/ \E k \in Keys : Admit(k) \/ Refuse(k)
  \/ Tick \/ Restart \/ OpenWindow

LimiterSpec == LimiterInit /\ [][LimiterNext]_limiterVars

-----------------------------------------------------------------------------
\* In every window, wherever it starts, a key is admitted at most a burst of
\* Rpm requests plus Rpm per minute of the window; each restart of the process
\* adds a burst, because the buckets are not kept.
NeverOverRate ==
  \A k \in Keys :
    admitted[k] * Minute <= (1 + restarts) * Capacity + (now - since) * Rpm

\* A 429 is never undue: whoever is refused has had at least Rpm requests
\* admitted in every window of a minute or more that ends now.
RefusalJustified ==
  [][\A k \in Keys :
       Refuse(k) /\ now - since >= Minute => admitted[k] >= Rpm]_limiterVars
=============================================================================
