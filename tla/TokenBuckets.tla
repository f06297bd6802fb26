---------------------------- MODULE TokenBuckets ----------------------------
(* The rate limiter of cmd/AkaiAPI/src/main.c (rate_limit_check): one token   *)
(* bucket for each API key, in a table of RL_MAX_KEYS entries that is never   *)
(* emptied: a key that finds it full takes over the first entry.              *)
(*                                                                            *)
(* Time and tokens are whole numbers: a token of the code is Cost units, and  *)
(* RL_REFILL gives Refill units in one unit of time. now is bounded by        *)
(* MaxTime, and how often a key starts anew by MaxFresh.                      *)
EXTENDS Integers, FiniteSets

CONSTANTS
  Keys, NoKey,
  MaxKeys,   \* RL_MAX_KEYS
  Capacity,  \* RL_CAPACITY, in units
  Refill,    \* RL_REFILL, in units
  Cost,      \* one request, in units
  MaxTime, MaxFresh

ASSUME KeysAssumption == NoKey \notin Keys
ASSUME BucketAssumption == MaxKeys \in Nat \ {0} /\ Capacity \in Nat /\ Refill \in Nat /\ Cost \in Nat
ASSUME ClockAssumption == MaxTime \in Nat /\ MaxFresh \in Nat

VARIABLES
  buckets,   \* g_buckets: the key, the tokens and the last refill of an entry
  nbuckets,  \* g_nbuckets
  now,       \* mono_sec()
  granted,   \* history: the units a key was granted
  fresh,     \* history: how often a key was given a full bucket
  born       \* history: when it was given the first

rateVars == <<buckets, nbuckets, now, granted, fresh, born>>

Entries == 1..MaxKeys
Taken == 1..nbuckets

RateTypeOK ==
  /\ buckets \in [Entries -> [key : Keys \union {NoKey}, tokens : Nat, last : Nat]]
  /\ nbuckets \in 0..MaxKeys
  /\ now \in Nat
  /\ granted \in [Keys -> Nat]
  /\ fresh \in [Keys -> Nat]
  /\ born \in [Keys -> Nat]

RateInit ==
  /\ buckets = [s \in Entries |-> [key |-> NoKey, tokens |-> 0, last |-> 0]]
  /\ nbuckets = 0
  /\ now = 0
  /\ granted = [k \in Keys |-> 0]
  /\ fresh = [k \in Keys |-> 0]
  /\ born = [k \in Keys |-> 0]

AtMost(n, limit) == IF n > limit THEN limit ELSE n

\* tokens += elapsed * RL_REFILL, at most RL_CAPACITY
Refilled(b) == AtMost(b.tokens + Refill * (now - b.last), Capacity)

HasBucket(k) == \E s \in Taken : buckets[s].key = k

\* The entry of the key; else the next free one; else the first.
BucketOf(k, s) ==
  IF HasBucket(k)
  THEN s \in Taken /\ buckets[s].key = k
  ELSE s = IF nbuckets < MaxKeys THEN nbuckets + 1 ELSE 1

\* Faulty: the time of the last refill is left as it was.
SpendAgain(k, s, tokens) ==
  LET ok == tokens >= Cost IN
  /\ buckets' = [buckets EXCEPT ![s] =
                   [key |-> k, tokens |-> IF ok THEN tokens - Cost ELSE tokens, last |-> @.last]]
  /\ granted' = IF ok THEN [granted EXCEPT ![k] = @ + Cost] ELSE granted

\* Spends a token if there is one.
Spend(k, s, tokens) ==
  LET ok == tokens >= Cost IN
  /\ buckets' = [buckets EXCEPT ![s] =
                   [key |-> k, tokens |-> IF ok THEN tokens - Cost ELSE tokens, last |-> now]]
  /\ granted' = IF ok THEN [granted EXCEPT ![k] = @ + Cost] ELSE granted

\* A request of a key that has a bucket.
CheckKnown(k) ==
  /\ HasBucket(k)
  /\ \E s \in Entries : BucketOf(k, s) /\ Spend(k, s, Refilled(buckets[s]))
  /\ UNCHANGED <<nbuckets, now, fresh, born>>

\* A key without one starts with a full bucket.
CheckNew(k) ==
  /\ ~HasBucket(k)
  /\ fresh[k] < MaxFresh
  /\ \E s \in Entries : BucketOf(k, s) /\ Spend(k, s, Capacity)
  /\ nbuckets' = IF nbuckets < MaxKeys THEN nbuckets + 1 ELSE nbuckets
  /\ fresh' = [fresh EXCEPT ![k] = @ + 1]
  /\ born' = IF fresh[k] = 0 THEN [born EXCEPT ![k] = now] ELSE born
  /\ now' = now

\* rate_limit_check(key) for a key, under g_rl_mutex.
RateCheck(k) == CheckKnown(k) \/ CheckNew(k)

Tick ==
  /\ now < MaxTime
  /\ now' = now + 1
  /\ UNCHANGED <<buckets, nbuckets, granted, fresh, born>>

RateNext == Tick \/ \E k \in Keys : RateCheck(k)

RateSpec == RateInit /\ [][RateNext]_rateVars

-----------------------------------------------------------------------------
\* What a key was granted since its first request is at most a full bucket for
\* each time that it was given one, and the refill of that time ("token bucket
\* per API key"): no refill is counted twice, in any order of the requests of
\* several keys that push each other out of the table.
KeyRate == \A k \in Keys : granted[k] <= fresh[k] * Capacity + (now - born[k]) * Refill

\* A key starts anew only when the table is too small for the keys that are
\* used: else it keeps the one bucket that it got with its first request.
FreshOnce ==
  Cardinality({k \in Keys : fresh[k] > 0}) <= MaxKeys => \A k \in Keys : fresh[k] <= 1
=============================================================================
