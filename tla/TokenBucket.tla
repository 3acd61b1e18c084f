---------------------------- MODULE TokenBucket -----------------------------
(***************************************************************************)
(* TokenBucketLimiter: buckets filled lazily when they are next looked at, *)
(* and swept when they have been idle.  One instance limits the requests   *)
(* of an address (RateLimitMiddleware), another the failed authentications *)
(* of a client_id (the penalty bucket of the token endpoint).              *)
(*                                                                         *)
(* The clock steps Grain times a second.  Tokens are counted in units of   *)
(* 1 / (window_secs * Grain), so that max_tokens / window_secs tokens a    *)
(* second are max_tokens units a step, a token is window_secs * Grain      *)
(* units, and the arithmetic is exact; rounding of floats is left out.     *)
(***************************************************************************)
EXTENDS Clock, Maps

CONSTANTS
    Keys, None,
    MaxRequests, WindowSecs,   \* the configured limit
    Grain,                     \* steps of the clock in a second
    MaxTime                    \* bound: the clock stops here

ASSUME BucketAssumption ==
    /\ {MaxRequests, WindowSecs, MaxTime} \subseteq Nat
    /\ Grain \in Nat \ {0}
    /\ None \notin Nat

AtLeastOne(x) == IF x >= 1 THEN x ELSE 1

MaxTokens == AtLeastOne(MaxRequests)

Window == AtLeastOne(WindowSecs) * Grain

VARIABLES
    buckets,  \* _buckets: key -> bucket
    since,    \* observation: when counting began
    passed,   \* observation: requests let through since then
    told      \* observation: the last answer to a key, if it was "retry after"

bucketVars == <<now, buckets, since, passed, told>>

(* A full bucket, and the price of a request.                               *)
Full == MaxTokens * Window

Token == Window

_Bucket == [tokens : 0..Full, last_seen : Nat]

BucketTypeOK ==
    /\ now \in Nat
    /\ DOMAIN buckets \subseteq Keys
    /\ \A k \in DOMAIN buckets : buckets[k] \in _Bucket /\ buckets[k].last_seen <= now
    /\ since \in 0..now
    /\ passed \in [Keys -> Nat]
    /\ told \in [Keys -> [at : Nat, secs : Nat] \cup {None}]

BucketInit ==
    /\ now = 0
    /\ buckets = <<>>
    /\ since = 0
    /\ passed = [k \in Keys |-> 0]
    /\ told = [k \in Keys |-> None]
-----------------------------------------------------------------------------
UpToFull(x) == IF x <= Full THEN x ELSE Full

(* Mutant of Swept: a bucket idle for half a window is forgotten.           *)
SweptEarly == Without(buckets, {k \in DOMAIN buckets : 2 * (now - buckets[k].last_seen) >= Window})

(* _sweep_expired.                                                          *)
Swept == Without(buckets, {k \in DOMAIN buckets : now - buckets[k].last_seen >= 2 * Window})

(* What the bucket holds when it is looked at: a new one is full.           *)
Refilled(k) ==
    IF k \in DOMAIN Swept
    THEN UpToFull(buckets[k].tokens + (now - buckets[k].last_seen) * MaxTokens) ELSE Full

Touch(k, tokens) == buckets' = With(Swept, k, [tokens |-> tokens, last_seen |-> now])

(* Mutant of Allow: a token that is almost there will do.                   *)
AllowEarly(k) ==
    /\ Refilled(k) >= Token - 1
    /\ Touch(k, IF Refilled(k) >= Token THEN Refilled(k) - Token ELSE 0)
    /\ passed' = [passed EXCEPT ![k] = @ + 1]
    /\ told' = [told EXCEPT ![k] = None]
    /\ UNCHANGED <<now, since>>

(* check() finds a token: the request goes on to its handler.               *)
Allow(k) ==
    /\ Refilled(k) >= Token
    /\ Touch(k, Refilled(k) - Token)
    /\ passed' = [passed EXCEPT ![k] = @ + 1]
    /\ told' = [told EXCEPT ![k] = None]
    /\ UNCHANGED <<now, since>>

CeilDiv(a, b) == (a + b - 1) \div b

(* Mutant of RetryAfter: whole seconds, rounded down.                       *)
RetryAfterFloor(missing) == AtLeastOne(missing \div (MaxTokens * Grain))

RetryAfter(missing) == AtLeastOne(CeilDiv(missing, MaxTokens * Grain))

(* check() finds none: 429, and the time after which to try again.  The     *)
(* refill is kept and the bucket touched all the same.                      *)
Reject(k) ==
    /\ Refilled(k) < Token
    /\ Touch(k, Refilled(k))
    /\ told' = [told EXCEPT ![k] = [at |-> now, secs |-> RetryAfter(Token - Refilled(k))]]
    /\ UNCHANGED <<now, since, passed>>

(* Counting begins anew, at any time.                                       *)
Observe ==
    /\ since < now
    /\ since' = now
    /\ passed' = [k \in Keys |-> 0]
    /\ UNCHANGED <<now, buckets, told>>

BucketTick ==
    /\ Passes(MaxTime)
    /\ UNCHANGED <<buckets, since, passed, told>>

BucketNext == (\E k \in Keys : Allow(k) \/ Reject(k)) \/ Observe \/ BucketTick

BucketSpec == BucketInit /\ [][BucketNext]_bucketVars
-----------------------------------------------------------------------------
(* What a key is worth now, though its bucket may not have been looked at   *)
(* for a while, or may have been swept.                                     *)
Level(k) ==
    IF k \in DOMAIN buckets
    THEN UpToFull(buckets[k].tokens + (now - buckets[k].last_seen) * MaxTokens) ELSE Full

(* Over any span of time a key gets through at most max_tokens requests     *)
(* plus the refill rate times the span, whatever is swept in between.       *)
RateBounded ==
    \A k \in Keys : passed[k] * Token <= Full + (now - since) * MaxTokens

(* A caller that waits for as long as it was told finds a token, if no one  *)
(* else used the key in between; and it was told to wait a second, or less  *)
(* than a second longer than necessary.                                     *)
RetryHonest ==
    \A k \in Keys : told[k] # None =>
        /\ now >= told[k].at + told[k].secs * Grain => Level(k) >= Token
        /\ (told[k].secs > 1 /\ now <= told[k].at + (told[k].secs - 1) * Grain) => Level(k) < Token

Ideal == INSTANCE Bucket WITH
    Rate <- MaxTokens, Cost <- Token, level <- [k \in Keys |-> Level(k)]

(* Sweeping idle buckets and filling the others lazily leaves every key the *)
(* level it has at a limiter that never forgets one, and lets a request     *)
(* pass only when that pays for it (limiter.py:29-33: evicting an idle      *)
(* bucket "is behaviorally invisible").                                     *)
NeverForgets == Ideal!BucketSpec
=============================================================================
