------------------------------ MODULE JwksCache ------------------------------
(***************************************************************************)
(* The cache of remote key sets (services/jwks_cache.py), for one url.     *)
(* fetch returns a cached document while it is fresh and otherwise goes to *)
(* the network.  Nothing makes two callers share one request: between the  *)
(* look at the cache and the store there is an await, so several requests  *)
(* can be in flight, the url's owner may change the document meanwhile,    *)
(* and answers are stored in the order in which they arrive.               *)
(*                                                                         *)
(* A request ends within FetchTime of its start: the answer is stored, or  *)
(* the caller gets the error.  The client library applies                  *)
(* JWKS_FETCH_TIMEOUT_SECS to each phase of a request, the connection and  *)
(* every read; FetchTime, for the whole of it, also takes a server that    *)
(* does not send its answer byte by byte.                                  *)
(***************************************************************************)
EXTENDS Integers

CONSTANTS
    Kids,           \* the key ids the owner of the url publishes
    Fetchers,       \* callers of fetch that may be on the network at once
    MinCacheTTL,    \* MIN_TTL_SECS
    MaxCacheTTL,    \* MAX_TTL_SECS
    FetchTime,      \* the time one request takes at most
    MaxAge          \* bound: the largest max-age an answer carries

VARIABLES
    now,         \* the clock
    published,   \* external: the keys of the document now at the url
    changed,     \* observation: when each key was last added or taken away
    cached,      \* _entries[url]: the document's keys and its expiry, or NoEntry
    fetching     \* the requests on the network: fetcher -> its state

NoEntry == [keys |-> {}, expiry |-> 0]

Idle == [pc |-> "idle", started |-> 0, keys |-> {}]

CacheTypeOK ==
    /\ now \in Nat
    /\ published \in SUBSET Kids
    /\ changed \in [Kids -> Nat]
    /\ cached \in [keys : SUBSET Kids, expiry : Nat]
    /\ fetching \in [Fetchers -> [pc : {"idle", "sent", "answered"},
                                  started : Nat, keys : SUBSET Kids]]

CacheInit ==
    /\ published \in SUBSET Kids
    /\ changed = [k \in Kids |-> 0]
    /\ cached = NoEntry
    /\ fetching = [f \in Fetchers |-> Idle]
-----------------------------------------------------------------------------
(* External: the owner of the url adds a key to the document.               *)
Publish(k) ==
    /\ k \notin published
    /\ published' = published \cup {k}
    /\ changed' = [changed EXCEPT ![k] = now]
    /\ UNCHANGED <<cached, fetching>>

(* External: the owner of the url takes a key from the document.            *)
Withdraw(k) ==
    /\ k \in published
    /\ published' = published \ {k}
    /\ changed' = [changed EXCEPT ![k] = now]
    /\ UNCHANGED <<cached, fetching>>

(* The test of fetch: the entry's expiry is still ahead.                    *)
Fresh == cached.expiry > now

(* fetch answers from the cache.                                            *)
Hit(keys) ==
    /\ Fresh
    /\ keys = cached.keys
    /\ UNCHANGED <<published, changed, cached, fetching>>

(* fetch finds no fresh entry and sends its own request.                    *)
Send(f) ==
    /\ ~Fresh
    /\ fetching[f].pc = "idle"
    /\ fetching' = [fetching EXCEPT ![f] = [pc |-> "sent", started |-> now, keys |-> {}]]
    /\ UNCHANGED <<published, changed, cached>>

(* External: the url's server reads the document it will answer with.       *)
Answer(f) ==
    /\ fetching[f].pc = "sent"
    /\ fetching' = [fetching EXCEPT ![f].pc = "answered", ![f].keys = published]
    /\ UNCHANGED <<published, changed, cached>>

(* parse_cache_control_max_age.  DEFAULT_TTL_SECS, which stands for a       *)
(* missing or unreadable max-age, lies between the two bounds.              *)
ClampAge(age) ==
    IF age < MinCacheTTL THEN MinCacheTTL ELSE IF age > MaxCacheTTL THEN MaxCacheTTL ELSE age

(* Mutant of Store: the answer is merged into what is there.                *)
StoreMerges(f, age, keys) ==
    /\ fetching[f].pc = "answered"
    /\ keys = fetching[f].keys
    /\ cached' = [keys |-> cached.keys \cup keys, expiry |-> now + ClampAge(age)]
    /\ fetching' = [fetching EXCEPT ![f] = Idle]
    /\ UNCHANGED <<published, changed>>

(* The answer arrives: it is stored over whatever is there, and its         *)
(* lifetime starts now.                                                     *)
Store(f, age, keys) ==
    /\ fetching[f].pc = "answered"
    /\ keys = fetching[f].keys
    /\ cached' = [keys |-> keys, expiry |-> now + ClampAge(age)]
    /\ fetching' = [fetching EXCEPT ![f] = Idle]
    /\ UNCHANGED <<published, changed>>

(* Mutant of Fail: the failure is cached as a set without keys.             *)
FailCached(f) ==
    /\ fetching[f].pc # "idle"
    /\ fetching' = [fetching EXCEPT ![f] = Idle]
    /\ cached' = [keys |-> {}, expiry |-> now + MinCacheTTL]
    /\ UNCHANGED <<published, changed>>

(* The request fails, times out, or its answer is no key set: the caller    *)
(* gets the error and the old entry stays.                                  *)
Fail(f) ==
    /\ fetching[f].pc # "idle"
    /\ fetching' = [fetching EXCEPT ![f] = Idle]
    /\ UNCHANGED <<published, changed, cached>>

(* The process restarts: the cache is empty and the requests are gone.      *)
ForgetCache ==
    /\ cached' = NoEntry
    /\ fetching' = [f \in Fetchers |-> Idle]
    /\ UNCHANGED <<published, changed>>

(* Time passes only while every request has some left.                      *)
InTime ==
    \A f \in Fetchers :
        fetching[f].pc # "idle" => now < fetching[f].started + FetchTime
-----------------------------------------------------------------------------
(* The key sets a signature could be checked against in this state: the one *)
(* a cache hit returns and those of the answers about to arrive.            *)
InUse ==
    (IF Fresh THEN {cached.keys} ELSE {})
      \cup {fetching[f].keys : f \in {g \in Fetchers : fetching[g].pc = "answered"}}

(* A key its owner has withdrawn stops being accepted: within MAX_TTL_SECS  *)
(* plus the time of one request no key set in use has it.  This is what the *)
(* ceiling of parse_cache_control_max_age is for ("so keys are eventually   *)
(* re-fetched even if the endpoint says to cache forever"), and a slow      *)
(* answer that overwrites a newer document does not defeat it.              *)
WithdrawnKeysDie ==
    \A k \in Kids \ published, keys \in InUse :
        k \in keys => now < changed[k] + MaxCacheTTL + FetchTime

(* fetch has no second try for an unknown kid, so an owner who rotates keys *)
(* has to publish ahead.  MAX_TTL_SECS plus the time of one request is      *)
(* enough: a key published that long is in every key set in use.            *)
SettledKeysFound ==
    \A k \in published, keys \in InUse :
        changed[k] + MaxCacheTTL + FetchTime <= now => k \in keys
=============================================================================
