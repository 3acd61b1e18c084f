--------------------------- MODULE ClientAssertion ---------------------------
(***************************************************************************)
(* Signed assertions from the request to the verdict: the cache of remote  *)
(* keys (JwksCache) in front of the replay guard (AssertionGuard).  A      *)
(* request resolves the signer's keys, which may take a trip to the        *)
(* network, and is judged in the step in which it has them: between the    *)
(* return of fetch and the end of the validation nothing awaits.           *)
(*                                                                         *)
(* Three callers share the cache: private_key_jwt client authentication,   *)
(* the jwt-bearer grant, and request objects (process_jar), which check a  *)
(* signature and exp and never touch the guard.  Clients authenticated by  *)
(* client_secret_jwt need no keys.                                         *)
(***************************************************************************)
EXTENDS AssertionGuard

CONSTANTS Kids, Fetchers, MinCacheTTL, MaxCacheTTL, FetchTime, MaxAge

VARIABLES published, changed, cached, fetching

INSTANCE JwksCache

ASSUME CacheAssumption ==
    /\ {MinCacheTTL, FetchTime, MaxAge} \subseteq Nat
    /\ MaxCacheTTL \in Nat \ {0}
    /\ MinCacheTTL <= MaxCacheTTL

authVars == <<vars, published, changed, cached, fetching>>

AuthTypeOK == TypeOK /\ CacheTypeOK

AuthInit == Init /\ CacheInit
-----------------------------------------------------------------------------
(* rsa_key_from_jwks, and _select_key of the grant: the key the header      *)
(* names is in the set.                                                     *)
HasKey(keys, kid) == kid \in keys

(* process_jar with a signed object: a verdict on the signature, iss, aud   *)
(* and exp.  A request object has no jti to remember.                       *)
RequestObject(keys, kid) == HasKey(keys, kid) /\ UNCHANGED vars

(* What a request comes to once its keys are resolved.                      *)
Judge(keys) ==
    \E kid \in Kids :
        \* "No matching kid", or a bad signature, audience, issuer or claim
        \/ UNCHANGED vars
        \/ RequestObject(keys, kid)
        \* validate_client_assertion and redeem_jwt_bearer_assertion
        \/ /\ HasKey(keys, kid)
           /\ \E jti \in Jtis, exp \in 1 .. MaxExp :
                 ValidateClientAssertion(jti, exp) \/ RedeemAssertion(jti, exp)

(* A request finds the keys in the cache.                                   *)
JudgeFromCache == \E keys \in SUBSET Kids : Hit(keys) /\ Judge(keys)

(* A request's own answer arrives.                                          *)
JudgeFromAnswer(f) ==
    \E age \in 0 .. MaxAge, keys \in SUBSET Kids :
        Store(f, age, keys) /\ Judge(keys)

(* client_secret_jwt, or keys registered inline: no fetch.                  *)
JudgeWithoutFetch ==
    /\ \E jti \in Jtis, exp \in 1 .. MaxExp : ValidateClientAssertion(jti, exp)
    /\ UNCHANGED <<published, changed, cached, fetching>>

(* What happens at the url and on the network.                              *)
Network ==
    /\ \/ \E k \in Kids : Publish(k) \/ Withdraw(k)
       \/ \E f \in Fetchers : Send(f) \/ Answer(f) \/ Fail(f)
    /\ UNCHANGED vars

AuthTick ==
    /\ InTime
    /\ Tick
    /\ UNCHANGED <<published, changed, cached, fetching>>

AuthRestart == Restart /\ ForgetCache

AuthNext ==
    \/ JudgeFromCache
    \/ \E f \in Fetchers : JudgeFromAnswer(f)
    \/ JudgeWithoutFetch
    \/ Network
    \/ AuthTick
    \/ AuthRestart

AuthSpec == AuthInit /\ [][AuthNext]_authVars
=============================================================================
