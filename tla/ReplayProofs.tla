---------------------------- MODULE ReplayProofs ----------------------------
(***************************************************************************)
(* Proofs about what is accepted once and what is forgotten in time: the   *)
(* replay guard of signed assertions (AssertionGuard), the cache of remote *)
(* keys in front of it (JwksCache, ClientAssertion), and the replay store  *)
(* and nonces of DPoP proofs (DpopProof).  For every lifetime and capacity *)
(* and any number of jtis, keys, callers and restarts.                     *)
(***************************************************************************)
EXTENDS ClientAssertion, DpopProof, TLAPS

(***************************************************************************)
(* The replay guard alone, for every MAX_JTI_TTL_SECS and every capacity.  *)
(***************************************************************************)

(* The part of TypeOK the proofs need.                                      *)
Shape ==
    /\ now \in Nat
    /\ \A k \in DOMAIN entries : entries[k] \in Nat
    /\ boot \in Nat
    /\ accepted \in Seq(Accepted)
    /\ \A i \in DOMAIN accepted :
          /\ accepted[i].at <= now
          /\ accepted[i].exp > accepted[i].at
          /\ accepted[i].boot <= boot

(* An assertion this process accepted and that could still be presented is  *)
(* still held: while exp is ahead and MaxTTL has not passed, the key is in  *)
(* the guard with an expiry no earlier than the first of the two.           *)
Held(a) ==
    (a.boot = boot /\ a.exp > now /\ a.at + MaxTTL > now)
    => /\ a.key \in DOMAIN entries
       /\ entries[a.key] >= a.exp \/ entries[a.key] >= a.at + MaxTTL

AllHeld == \A i \in DOMAIN accepted : Held(accepted[i])

(* Only assertions that fit in the guard are redeemed by the grant.         *)
BearerFits ==
    \A i \in DOMAIN accepted :
        accepted[i].key[1] = "bearer" => accepted[i].exp <= accepted[i].at + MaxTTL

(* Two uses of one assertion are apart, by the clamp or by its expiry.      *)
Apart ==
    \A i, k \in DOMAIN accepted :
        (i < k /\ SameAssertion(accepted[i], accepted[k]))
        => accepted[k].at >= accepted[i].at + MaxTTL

IInv == Shape /\ AllHeld /\ BearerFits /\ Apart

(* Observing a key either only sweeps, or appends one acceptance whose key  *)
(* the guard did not hold.                                                  *)
LEMMA ObserveKeeps ==
    ASSUME IInv, NEW key \in Keys, NEW exp \in Nat, exp > now,
           key[1] = "bearer" => exp - now <= MaxTTL,
           Observe(key, exp), UNCHANGED <<now, boot>>
    PROVE  IInv'
<1> DEFINE kept == SweepExpired
           a == [key |-> key, exp |-> exp, at |-> now, boot |-> boot]
<1>0. /\ MaxTTL \in Nat /\ now \in Nat /\ now' = now /\ accepted \in Seq(Accepted)
      /\ boot \in Nat /\ boot' = boot
  BY GuardAssumption DEF IInv, Shape
<1>1. /\ DOMAIN kept = {k \in DOMAIN entries : ~(entries[k] <= now)}
      /\ \A k \in DOMAIN kept : kept[k] = entries[k]
  BY DEF SweepExpired, Without
<1>2. \A i \in DOMAIN accepted : accepted[i] \in Accepted
  BY <1>0
<1>3. \A i \in DOMAIN accepted :
        (accepted[i].boot = boot /\ accepted[i].exp > now /\ accepted[i].at + MaxTTL > now)
        => /\ accepted[i].key \in DOMAIN kept
           /\ kept[accepted[i].key] >= accepted[i].exp
                \/ kept[accepted[i].key] >= accepted[i].at + MaxTTL
  <2> SUFFICES ASSUME NEW i \in DOMAIN accepted,
                      accepted[i].boot = boot, accepted[i].exp > now,
                      accepted[i].at + MaxTTL > now
               PROVE  /\ accepted[i].key \in DOMAIN kept
                      /\ kept[accepted[i].key] >= accepted[i].exp
                           \/ kept[accepted[i].key] >= accepted[i].at + MaxTTL
    OBVIOUS
  <2>1. /\ accepted[i].key \in DOMAIN entries
        /\ entries[accepted[i].key] >= accepted[i].exp
             \/ entries[accepted[i].key] >= accepted[i].at + MaxTTL
    BY DEF IInv, AllHeld, Held
  <2>2. accepted[i].exp \in Nat /\ accepted[i].at \in Nat
    BY <1>2 DEF Accepted
  <2>3. entries[accepted[i].key] \in Nat
    BY <2>1 DEF IInv, Shape
  <2> HIDE DEF kept
  <2> QED BY <1>0, <1>1, <2>1, <2>2, <2>3
<1>4. CASE /\ entries' = kept
           /\ UNCHANGED accepted
  <2>1. Shape'
    BY <1>0, <1>1, <1>4 DEF IInv, Shape
  <2>2. AllHeld'
    BY <1>0, <1>3, <1>4 DEF AllHeld, Held
  <2>3. BearerFits' /\ Apart'
    BY <1>4 DEF IInv, BearerFits, Apart
  <2> QED BY <2>1, <2>2, <2>3 DEF IInv
<1>5. CASE /\ key \notin DOMAIN kept
           /\ entries' = With(kept, key, now + Clamp(exp - now))
           /\ accepted' = Append(accepted, a)
  <2> DEFINE n == Len(accepted) + 1
  <2>1. a \in Accepted
    BY <1>0 DEF Accepted
  <2>2. /\ accepted' \in Seq(Accepted)
        /\ DOMAIN accepted = 1 .. Len(accepted)
        /\ Len(accepted) \in Nat
        /\ DOMAIN accepted' = DOMAIN accepted \cup {n}
        /\ n \notin DOMAIN accepted
        /\ \A i \in DOMAIN accepted : i < n
    <3>1. /\ accepted' \in Seq(Accepted)
          /\ Len(accepted') = Len(accepted) + 1
      BY <1>0, <1>5, <2>1
    <3>2. DOMAIN accepted = 1 .. Len(accepted) /\ Len(accepted) \in Nat
      BY <1>0
    <3>3. DOMAIN accepted' = 1 .. (Len(accepted) + 1)
      BY <3>1
    <3> QED BY <3>1, <3>2, <3>3
  <2>3. accepted'[n] = a /\ \A i \in DOMAIN accepted : accepted'[i] = accepted[i]
    BY <1>0, <1>5, <2>1, <2>2
  <2>4. /\ DOMAIN entries' = DOMAIN kept \cup {key}
        /\ entries'[key] = now + Clamp(exp - now)
        /\ \A k \in DOMAIN kept : entries'[k] = kept[k]
    BY <1>5 DEF With
  <2>5. /\ now + Clamp(exp - now) \in Nat
        /\ now + Clamp(exp - now) >= exp \/ now + Clamp(exp - now) >= now + MaxTTL
    BY <1>0 DEF Clamp
  <2>6. a.key = key /\ a.exp = exp /\ a.at = now /\ a.boot = boot
    OBVIOUS
  <2>7. \A k \in DOMAIN kept : entries[k] \in Nat
    BY <1>1 DEF IInv, Shape
  <2> HIDE DEF kept, a, n
  <2>8. Shape'
    <3>1. \A k \in DOMAIN entries' : entries'[k] \in Nat
      BY <1>1, <2>4, <2>5, <2>7
    <3>2. \A i \in DOMAIN accepted' :
            /\ accepted'[i].at <= now
            /\ accepted'[i].exp > accepted'[i].at
            /\ accepted'[i].boot <= boot
      BY <1>0, <2>2, <2>3, <2>6 DEF IInv, Shape
    <3> QED BY <1>0, <2>2, <3>1, <3>2 DEF Shape
  <2>9. AllHeld'
    <3>1. \A i \in DOMAIN accepted :
            (accepted[i].boot = boot /\ accepted[i].exp > now /\ accepted[i].at + MaxTTL > now)
            => /\ accepted[i].key \in DOMAIN entries'
               /\ entries'[accepted[i].key] >= accepted[i].exp
                    \/ entries'[accepted[i].key] >= accepted[i].at + MaxTTL
      BY <1>3, <2>4
    <3>2. ASSUME NEW i \in DOMAIN accepted'
          PROVE  Held(accepted[i])'
      <4>1. CASE i = n
        BY Zenon, <1>0, <2>3, <2>4, <2>5, <2>6, <4>1 DEF Held
      <4>2. CASE i \in DOMAIN accepted
        BY Zenon, <1>0, <2>3, <3>1, <4>2 DEF Held
      <4> QED BY <2>2, <4>1, <4>2
    <3> QED BY <3>2 DEF AllHeld
  <2>10. BearerFits'
    <3>1. key[1] = "bearer" => exp <= now + MaxTTL
      BY <1>0
    <3> QED BY <2>2, <2>3, <2>6, <3>1 DEF IInv, BearerFits
  <2>11. Apart'
    <3>1. \A i \in DOMAIN accepted :
            SameAssertion(accepted[i], a) => now >= accepted[i].at + MaxTTL
      <4> SUFFICES ASSUME NEW i \in DOMAIN accepted, SameAssertion(accepted[i], a),
                          ~(now >= accepted[i].at + MaxTTL)
                   PROVE  FALSE
        OBVIOUS
      <4>1. accepted[i].at \in Nat
        BY <1>2 DEF Accepted
      <4>2. accepted[i].exp > now /\ accepted[i].at + MaxTTL > now
        BY <1>0, <2>6, <4>1 DEF SameAssertion
      <4> QED BY <1>3, <1>5, <2>6, <4>2 DEF SameAssertion
    <3> SUFFICES ASSUME NEW i \in DOMAIN accepted', NEW k \in DOMAIN accepted',
                        i < k, SameAssertion(accepted'[i], accepted'[k])
                 PROVE  accepted'[k].at >= accepted'[i].at + MaxTTL
      BY DEF Apart, SameAssertion
    <3>2. i \in DOMAIN accepted
      BY <2>2 DEF n
    <3>3. CASE k = n
      BY Zenon, <2>3, <2>6, <3>1, <3>2, <3>3
    <3>4. CASE k \in DOMAIN accepted
      BY <2>3, <3>2, <3>4 DEF IInv, Apart
    <3> QED BY <2>2, <3>3, <3>4
  <2> QED BY <2>8, <2>9, <2>10, <2>11 DEF IInv
<1> QED BY <1>4, <1>5 DEF Observe

(* The strengthened invariant is inductive.                                 *)
THEOREM Inductive == Spec => []IInv
<1>1. Init => IInv
  <2> SUFFICES ASSUME Init PROVE IInv
    OBVIOUS
  <2>1. now = 0 /\ boot = 0 /\ DOMAIN entries = {} /\ accepted = <<>> /\ DOMAIN accepted = {}
    BY DEF Init
  <2>2. accepted \in Seq(Accepted)
    BY <2>1
  <2> QED BY <2>1, <2>2 DEF IInv, Shape, AllHeld, BearerFits, Apart
<1>2. IInv /\ [Next]_vars => IInv'
  <2> SUFFICES ASSUME IInv, [Next]_vars PROVE IInv'
    OBVIOUS
  <2>0. now \in Nat /\ MaxTTL \in Nat /\ MaxExp \in Nat
    BY GuardAssumption DEF IInv, Shape
  <2>1. ASSUME NEW jti \in Jtis, NEW exp \in 1 .. MaxExp, ValidateClientAssertion(jti, exp)
        PROVE  IInv'
    <3>1. <<"client", jti>> \in Keys /\ <<"client", jti>>[1] # "bearer" /\ exp \in Nat
      BY <2>0 DEF Keys, Kinds
    <3> QED BY <2>1, <3>1, ObserveKeeps DEF ValidateClientAssertion
  <2>2. ASSUME NEW jti \in Jtis, NEW exp \in 1 .. MaxExp, RedeemAssertion(jti, exp)
        PROVE  IInv'
    <3>1. <<"bearer", jti>> \in Keys /\ exp \in Nat /\ exp - now <= MaxTTL
      BY <2>0, <2>2 DEF Keys, Kinds, RedeemAssertion, ShortLived
    <3> QED BY <2>2, <3>1, ObserveKeeps DEF RedeemAssertion
  <2>3. CASE Tick
    <3>1. now' = now + 1 /\ now' \in Nat /\ UNCHANGED <<entries, accepted, boot>>
      BY <2>0, <2>3 DEF Tick, Passes
    <3>2. \A i \in DOMAIN accepted : accepted[i] \in Accepted
      BY DEF IInv, Shape
    <3>3. Shape'
      BY <2>0, <3>1, <3>2 DEF IInv, Shape, Accepted
    <3>4. AllHeld'
      BY <2>0, <3>1, <3>2 DEF IInv, AllHeld, Held, Accepted
    <3>5. BearerFits' /\ Apart'
      BY Zenon, <3>1 DEF IInv, BearerFits, Apart
    <3> QED BY <3>3, <3>4, <3>5 DEF IInv
  <2>4. CASE UNCHANGED vars
    BY <2>4 DEF vars, IInv, Shape, AllHeld, Held, BearerFits, Apart, SameAssertion
  <2>5. CASE Restart
    <3>1. /\ boot \in Nat /\ boot' = boot + 1 /\ UNCHANGED <<now, accepted>>
          /\ DOMAIN entries' = {}
      BY <2>5 DEF Restart, IInv, Shape
    <3>2. \A i \in DOMAIN accepted : accepted[i].boot \in Nat /\ accepted[i].boot <= boot
      <4>1. \A i \in DOMAIN accepted : accepted[i] \in Accepted
        BY DEF IInv, Shape
      <4> QED BY <4>1 DEF IInv, Shape, Accepted
    <3>3. Shape'
      BY <3>1, <3>2 DEF IInv, Shape
    <3>4. AllHeld'
      BY <3>1, <3>2 DEF AllHeld, Held
    <3>5. BearerFits' /\ Apart'
      BY <3>1 DEF IInv, BearerFits, Apart, SameAssertion
    <3> QED BY <3>3, <3>4, <3>5 DEF IInv
  <2> QED BY <2>1, <2>2, <2>3, <2>4, <2>5 DEF Next
<1> QED BY <1>1, <1>2, PTL DEF Spec

(* One client assertion is accepted at most once in each window of          *)
(* MAX_JTI_TTL_SECS, whatever its exp and however full the guard gets.      *)
THEOREM ClientUsesAreSpaced == Spec => []ClientUsesSpaced
<1>1. IInv => ClientUsesSpaced
  BY DEF IInv, Apart, ClientUsesSpaced
<1> QED BY <1>1, Inductive, PTL

(* A jwt-bearer assertion is redeemed at most once: it fits in the guard,   *)
(* so by the time its entry may go it has expired.                          *)
THEOREM BearerRedeemedOnce == Spec => []BearerUsedOnce
<1>1. IInv => BearerUsedOnce
  <2> SUFFICES ASSUME IInv, NEW i \in DOMAIN accepted, NEW k \in DOMAIN accepted,
                      SameAssertion(accepted[i], accepted[k]),
                      accepted[i].key[1] = "bearer", i # k
               PROVE  FALSE
    BY Zenon DEF BearerUsedOnce
  <2>0. MaxTTL \in Nat /\ DOMAIN accepted = 1 .. Len(accepted) /\ Len(accepted) \in Nat
    BY GuardAssumption DEF IInv, Shape
  <2>1. accepted[i] \in Accepted /\ accepted[k] \in Accepted
    BY <2>0 DEF IInv, Shape
  <2>2. /\ accepted[i].at \in Nat /\ accepted[i].exp \in Nat
        /\ accepted[k].at \in Nat /\ accepted[k].exp \in Nat
    BY Zenon, <2>1 DEF Accepted
  <2>3. /\ accepted[i].exp <= accepted[i].at + MaxTTL
        /\ accepted[k].exp <= accepted[k].at + MaxTTL
        /\ accepted[i].exp > accepted[i].at
        /\ accepted[k].exp > accepted[k].at
    BY Zenon DEF IInv, BearerFits, Shape, SameAssertion
  <2>4. CASE i < k
    <3>1. accepted[k].at >= accepted[i].at + MaxTTL
      BY <2>4 DEF IInv, Apart
    <3> QED BY <2>0, <2>2, <2>3, <3>1 DEF SameAssertion
  <2>5. CASE k < i
    <3>1. accepted[i].at >= accepted[k].at + MaxTTL
      BY <2>5 DEF IInv, Apart, SameAssertion
    <3> QED BY <2>0, <2>2, <2>3, <3>1 DEF SameAssertion
  <2> QED BY <2>0, <2>4, <2>5
<1> QED BY <1>1, Inductive, PTL
-----------------------------------------------------------------------------
(***************************************************************************)
(* The key cache in front of the replay guard: how long a key set may      *)
(* differ from what its owner publishes, and that the composition keeps the*)
(* promises of the guard alone.                                            *)
(*                                                                         *)
(* A key set differs from the published one in a key that changed after    *)
(* the set was read, and a set is read after its request started.  Hence   *)
(* an answer on its way is at most FetchTime older than the last change it *)
(* has missed, and an entry lives at most MaxCacheTTL from its arrival.    *)
(***************************************************************************)

(* The set and the document at the url disagree about key k.                *)
Differs(keys, k) == (k \in keys) # (k \in published)

OnTime ==
    \A f \in Fetchers :
        fetching[f].pc # "idle" =>
            fetching[f].started <= now /\ now <= fetching[f].started + FetchTime

AnswersRecent ==
    \A f \in Fetchers, k \in Kids :
        fetching[f].pc = "answered" /\ Differs(fetching[f].keys, k)
        => fetching[f].started <= changed[k]

EntryRecent ==
    /\ cached.expiry <= now + MaxCacheTTL
    /\ \A k \in Kids :
          Differs(cached.keys, k) => cached.expiry <= changed[k] + FetchTime + MaxCacheTTL

CacheInv == CacheTypeOK /\ OnTime /\ AnswersRecent /\ EntryRecent
-----------------------------------------------------------------------------
LEMMA ClampBounded ==
  ASSUME NEW age \in Nat
  PROVE  ClampAge(age) \in Nat /\ ClampAge(age) <= MaxCacheTTL
  BY CacheAssumption DEF ClampAge

LEMMA CacheInitInv == AuthInit => CacheInv
<1> SUFFICES ASSUME AuthInit PROVE CacheInv
  OBVIOUS
<1>1. CacheTypeOK
  BY DEF AuthInit, Init, CacheInit, CacheTypeOK, NoEntry, Idle
<1>2. OnTime /\ AnswersRecent
  BY DEF AuthInit, CacheInit, OnTime, AnswersRecent, Idle
<1>3. EntryRecent
  BY CacheAssumption DEF AuthInit, Init, CacheInit, EntryRecent, NoEntry
<1> QED BY <1>1, <1>2, <1>3 DEF CacheInv
-----------------------------------------------------------------------------
(* Whatever is decided about an assertion, no time passes.                  *)
LEMMA JudgeTakesNoTime ==
  ASSUME NEW keys, Judge(keys)
  PROVE  now' = now
  BY Zenon DEF Judge, RequestObject, ValidateClientAssertion, RedeemAssertion, vars

(* The owner's change is dated now, and everything in use was read before.  *)
LEMMA ChangeStep ==
  ASSUME CacheInv, NEW k \in Kids, Publish(k) \/ Withdraw(k), now' = now
  PROVE  CacheInv'
<1>1. /\ published' \subseteq Kids
      /\ changed' = [changed EXCEPT ![k] = now]
      /\ \A j \in Kids : j # k => (j \in published' <=> j \in published)
      /\ UNCHANGED <<now, cached, fetching>>
  BY DEF Publish, Withdraw, CacheInv, CacheTypeOK
<1>2. CacheTypeOK'
  BY <1>1 DEF CacheInv, CacheTypeOK
<1>3. OnTime'
  BY <1>1 DEF CacheInv, OnTime
<1>4. AnswersRecent'
  BY <1>1 DEF CacheInv, CacheTypeOK, OnTime, AnswersRecent, Differs
<1>5. EntryRecent'
  BY <1>1, CacheAssumption DEF CacheInv, CacheTypeOK, EntryRecent, Differs
<1> QED BY <1>2, <1>3, <1>4, <1>5 DEF CacheInv

(* A request is dated when it is sent.                                      *)
LEMMA SendStep ==
  ASSUME CacheInv, NEW f \in Fetchers, Send(f), now' = now
  PROVE  CacheInv'
<1>1. /\ fetching' = [fetching EXCEPT ![f] = [pc |-> "sent", started |-> now, keys |-> {}]]
      /\ UNCHANGED <<now, published, changed, cached>>
  BY DEF Send
<1>2. CacheTypeOK'
  BY <1>1 DEF CacheInv, CacheTypeOK
<1>3. OnTime'
  BY <1>1, CacheAssumption DEF CacheInv, CacheTypeOK, OnTime
<1>4. AnswersRecent' /\ EntryRecent'
  BY <1>1 DEF CacheInv, CacheTypeOK, AnswersRecent, EntryRecent, Differs
<1> QED BY <1>2, <1>3, <1>4 DEF CacheInv

(* What the server reads differs in nothing from what is published.         *)
LEMMA AnswerStep ==
  ASSUME CacheInv, NEW f \in Fetchers, Answer(f), now' = now
  PROVE  CacheInv'
<1>1. /\ fetching[f].pc = "sent"
      /\ fetching' = [fetching EXCEPT ![f].pc = "answered", ![f].keys = published]
      /\ UNCHANGED <<now, published, changed, cached>>
  BY DEF Answer
<1>2. CacheTypeOK'
  BY ZenonT(40), <1>1 DEF CacheInv, CacheTypeOK
<1>3. OnTime'
  BY <1>1 DEF CacheInv, CacheTypeOK, OnTime
<1>4. AnswersRecent' /\ EntryRecent'
  BY <1>1 DEF CacheInv, CacheTypeOK, AnswersRecent, EntryRecent, Differs
<1> QED BY <1>2, <1>3, <1>4 DEF CacheInv

(* A request that fails leaves the cache as it is.                          *)
LEMMA FailStep ==
  ASSUME CacheInv, NEW f \in Fetchers, Fail(f), now' = now
  PROVE  CacheInv'
<1>1. fetching' = [fetching EXCEPT ![f] = Idle] /\ UNCHANGED <<now, published, changed, cached>>
  BY DEF Fail
<1>2. CacheTypeOK'
  BY <1>1 DEF CacheInv, CacheTypeOK, Idle
<1>3. OnTime' /\ AnswersRecent' /\ EntryRecent'
  BY <1>1 DEF CacheInv, CacheTypeOK, OnTime, AnswersRecent, EntryRecent, Differs, Idle
<1> QED BY <1>2, <1>3 DEF CacheInv

(* The answer that arrives takes its age into the entry, also when it is    *)
(* older than the entry it replaces.                                        *)
LEMMA StoreStep ==
  ASSUME CacheInv, NEW f \in Fetchers, NEW age \in Nat, NEW keys, Store(f, age, keys), now' = now
  PROVE  CacheInv'
<1>1. /\ fetching[f].pc = "answered"
      /\ cached' = [keys |-> fetching[f].keys, expiry |-> now + ClampAge(age)]
      /\ fetching' = [fetching EXCEPT ![f] = Idle]
      /\ UNCHANGED <<now, published, changed>>
  BY DEF Store
<1>2. ClampAge(age) \in Nat /\ ClampAge(age) <= MaxCacheTTL
  BY ClampBounded
<1>3. CacheTypeOK'
  BY <1>1, <1>2 DEF CacheInv, CacheTypeOK, Idle
<1>4. OnTime' /\ AnswersRecent'
  BY <1>1 DEF CacheInv, CacheTypeOK, OnTime, AnswersRecent, Differs, Idle
<1>5. EntryRecent'
  <2>1. cached'.expiry <= now' + MaxCacheTTL
    BY <1>1, <1>2, CacheAssumption DEF CacheInv, CacheTypeOK
  <2>2. ASSUME NEW k \in Kids, Differs(cached.keys, k)'
        PROVE  cached'.expiry <= changed'[k] + FetchTime + MaxCacheTTL
    <3>1. fetching[f].started <= changed[k] /\ now <= fetching[f].started + FetchTime
      BY <1>1, <2>2 DEF CacheInv, OnTime, AnswersRecent, Differs
    <3> QED BY <1>1, <1>2, <3>1, CacheAssumption DEF CacheInv, CacheTypeOK
  <2> QED BY <2>1, <2>2 DEF EntryRecent
<1> QED BY <1>3, <1>4, <1>5 DEF CacheInv

(* Time passes while every request has some left.                           *)
LEMMA TimeStep ==
  ASSUME CacheInv, AuthTick
  PROVE  CacheInv'
<1>1. InTime /\ now' = now + 1 /\ UNCHANGED <<published, changed, cached, fetching>>
  BY DEF AuthTick, Tick, Passes
<1>2. CacheTypeOK'
  BY <1>1 DEF CacheInv, CacheTypeOK
<1>3. OnTime'
  BY <1>1, CacheAssumption DEF CacheInv, CacheTypeOK, OnTime, InTime
<1>4. AnswersRecent' /\ EntryRecent'
  BY <1>1, CacheAssumption DEF CacheInv, CacheTypeOK, AnswersRecent, EntryRecent, Differs
<1> QED BY <1>2, <1>3, <1>4 DEF CacheInv

LEMMA RestartStep ==
  ASSUME CacheInv, AuthRestart
  PROVE  CacheInv'
<1>1. /\ cached' = NoEntry /\ fetching' = [f \in Fetchers |-> Idle]
      /\ UNCHANGED <<now, published, changed>>
  BY Zenon DEF AuthRestart, Restart, ForgetCache
<1>2. CacheTypeOK'
  BY Zenon, <1>1 DEF CacheInv, CacheTypeOK, NoEntry, Idle
<1>3. OnTime' /\ AnswersRecent'
  BY <1>1 DEF OnTime, AnswersRecent, Idle
<1>4. EntryRecent'
  BY <1>1, CacheAssumption DEF CacheInv, CacheTypeOK, EntryRecent, NoEntry
<1> QED BY <1>2, <1>3, <1>4 DEF CacheInv
-----------------------------------------------------------------------------
(* The cache's invariant, kept by every step of the composition.            *)
THEOREM CacheInductive == AuthSpec => []CacheInv
<1>1. CacheInv /\ [AuthNext]_authVars => CacheInv'
  <2> SUFFICES ASSUME CacheInv, [AuthNext]_authVars PROVE CacheInv'
    OBVIOUS
  <2>1. CASE JudgeFromCache \/ JudgeWithoutFetch \/ UNCHANGED authVars
    <3>1. UNCHANGED <<published, changed, cached, fetching>>
      BY Zenon, <2>1 DEF JudgeFromCache, JudgeWithoutFetch, Hit, authVars
    <3>2. now' = now
      BY Zenon, <2>1, JudgeTakesNoTime
         DEF JudgeFromCache, JudgeWithoutFetch, ValidateClientAssertion, authVars, vars
    <3> QED BY Zenon, <3>1, <3>2
            DEF CacheInv, CacheTypeOK, OnTime, AnswersRecent, EntryRecent, Differs
  <2>2. ASSUME NEW f \in Fetchers, JudgeFromAnswer(f) PROVE CacheInv'
    <3>1. PICK age \in 0 .. MaxAge, keys \in SUBSET Kids : Store(f, age, keys) /\ Judge(keys)
      BY <2>2 DEF JudgeFromAnswer
    <3>2. age \in Nat /\ now' = now
      BY <3>1, JudgeTakesNoTime, CacheAssumption
    <3> QED BY <3>1, <3>2, StoreStep
  <2>3. CASE Network
    <3>1. now' = now
      BY <2>3 DEF Network, vars
    <3> QED BY <2>3, <3>1, ChangeStep, SendStep, AnswerStep, FailStep DEF Network
  <2>4. CASE AuthTick
    BY <2>4, TimeStep
  <2>5. CASE AuthRestart
    BY <2>5, RestartStep
  <2> QED BY Zenon, <2>1, <2>2, <2>3, <2>4, <2>5 DEF AuthNext
<1> QED BY <1>1, CacheInitInv, PTL DEF AuthSpec

(* A key set in use that differs from the published one in a key differs    *)
(* because of a change no older than the bound.                             *)
LEMMA InUseRecent ==
  ASSUME CacheInv, NEW keys \in InUse, NEW k \in Kids, Differs(keys, k)
  PROVE  now < changed[k] + MaxCacheTTL + FetchTime
<1>1. CASE Fresh /\ keys = cached.keys
  BY <1>1, CacheAssumption DEF CacheInv, CacheTypeOK, EntryRecent, Fresh
<1>2. CASE \E f \in Fetchers : fetching[f].pc = "answered" /\ keys = fetching[f].keys
  <2>1. PICK f \in Fetchers : fetching[f].pc = "answered" /\ keys = fetching[f].keys
    BY <1>2
  <2>2. fetching[f].started <= changed[k] /\ now <= fetching[f].started + FetchTime
    BY <2>1 DEF CacheInv, AnswersRecent, OnTime
  <2> QED BY <2>1, <2>2, CacheAssumption DEF CacheInv, CacheTypeOK
<1> QED BY <1>1, <1>2 DEF InUse

(* The ceiling of parse_cache_control_max_age and the time of one request   *)
(* bound how long a withdrawn key verifies anything, however many callers   *)
(* of fetch overtake one another.                                           *)
THEOREM WithdrawnKeysAlwaysDie == AuthSpec => []WithdrawnKeysDie
<1>1. CacheInv => WithdrawnKeysDie
  BY Zenon, InUseRecent DEF WithdrawnKeysDie, Differs
<1> QED BY <1>1, CacheInductive, PTL

(* Publishing a key that long ahead of its first use is always enough.      *)
THEOREM SettledKeysAlwaysFound == AuthSpec => []SettledKeysFound
<1>1. CacheInv => SettledKeysFound
  <2> SUFFICES ASSUME CacheInv, NEW k \in published, NEW keys \in InUse,
                      changed[k] + MaxCacheTTL + FetchTime <= now, k \notin keys
               PROVE  FALSE
    BY DEF SettledKeysFound
  <2>1. k \in Kids /\ Differs(keys, k)
    BY DEF CacheInv, CacheTypeOK, Differs
  <2>2. now < changed[k] + MaxCacheTTL + FetchTime
    BY <2>1, InUseRecent
  <2> QED BY <2>1, <2>2, CacheAssumption DEF CacheInv, CacheTypeOK
<1> QED BY <1>1, CacheInductive, PTL
-----------------------------------------------------------------------------
(* Resolving keys over the network changes nothing of what the guard        *)
(* promises: every step of the composition is a step of the guard alone, or *)
(* none at all.                                                             *)
THEOREM CompositionKeepsGuard == AuthSpec => Spec
<1>1. AuthInit => Init
  BY DEF AuthInit
<1>2. [AuthNext]_authVars => [Next]_vars
  <2> SUFFICES ASSUME [AuthNext]_authVars PROVE Next \/ UNCHANGED vars
    OBVIOUS
  <2>1. ASSUME NEW keys, Judge(keys) PROVE Next \/ UNCHANGED vars
    BY <2>1 DEF Judge, RequestObject, Next
  <2>2. CASE JudgeFromCache
    BY <2>1, <2>2 DEF JudgeFromCache
  <2>3. ASSUME NEW f \in Fetchers, JudgeFromAnswer(f) PROVE Next \/ UNCHANGED vars
    BY <2>1, <2>3 DEF JudgeFromAnswer
  <2>4. CASE JudgeWithoutFetch
    BY <2>4 DEF JudgeWithoutFetch, Next
  <2>5. CASE Network \/ UNCHANGED authVars
    BY <2>5 DEF Network, authVars
  <2>6. CASE AuthTick
    BY <2>6 DEF AuthTick, Next
  <2>7. CASE AuthRestart
    BY <2>7 DEF AuthRestart, Next
  <2> QED BY <2>2, <2>3, <2>4, <2>5, <2>6, <2>7 DEF AuthNext
<1> QED BY <1>1, <1>2, PTL DEF AuthSpec, Spec

(* Hence a jwt-bearer assertion is redeemed once per process in the whole   *)
(* system too.                                                              *)
THEOREM BearerRedeemedOnceBehindCache == AuthSpec => []BearerUsedOnce
BY CompositionKeepsGuard, BearerRedeemedOnce, PTL

(* And a client assertion at most once in each MAX_JTI_TTL_SECS.            *)
THEOREM ClientUsesAreSpacedBehindCache == AuthSpec => []ClientUsesSpaced
BY CompositionKeepsGuard, ClientUsesAreSpaced, PTL
-----------------------------------------------------------------------------
(***************************************************************************)
(* DPoP proofs and nonces, for every skew and every TTL above twice it.    *)
(***************************************************************************)

(* The part of TypeOK the proofs need.                                      *)
StoreShape ==
    /\ now \in Nat
    /\ \A j \in DOMAIN seen : seen[j] \in Nat
    /\ proven \in Seq(Proof)

(* A proof that would still pass the iat check is in the store, and stays   *)
(* there beyond the last instant at which it would.                         *)
FreshHeld ==
    \A i \in DOMAIN proven :
        now - proven[i].iat <= Skew
        => /\ proven[i].jti \in DOMAIN seen
           /\ seen[proven[i].jti] > proven[i].iat + Skew

StoreInv == StoreShape /\ FreshHeld /\ ProofUsedOnce

(* The sweep drops no proof that is still fresh.                            *)
LEMMA SweepKeeps ==
    ASSUME StoreInv
    PROVE  /\ \A j \in DOMAIN SweepSeen : SweepSeen[j] \in Nat
           /\ \A i \in DOMAIN proven :
                 now - proven[i].iat <= Skew
                 => /\ proven[i].jti \in DOMAIN SweepSeen
                    /\ SweepSeen[proven[i].jti] > proven[i].iat + Skew
<1> DEFINE kept == SweepSeen
<1>1. /\ DOMAIN kept = {j \in DOMAIN seen : ~(seen[j] <= now)}
      /\ \A j \in DOMAIN kept : kept[j] = seen[j]
  BY DEF SweepSeen, Without
<1>2. \A j \in DOMAIN kept : kept[j] \in Nat
  <2> HIDE DEF kept
  <2> QED BY Zenon, <1>1 DEF StoreInv, StoreShape
<1>3. ASSUME NEW i \in DOMAIN proven, now - proven[i].iat <= Skew
      PROVE  /\ proven[i].jti \in DOMAIN kept
             /\ kept[proven[i].jti] > proven[i].iat + Skew
  <2>1. /\ proven[i].jti \in DOMAIN seen
        /\ seen[proven[i].jti] > proven[i].iat + Skew
    BY Zenon, <1>3 DEF StoreInv, FreshHeld
  <2>2. seen[proven[i].jti] \in Nat /\ now \in Nat /\ Skew \in Nat
    BY Zenon, <2>1, DpopAssumption DEF StoreInv, StoreShape
  <2>3. proven[i] \in Proof
    BY DEF StoreInv, StoreShape
  <2>4. proven[i].iat \in Nat
    BY Zenon, <2>3 DEF Proof
  <2>5. ~(seen[proven[i].jti] <= now)
    BY <1>3, <2>1, <2>2, <2>4
  <2> HIDE DEF kept
  <2> QED BY Zenon, <1>1, <2>1, <2>5
<1> QED BY Zenon, <1>2, <1>3

(* validate_dpop_proof keeps the invariant.                                 *)
LEMMA ValidateKeeps ==
    ASSUME StoreInv, NEW jti \in ProofJtis, NEW iat \in Nat, NEW required, NEW nonce,
           ValidateProof(jti, iat, required, nonce)
    PROVE  StoreInv'
<1> DEFINE kept == SweepSeen
           p == [jti |-> jti, iat |-> iat]
<1>0. /\ now \in Nat /\ now' = now /\ proven \in Seq(Proof)
      /\ Skew \in Nat /\ ReplayTTL \in Nat /\ ReplayTTL > 2 * Skew
  BY Zenon, DpopAssumption DEF StoreInv, StoreShape, ValidateProof
<1>1. /\ \A j \in DOMAIN kept : kept[j] \in Nat
      /\ \A i \in DOMAIN proven :
            now - proven[i].iat <= Skew
            => /\ proven[i].jti \in DOMAIN kept
               /\ kept[proven[i].jti] > proven[i].iat + Skew
  BY Zenon, SweepKeeps
<1>2. InWindow(iat)
  BY DEF ValidateProof
<1>3. CASE seen' = kept /\ UNCHANGED proven
  <2>1. StoreShape' /\ FreshHeld'
    BY <1>0, <1>1, <1>3 DEF StoreShape, FreshHeld
  <2> QED BY Zenon, <1>3, <2>1 DEF StoreInv, ProofUsedOnce
<1>4. CASE /\ jti \notin DOMAIN kept
           /\ seen' = With(kept, jti, ExpiryOf(now))
           /\ proven' = Append(proven, p)
  <2> DEFINE n == Len(proven) + 1
  <2>1. p \in Proof /\ p.jti = jti /\ p.iat = iat
    BY DEF Proof
  <2>2. /\ proven' \in Seq(Proof)
        /\ DOMAIN proven' = DOMAIN proven \cup {n}
        /\ n \notin DOMAIN proven
    <3>1. proven' \in Seq(Proof) /\ Len(proven') = Len(proven) + 1
      BY <1>0, <1>4, <2>1
    <3>2. DOMAIN proven = 1 .. Len(proven) /\ Len(proven) \in Nat
      BY <1>0
    <3>3. DOMAIN proven' = 1 .. (Len(proven) + 1)
      BY <3>1
    <3> QED BY <3>1, <3>2, <3>3
  <2>3. proven'[n] = p /\ \A i \in DOMAIN proven : proven'[i] = proven[i]
    <3>1. DOMAIN proven = 1 .. Len(proven) /\ Len(proven) \in Nat
      BY <1>0
    <3> QED BY <1>0, <1>4, <2>1, <3>1
  <2>4. /\ DOMAIN seen' = DOMAIN kept \cup {jti}
        /\ seen'[jti] = now + ReplayTTL
        /\ \A j \in DOMAIN kept : seen'[j] = kept[j]
    BY Zenon, <1>4 DEF With, ExpiryOf
  <2>5. now + ReplayTTL \in Nat /\ now + ReplayTTL > iat + Skew /\ now - iat <= Skew
    BY <1>0, <1>2 DEF InWindow
  <2> HIDE DEF kept, p, n
  <2>6. StoreShape'
    <3>1. \A j \in DOMAIN seen' : seen'[j] \in Nat
      BY Zenon, <1>1, <2>4, <2>5
    <3> QED BY Zenon, <1>0, <2>2, <3>1 DEF StoreShape
  <2>7. FreshHeld'
    <3> SUFFICES ASSUME NEW i \in DOMAIN proven', now - proven'[i].iat <= Skew
                 PROVE  /\ proven'[i].jti \in DOMAIN seen'
                        /\ seen'[proven'[i].jti] > proven'[i].iat + Skew
      BY Zenon, <1>0 DEF FreshHeld
    <3>1. CASE i = n
      BY ZenonT(40), <2>1, <2>3, <2>4, <2>5, <3>1
    <3>2. CASE i \in DOMAIN proven
      BY <1>1, <2>3, <2>4, <3>2
    <3> QED BY Zenon, <2>2, <3>1, <3>2
  <2>8. \A i \in DOMAIN proven : proven[i] # p
    BY Zenon, <1>1, <1>4, <2>1, <2>5
  <2>9. ProofUsedOnce'
    BY <2>2, <2>3, <2>8 DEF StoreInv, ProofUsedOnce
  <2> QED BY Zenon, <2>6, <2>7, <2>9 DEF StoreInv
<1> QED BY Zenon, <1>3, <1>4 DEF ValidateProof

(* A proof is accepted at most once: the replay store holds its jti for as  *)
(* long as the iat window, inclusive at both ends, lets it be fresh.        *)
THEOREM ProofAcceptedOnce == DpopSpec => []ProofUsedOnce
<1>1. DpopInit => StoreInv
  <2> SUFFICES ASSUME DpopInit PROVE StoreInv
    OBVIOUS
  <2>1. now = 0 /\ DOMAIN seen = {} /\ proven = <<>> /\ DOMAIN proven = {}
    BY DEF DpopInit
  <2>2. proven \in Seq(Proof)
    BY <2>1
  <2> QED BY <2>1, <2>2 DEF StoreInv, StoreShape, FreshHeld, ProofUsedOnce
<1>2. StoreInv /\ [DpopNext]_dpopVars => StoreInv'
  <2> SUFFICES ASSUME StoreInv, [DpopNext]_dpopVars PROVE StoreInv'
    OBVIOUS
  <2>0. now \in Nat /\ Skew \in Nat /\ DpopTime \in Nat
    BY DpopAssumption DEF StoreInv, StoreShape
  <2>1. ASSUME NEW jti \in ProofJtis, NEW iat \in 0 .. DpopTime, NEW required \in BOOLEAN,
               NEW nonce \in issued \cup {NoNonce}, ValidateProof(jti, iat, required, nonce)
        PROVE  StoreInv'
    <3>1. iat \in Nat
      BY <2>0
    <3> QED BY <2>1, <3>1, ValidateKeeps
  <2>2. CASE DpopRestart
    <3>1. now' = now /\ DOMAIN seen' = {} /\ proven' = <<>> /\ DOMAIN proven' = {}
      BY <2>2 DEF DpopRestart
    <3>2. proven' \in Seq(Proof)
      BY <3>1
    <3> QED BY <2>0, <3>1, <3>2 DEF StoreInv, StoreShape, FreshHeld, ProofUsedOnce
  <2>3. CASE DpopTick
    <3>1. now' = now + 1 /\ now' \in Nat /\ UNCHANGED <<seen, proven>>
      BY <2>0, <2>3 DEF DpopTick, Passes
    <3>2. \A i \in DOMAIN proven : proven[i] \in Proof
      BY DEF StoreInv, StoreShape
    <3>3. StoreShape'
      BY Zenon, <3>1 DEF StoreInv, StoreShape
    <3>4. FreshHeld'
      BY <2>0, <3>1, <3>2 DEF StoreInv, FreshHeld, Proof
    <3> QED BY <3>1, <3>3, <3>4 DEF StoreInv, ProofUsedOnce
  <2>4. CASE UNCHANGED dpopVars
    BY <2>4 DEF dpopVars, StoreInv, StoreShape, FreshHeld, ProofUsedOnce
  <2> QED BY Zenon, <2>1, <2>2, <2>3, <2>4 DEF DpopNext
<1>3. StoreInv => ProofUsedOnce
  BY DEF StoreInv
<1> QED BY <1>1, <1>2, <1>3, PTL DEF DpopSpec
-----------------------------------------------------------------------------
(* What Python's floor division gives: the quotient is the number of whole  *)
(* divisors that fit.                                                       *)
LEMMA QuotientBounds ==
    ASSUME NEW a \in Nat, NEW d \in Nat \ {0}
    PROVE  /\ a \div d \in Nat
           /\ d * (a \div d) <= a
           /\ a < d * (a \div d) + d
  BY SMT

(* Quotients of times less than one divisor apart are at most one apart,    *)
(* and those of times two divisors apart at least two.                      *)
LEMMA QuotientsApart ==
    ASSUME NEW a \in Nat, NEW b \in Nat, NEW d \in Nat \ {0}, a <= b
    PROVE  /\ b - a < d => b \div d \in {a \div d, a \div d + 1}
           /\ b - a >= 2 * d => b \div d >= a \div d + 2
<1> DEFINE p == a \div d
           q == b \div d
<1>1. /\ p \in Nat /\ d * p <= a /\ a < d * p + d
      /\ q \in Nat /\ d * q <= b /\ b < d * q + d
  BY QuotientBounds
<1> HIDE DEF p, q
<1>2. \A m, n \in Nat : m < n => d * m + d <= d * n
  BY SMT
<1>3. ASSUME b - a < d PROVE q \in {p, p + 1}
  <2>1. ~(q < p)
    BY <1>1, <1>2
  <2>2. ~(p + 1 < q)
    <3>1. d * (p + 1) = d * p + d
      BY <1>1
    <3> QED BY <1>1, <1>2, <1>3, <3>1
  <2> QED BY <1>1, <2>1, <2>2
<1>4. ASSUME b - a >= 2 * d PROVE q >= p + 2
  <2>1. d * (p + 1) = d * p + d
    BY <1>1
  <2>2. ~(q < p + 1)
    BY <1>1, <1>2, <1>4, <2>1
  <2>3. q # p + 1
    BY <1>1, <1>4, <2>1
  <2> QED BY <1>1, <2>2, <2>3
<1> QED BY Zenon, <1>3, <1>4 DEF p, q

(* Every nonce carries the bucket of the instant it was issued at, which is *)
(* not in the future.                                                       *)
Stamped ==
    /\ now \in Nat
    /\ \A n \in issued : n.at \in 0 .. now /\ n.bucket = n.at \div Lifetime

(* A stamped nonce is good for at least one lifetime and for less than two. *)
LEMMA StampedNoncesExpire == Stamped => NonceWindow
<1> SUFFICES ASSUME Stamped, NEW n \in issued
             PROVE  /\ (n.secret = secret /\ now - n.at < Lifetime) => Verify(n) = "valid"
                    /\ (n.secret # secret \/ now - n.at >= 2 * Lifetime) => Verify(n) # "valid"
  BY DEF NonceWindow
<1>1. now \in Nat /\ n.at \in Nat /\ n.at <= now /\ n.bucket = n.at \div Lifetime
  BY DEF Stamped
<1>2. Lifetime \in Nat \ {0}
  BY Zenon, DpopAssumption
<1>3. n.at \div Lifetime \in Nat /\ now \div Lifetime \in Nat
  BY Zenon, <1>1, <1>2, QuotientBounds
<1>4. /\ now - n.at < Lifetime => now \div Lifetime \in {n.at \div Lifetime, n.at \div Lifetime + 1}
      /\ now - n.at >= 2 * Lifetime => now \div Lifetime >= n.at \div Lifetime + 2
  BY Zenon, <1>1, <1>2, QuotientsApart
<1> QED BY <1>1, <1>3, <1>4 DEF Verify, CurrentBucket

(* A nonce is good for at least lifetime_secs and for less than twice that, *)
(* wherever in its bucket it was issued, and never after another key has    *)
(* been drawn: what the docstring of DpopNonceIssuer promises, for every    *)
(* lifetime.                                                                *)
THEOREM NoncesLiveOneToTwoLifetimes == DpopSpec => []NonceWindow
<1>1. DpopInit => Stamped
  BY DEF DpopInit, Stamped
<1>2. Stamped /\ [DpopNext]_dpopVars => Stamped'
  <2> SUFFICES ASSUME Stamped, [DpopNext]_dpopVars PROVE Stamped'
    OBVIOUS
  <2>1. CASE IssueNonce /\ UNCHANGED now
    BY <2>1 DEF Stamped, IssueNonce, CurrentBucket
  <2>2. CASE UNCHANGED issued /\ now' \in {now, now + 1}
    BY <2>2 DEF Stamped
  <2>3. ASSUME NEW jti, NEW iat, NEW required, NEW nonce, ValidateProof(jti, iat, required, nonce)
        PROVE  Stamped'
    BY <2>1, <2>2, <2>3 DEF ValidateProof, EnforceNonce
  <2> QED BY <2>2, <2>3 DEF DpopNext, DpopRestart, DpopTick, Passes, dpopVars
<1> QED BY <1>1, <1>2, StampedNoncesExpire, PTL DEF DpopSpec
=============================================================================
