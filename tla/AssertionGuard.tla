--------------------------- MODULE AssertionGuard ---------------------------
(***************************************************************************)
(* Signed assertions (RFC 7523) and the one JtiReplayGuard they share:     *)
(* client_secret_jwt and private_key_jwt client authentication, and the    *)
(* jwt-bearer grant.  An assertion that reaches this module has a good     *)
(* signature, audience, issuer and subject; each of those failures returns *)
(* before the guard is touched.  Nothing awaits between jwt.decode, which  *)
(* checks exp, and observe, so each validation is one step.  The wall      *)
(* clock and the monotonic clock are one clock.  The guard is in memory: a *)
(* restart empties it, and what it promises it promises of one process.    *)
(***************************************************************************)
EXTENDS Clock, Sequences, FiniteSets, Maps

CONSTANTS
    Jtis,         \* the jti claims signers use
    MaxTTL,       \* MAX_JTI_TTL_SECS
    MaxEntries,   \* max_entries of the guard
    MaxTime,      \* bound: the clock stops here
    MaxExp,       \* bound: the latest exp
    MaxAccepted,  \* bound: assertions accepted
    MaxRestarts   \* bound: restarts of the process

ASSUME GuardAssumption ==
    /\ {MaxTTL, MaxTime, MaxExp, MaxAccepted, MaxRestarts} \subseteq Nat
    /\ MaxEntries \in Nat \ {0}

VARIABLES
    entries,   \* JtiReplayGuard._entries: key -> expiry
    accepted,  \* observation: the assertions accepted, in order, with the time
    boot       \* observation: restarts so far

vars == <<now, entries, accepted, boot>>

(* A client's key is its id and the jti; the grant's is prefixed            *)
(* "jwt-bearer:" and the issuer, so the two never meet.                     *)
Kinds == {"client", "bearer"}

Keys == Kinds \X Jtis

Accepted == [key : Keys, exp : Nat, at : Nat, boot : Nat]

TypeOK ==
    /\ now \in Nat
    /\ DOMAIN entries \subseteq Keys
    /\ \A k \in DOMAIN entries : entries[k] \in Nat
    /\ Cardinality(DOMAIN entries) <= MaxEntries
    /\ accepted \in Seq(Accepted)
    /\ boot \in Nat

Init ==
    /\ now = 0
    /\ entries = <<>>
    /\ accepted = <<>>
    /\ boot = 0
-----------------------------------------------------------------------------
(* JtiReplayGuard._sweep_expired.                                           *)
SweepExpired == Without(entries, {k \in DOMAIN entries : entries[k] <= now})

(* Mutant of Clamp: the cap is forgotten on the way in.                     *)
ClampHalf(ttl) == IF ttl > MaxTTL THEN MaxTTL - 1 ELSE ttl

(* observe's bounds on the time an entry is kept; exp is in the future.     *)
Clamp(ttl) == IF ttl > MaxTTL THEN MaxTTL ELSE ttl

(* The hard cap of observe.                                                 *)
Room(kept) == Cardinality(DOMAIN kept) < MaxEntries

(* observe, and its caller: a key still held is a replay, a full guard      *)
(* refuses the assertion, and anything else is recorded and accepted.       *)
Observe(key, exp) ==
    LET kept  == SweepExpired
        fresh == key \notin DOMAIN kept /\ Room(kept)
    IN  \/ /\ ~fresh
           /\ entries' = kept
           /\ UNCHANGED accepted
        \/ /\ fresh
           /\ Len(accepted) < MaxAccepted
           /\ entries' = With(kept, key, now + Clamp(exp - now))
           /\ accepted' = Append(accepted, [key |-> key, exp |-> exp, at |-> now, boot |-> boot])
-----------------------------------------------------------------------------
(* validate_client_assertion: any exp that is still ahead.                  *)
ValidateClientAssertion(jti, exp) ==
    /\ exp > now
    /\ Observe(<<"client", jti>>, exp)
    /\ UNCHANGED <<now, boot>>

(* Mutant of ShortLived: the lifetime of an assertion is not looked at.     *)
ShortLivedAlways(exp) == TRUE

(* _enforce_replay refuses an assertion that outlives its entry.            *)
ShortLived(exp) == exp - now <= MaxTTL

(* verify_assertion and _enforce_replay of the jwt-bearer grant.            *)
RedeemAssertion(jti, exp) ==
    /\ exp > now
    /\ ShortLived(exp)
    /\ Observe(<<"bearer", jti>>, exp)
    /\ UNCHANGED <<now, boot>>

Tick ==
    /\ Passes(MaxTime)
    /\ UNCHANGED <<entries, accepted, boot>>

(* The process restarts with a new JtiReplayGuard.                          *)
Restart ==
    /\ boot < MaxRestarts
    /\ entries' = <<>>
    /\ boot' = boot + 1
    /\ UNCHANGED <<now, accepted>>

Next ==
    \/ \E jti \in Jtis, exp \in 1 .. MaxExp :
          ValidateClientAssertion(jti, exp) \/ RedeemAssertion(jti, exp)
    \/ Tick
    \/ Restart

Spec == Init /\ [][Next]_vars
-----------------------------------------------------------------------------
(* Two acceptances of one assertion by one process.                         *)
SameAssertion(a, b) == a.key = b.key /\ a.exp = b.exp /\ a.boot = b.boot

(* A jwt-bearer assertion is redeemed at most once by a process, and so at  *)
(* most once more for each restart within its lifetime: its entry is held   *)
(* to the very instant at which jwt.decode begins to call it expired, and a *)
(* full guard refuses rather than forget ("a longer-lived assertion could   *)
(* be redeemed again while still valid, so refuse it").                     *)
BearerUsedOnce ==
    \A i, k \in DOMAIN accepted :
        (SameAssertion(accepted[i], accepted[k]) /\ accepted[i].key[1] = "bearer")
        => i = k

(* A client assertion may name any exp, and its entry is clamped: a process *)
(* accepts it again only once MAX_JTI_TTL_SECS have passed since, so one    *)
(* assertion authenticates at most once in each such window.                *)
ClientUsesSpaced ==
    \A i, k \in DOMAIN accepted :
        (i < k /\ SameAssertion(accepted[i], accepted[k]))
        => accepted[k].at >= accepted[i].at + MaxTTL
=============================================================================
