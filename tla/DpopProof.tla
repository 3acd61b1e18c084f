----------------------------- MODULE DpopProof ------------------------------
(***************************************************************************)
(* DPoP proofs (RFC 9449): the iat window, the DpopReplayStore, and the    *)
(* time-bucketed nonces of DpopNonceIssuer, as POST /oauth/token uses      *)
(* them.  A proof that reaches this module has a good header, signature,   *)
(* htm, htu and ath: each of those failures returns before any state is    *)
(* read or written.  validate_dpop_proof has no await in it, so it is one  *)
(* step.  The wall clock and the monotonic clock are one clock.            *)
(***************************************************************************)
EXTENDS Clock, Sequences, Maps

CONSTANTS
    ProofJtis,    \* the jti claims clients use
    NoNonce,      \* the proof carries no nonce
    Skew,         \* DPOP_IAT_SKEW_SECS
    ReplayTTL,    \* REPLAY_TTL_SECS
    Lifetime,     \* lifetime_secs of the nonce issuer, at least 1
    DpopTime,     \* bound: the clock stops here
    MaxProofs,    \* bound: proofs accepted by one process
    MaxReboots    \* bound: restarts of the process

ASSUME DpopAssumption ==
    /\ {Skew, ReplayTTL, DpopTime, MaxProofs, MaxReboots} \subseteq Nat
    /\ Lifetime \in Nat \ {0}
    /\ ReplayTTL > 2 * Skew

VARIABLES
    seen,      \* DpopReplayStore._entries: jti -> expiry
    secret,    \* the nonce issuer's HMAC key
    restarts,  \* how often the process was restarted
    issued,    \* the nonces handed out, with the time they were issued
    proven     \* observation: the proofs this process accepted, in order

dpopVars == <<now, seen, secret, restarts, issued, proven>>

Proof == [jti : ProofJtis, iat : Nat]

DpopTypeOK ==
    /\ now \in Nat
    /\ DOMAIN seen \subseteq ProofJtis
    /\ \A j \in DOMAIN seen : seen[j] \in Nat
    /\ secret \in Nat
    /\ restarts \in Nat
    /\ issued \subseteq [bucket : Nat, secret : Nat, at : Nat]
    /\ proven \in Seq(Proof)

DpopInit ==
    /\ now = 0
    /\ seen = <<>>
    /\ secret = 0
    /\ restarts = 0
    /\ issued = {}
    /\ proven = <<>>
-----------------------------------------------------------------------------
(* The iat check of validate_dpop_proof, inclusive at both ends.            *)
InWindow(iat) == -Skew <= now - iat /\ now - iat <= Skew

(* DpopReplayStore._sweep_expired.                                          *)
SweepSeen == Without(seen, {j \in DOMAIN seen : seen[j] <= now})

(* Mutant of ExpiryOf: twice the skew, without slack.                       *)
ExpiryOfNoSlack(t) == t + 2 * Skew

(* The expiry that check_and_insert records.                                *)
ExpiryOf(t) == t + ReplayTTL
-----------------------------------------------------------------------------
(* DpopNonceIssuer._current_bucket.                                         *)
CurrentBucket == now \div Lifetime

(* DpopNonceIssuer.issue; the HMAC tag stands for the key it is made with.  *)
IssueNonce == issued' = issued \cup {[bucket |-> CurrentBucket, secret |-> secret, at |-> now]}

(* Mutant of Verify: the bucket that has just ended is refused.             *)
VerifyCurrentOnly(nonce) ==
    IF nonce.secret # secret THEN "invalid"
    ELSE IF nonce.bucket = CurrentBucket THEN "valid"
    ELSE "stale"

(* DpopNonceIssuer.verify.                                                  *)
Verify(nonce) ==
    IF nonce.secret # secret THEN "invalid"
    ELSE IF nonce.bucket \in {CurrentBucket, CurrentBucket - 1} THEN "valid"
    ELSE "stale"

(* enforce_dpop_nonce, and _with_dpop_nonce for a request that succeeds: a  *)
(* challenge always carries a fresh nonce, a success does, a forged nonce   *)
(* and any other error do not.                                              *)
EnforceNonce(required, nonce) ==
    LET verdict == IF nonce = NoNonce THEN "stale" ELSE Verify(nonce)
    IN  \/ required /\ verdict # "invalid" /\ IssueNonce
        \/ ~(required /\ verdict = "stale") /\ UNCHANGED issued
-----------------------------------------------------------------------------
(* validate_dpop_proof: the window, then the sweep and check_and_insert;    *)
(* then the nonce, when the client must send one.                           *)
ValidateProof(jti, iat, required, nonce) ==
    LET kept == SweepSeen
    IN  /\ InWindow(iat)
        /\ \/ /\ jti \in DOMAIN kept
              /\ seen' = kept
              /\ UNCHANGED <<proven, issued>>
           \/ /\ jti \notin DOMAIN kept
              /\ Len(proven) < MaxProofs
              /\ seen' = With(kept, jti, ExpiryOf(now))
              /\ proven' = Append(proven, [jti |-> jti, iat |-> iat])
              /\ EnforceNonce(required, nonce)
        /\ UNCHANGED <<now, secret, restarts>>

(* A restart forgets the store, which is documented as in-process; the key  *)
(* stays when OAUTH2_DPOP_NONCE_SECRET is set and is random otherwise.      *)
DpopRestart ==
    /\ restarts < MaxReboots
    /\ restarts' = restarts + 1
    /\ seen' = <<>>
    /\ proven' = <<>>
    /\ \E key \in {secret, secret + 1} : secret' = key
    /\ UNCHANGED <<now, issued>>

DpopTick ==
    /\ Passes(DpopTime)
    /\ UNCHANGED <<seen, secret, restarts, issued, proven>>

DpopNext ==
    \/ \E jti \in ProofJtis, iat \in 0 .. DpopTime, required \in BOOLEAN :
          \E nonce \in issued \cup {NoNonce} : ValidateProof(jti, iat, required, nonce)
    \/ DpopRestart
    \/ DpopTick

DpopSpec == DpopInit /\ [][DpopNext]_dpopVars
-----------------------------------------------------------------------------
(* A proof is accepted at most once by a process: the replay store keeps a  *)
(* jti for longer than the iat window lets its proof be fresh, counting     *)
(* both ends of the window and the sweep that drops an entry at its expiry  *)
(* (dpop.py: "a jti must stay rejected for at least as long as a proof      *)
(* could still be considered fresh").                                       *)
ProofUsedOnce ==
    \A i, k \in DOMAIN proven : proven[i] = proven[k] => i = k

(* A nonce is good for at least lifetime_secs and for less than twice that  *)
(* (docstring of DpopNonceIssuer), and is never good once a restart has     *)
(* drawn another key.                                                       *)
NonceWindow ==
    \A n \in issued :
        /\ (n.secret = secret /\ now - n.at < Lifetime) => Verify(n) = "valid"
        /\ (n.secret # secret \/ now - n.at >= 2 * Lifetime) => Verify(n) # "valid"
=============================================================================
