---------------------------- MODULE SigningKeys ----------------------------
(***************************************************************************)
(* The in-memory KeySet of keys.py: seeding, rotation with a grace period, *)
(* pruning, and everything that signs or verifies with it: access tokens,  *)
(* id_tokens, the JWKS document and the id_token_hint of logout.           *)
(*                                                                         *)
(* Key material is a number: Secret is config.jwt_secret, Pem the          *)
(* configured RS256 key, and every generated key takes the next number.  A *)
(* signature verifies exactly with the material it was made with.  A kid   *)
(* is the algorithm with the second of the rotation (0 for a seeded key),  *)
(* which is all that routes/admin/keys.py puts into it.                    *)
(***************************************************************************)
EXTENDS Clock, FiniteSets

CONSTANTS
    Graces,        \* the grace periods an administrator may ask for, in seconds
    KeysTime,      \* bound: the clock stops here
    MaxRotations,  \* bound: keys generated
    MaxTokens,     \* bound: tokens signed
    MaxReseeds     \* bound: restarts of the process

ASSUME KeysAssumption ==
    /\ {KeysTime, MaxRotations, MaxTokens, MaxReseeds} \subseteq Nat
    /\ Graces \subseteq Nat

Algs == {"HS256", "RS256"}

Secret == 0
Pem == 1

VARIABLES
    config,     \* what was configured: the PEM, and config.id_token_alg
    keys,       \* KeySet._keys; its order is that of the material
    tokens,     \* the tokens signed so far
    generated,  \* how many keys were generated
    reseeds,    \* how many times the process restarted
    retired     \* observation: material |-> the deadline its rotation announced

keysVars == <<now, config, keys, tokens, generated, reseeds, retired>>

Kid == Algs \X Nat

(* models SigningKey; expires_at is a set that holds the deadline, if any.  *)
SigningKey ==
    [kid : Kid, algorithm : Algs, material : Nat, is_current : BOOLEAN,
     expires_at : SUBSET Nat]

(* The signature of a JWT; its own expiry is checked apart and left out.    *)
(* kid is a set: an HS256 id_token has no kid header.  boot is the number   *)
(* of restarts before it was signed.                                        *)
Token ==
    [use : {"access", "id"}, alg : Algs, kid : SUBSET Kid, material : Nat,
     boot : Nat]

KeysTypeOK ==
    /\ now \in Nat
    /\ config \in [pem : BOOLEAN, id_token_alg : Algs]
    /\ keys \subseteq SigningKey
    /\ tokens \subseteq Token
    /\ generated \in Nat /\ reseeds \in Nat
    /\ DOMAIN retired \subseteq Nat
    /\ \A m \in DOMAIN retired : retired[m] \in Nat
-----------------------------------------------------------------------------
(* KeySet                                                                   *)

IsActive(key) == \A e \in key.expires_at : now < e

ActiveKeysFor(alg) == {k \in keys : k.algorithm = alg /\ IsActive(k)}

(* The first match of a scan, as a set of at most one key: seeding puts the *)
(* secret before the PEM, and a generated key is appended.                  *)
FirstOf(ks) == {k \in ks : \A l \in ks : k.material <= l.material}

CurrentForAlg(alg) ==
    FirstOf({k \in keys : k.algorithm = alg /\ k.is_current /\ IsActive(k)})

(* Mutant of Find: only the current key is found.                           *)
FindCurrent(kid) ==
    FirstOf({k \in keys : k.kid = kid /\ k.is_current /\ IsActive(k)})

Find(kid) == FirstOf({k \in keys : k.kid = kid /\ IsActive(k)})

(* generate_signing_key, and the keys seed_keyset builds itself.            *)
NewKey(alg, second, material) ==
    [kid |-> <<alg, second>>, algorithm |-> alg, material |-> material,
     is_current |-> TRUE, expires_at |-> {}]

Retire(key, deadline) ==
    [kid |-> key.kid, algorithm |-> key.algorithm, material |-> key.material,
     is_current |-> FALSE, expires_at |-> {deadline}]

(* Mutant of Rotated: the new key is added before the others are retired.   *)
RotatedSelf(ks, new, grace) ==
    {IF k.algorithm = new.algorithm /\ k.is_current THEN Retire(k, now + grace) ELSE k :
        k \in ks \cup {new}}

(* KeySet.rotate                                                            *)
Rotated(ks, new, grace) ==
    {IF k.algorithm = new.algorithm /\ k.is_current THEN Retire(k, now + grace) ELSE k :
        k \in ks} \cup {new}

(* KeySet.prune_expired                                                     *)
Pruned(ks) == {k \in ks : IsActive(k)}

(* seed_keyset                                                              *)
Seeded(pem) ==
    {NewKey("HS256", 0, Secret)} \cup (IF pem THEN {NewKey("RS256", 0, Pem)} ELSE {})
-----------------------------------------------------------------------------
(* Verification.                                                            *)

(* decode_access_token: the key the kid names, or else any active HS256 key *)
(* and at last the static secret.                                           *)
DecodesAccess(t) ==
    LET found == UNION {Find(k) : k \in t.kid} IN
    IF found # {}
    THEN \E k \in found : k.algorithm = t.alg /\ k.material = t.material
    ELSE /\ t.alg = "HS256"
         /\ \/ \E k \in ActiveKeysFor("HS256") : k.material = t.material
            \/ t.material = Secret

(* Mutant of HintMaterials: an unknown kid falls back to the static PEM.    *)
HintMaterialsWide(kid) ==
    LET found == {k \in UNION {Find(i) : i \in kid} : k.algorithm = "RS256"} IN
    IF found # {} THEN {k.material : k \in found}
    ELSE {k.material : k \in ActiveKeysFor("RS256")} \cup (IF config.pem THEN {Pem} ELSE {})

(* _rs256_hint_verify_materials                                             *)
HintMaterials(kid) ==
    LET found  == {k \in UNION {Find(i) : i \in kid} : k.algorithm = "RS256"}
        active == IF found # {} THEN found ELSE ActiveKeysFor("RS256")
    IN  IF active # {} THEN {k.material : k \in active}
        ELSE IF config.pem THEN {Pem} ELSE {}

(* _decode_hint                                                             *)
DecodesHint(t) ==
    \/ t.alg = "HS256" /\ t.material = Secret
    \/ t.alg = "RS256" /\ t.material \in HintMaterials(t.kid)

(* GET /.well-known/jwks.json, as pairs of a set with the kid and the key.  *)
Jwks ==
    LET active == {<<{k.kid}, k.material>> : k \in ActiveKeysFor("RS256")} IN
    IF active # {} THEN active
    ELSE IF config.pem /\ config.id_token_alg = "RS256" THEN {<<{}, Pem>>} ELSE {}
-----------------------------------------------------------------------------
KeysInit ==
    /\ now = 1  \* so that no rotation takes the second of the seeded kids
    /\ config \in [pem : BOOLEAN, id_token_alg : Algs]
    /\ keys = Seeded(config.pem)
    /\ tokens = {}
    /\ generated = 0
    /\ reseeds = 0
    /\ retired = <<>>

CanSign == Cardinality(tokens) < MaxTokens

Sign(use, alg, kid, material) ==
    /\ CanSign
    /\ tokens' = tokens \cup
         {[use |-> use, alg |-> alg, kid |-> kid, material |-> material,
           boot |-> reseeds]}
    /\ UNCHANGED <<now, config, keys, generated, reseeds, retired>>

(* TokenService.issue: the current RS256 key, or else the HS256 one.        *)
IssueAccess ==
    LET rs == CurrentForAlg("RS256") IN
    \E k \in IF rs # {} THEN rs ELSE CurrentForAlg("HS256") :
        Sign("access", k.algorithm, {k.kid}, k.material)

(* encode_id_token: what signs an id_token, as a pair of kid and material.  *)
(* With no RS256 key and no PEM the handler fails and signs nothing.        *)
IdSigner ==
    LET rs == CurrentForAlg("RS256") IN
    IF config.id_token_alg = "HS256" THEN {<<{}, Secret>>}
    ELSE IF rs # {} THEN {<<{k.kid}, k.material>> : k \in rs}
    ELSE IF config.pem THEN {<<{}, Pem>>} ELSE {}

IssueId == \E s \in IdSigner : Sign("id", config.id_token_alg, s[1], s[2])

(* POST /admin/api/keys/rotate: rotate and prune run with no await between  *)
(* them.                                                                    *)
RotateKey(alg, grace) ==
    LET new == NewKey(alg, now, generated + 2)
        out == {k.material : k \in {k \in keys : k.algorithm = alg /\ k.is_current}}
    IN  /\ generated < MaxRotations
        /\ generated' = generated + 1
        /\ keys' = Pruned(Rotated(keys, new, grace))
        /\ retired' = [m \in DOMAIN retired \cup out |->
                         IF m \in out THEN now + grace ELSE retired[m]]
        /\ UNCHANGED <<now, config, tokens, reseeds>>

(* A restart seeds the keyset again: rotated keys are lost, as the          *)
(* endpoint's own warning says.                                             *)
KeysRestart ==
    /\ reseeds < MaxReseeds
    /\ reseeds' = reseeds + 1
    /\ keys' = Seeded(config.pem)
    /\ retired' = <<>>
    /\ UNCHANGED <<now, config, tokens, generated>>

KeysTick ==
    /\ Passes(KeysTime)
    /\ UNCHANGED <<config, keys, tokens, generated, reseeds, retired>>

KeysNext ==
    \/ IssueAccess
    \/ IssueId
    \/ \E alg \in Algs, grace \in Graces : RotateKey(alg, grace)
    \/ KeysRestart
    \/ KeysTick

KeysSpec == KeysInit /\ [][KeysNext]_keysVars
-----------------------------------------------------------------------------
(* Properties.                                                              *)

(* Two active keys share a kid: the algorithm was rotated twice in one      *)
(* second and the grace of the first of them has not run out.               *)
Ambiguous(kid) ==
    \E j, k \in keys : j # k /\ j.kid = kid /\ k.kid = kid /\ IsActive(j) /\ IsActive(k)

InGrace(m) == m \in DOMAIN retired => now < retired[m]

(* A signature keeps verifying until the grace announced by the rotation    *)
(* that replaced its key is over, through any number of further rotations:  *)
(* decode_access_token, the id_token_hint of logout and the JWKS all still  *)
(* accept it.  A restart keeps this for the configured keys only.  Two      *)
(* rotations within one second give two keys one kid and are excluded.      *)
InFlightVerifies ==
    \A t \in tokens :
        (/\ t.boot = reseeds \/ t.material \in {Secret, Pem}
         /\ InGrace(t.material)
         /\ \A k \in t.kid : ~Ambiguous(k)) =>
            /\ t.use = "access" => DecodesAccess(t)
            /\ t.use = "id" => DecodesHint(t)
            /\ t.alg = "RS256" => <<t.kid, t.material>> \in Jwks

(* Once its grace is over, a rotated-out RS256 key verifies nothing until   *)
(* the next restart: no fallback of decode_access_token, of the hint of     *)
(* logout (whose comment warns of exactly this) or of the JWKS revives it.  *)
RetiredStayRetired ==
    \A t \in tokens :
        (t.alg = "RS256" /\ ~InGrace(t.material)) =>
            /\ ~DecodesAccess(t)
            /\ ~DecodesHint(t)
            /\ \A j \in Jwks : j[2] # t.material

(* An algorithm that is in use always has exactly one key to sign with, and *)
(* that key does not expire: logout.py:74 relies on "a live keyset never    *)
(* has zero active RS256 keys".  The comment at wellknown.py:238, in whose  *)
(* example "the seeded rs256-initial key was rotated out and pruned" and    *)
(* none is left, describes a keyset that no rotation leads to.              *)
OneSigner ==
    \A alg \in Algs :
        (alg = "HS256" \/ config.pem \/ \E k \in keys : k.algorithm = alg) =>
            \E s \in keys :
                {k \in keys : k.algorithm = alg /\ k.is_current /\ k.expires_at = {}} = {s}
=============================================================================
