----------------------------- MODULE TokenStore -----------------------------
(***************************************************************************)
(* The `tokens` table and the statements the program runs against it.      *)
(* Every statement of storage/sql.py runs in a transaction of its own      *)
(* (`engine.begin()`), so each operator below is one atomic step of        *)
(* whoever calls it.  The table is a sequence: a row's index stands for    *)
(* its random id, access token and refresh token, which are never reused.  *)
(***************************************************************************)
EXTENDS Naturals, Sequences

CONSTANTS
    Clients,        \* registered client_ids
    Users,          \* user ids
    Scopes,         \* the scope tokens a space-separated scope is made of
    Resources,      \* RFC 8707 resource indicators
    Keys,           \* thumbprints of DPoP keys (cnf.jkt)
    Certs,          \* thumbprints of client certificates (cnf.x5t#S256)
    OpaqueTokens,   \* config.access_tokens_opaque: access tokens carry no claims
    None            \* Python's None

ASSUME StoreAssumption ==
    /\ None \notin Clients \cup Users \cup Resources \cup Keys \cup Certs
    /\ Keys \cap Certs = {}
    /\ Clients \cap Resources = {}
    /\ OpaqueTokens \in BOOLEAN

Grants == {"authorization_code", "refresh_token", "client_credentials",
           "token_exchange", "jwt_bearer", "device_code"}

Bindings == Keys \cup Certs \cup {None}

(* What TokenService.issue is asked to issue.  scope, aud and act are the   *)
(* claims of the access token (aud and act are empty for an opaque one);    *)
(* family 0 is "no token_family".  via and src record where the token came  *)
(* from: the grant, and the code or token row it was issued on (0: none).   *)
TokenSpec ==
    [client  : Clients,
     user    : Users \cup {None},
     scope   : SUBSET Scopes,
     aud     : SUBSET (Clients \cup Resources),
     cnf     : Bindings,
     act     : Seq(Clients),
     family  : Nat,
     refresh : BOOLEAN,
     via     : Grants,
     src     : Nat]

TokenRow ==
    [spec       : TokenSpec,
     created_at : Nat,
     expires_at : Nat,
     revoked    : BOOLEAN]

NewRow(spec, now, ttl) ==
    [spec |-> spec, created_at |-> now, expires_at |-> now + ttl, revoked |-> FALSE]

SaveToken(rows, row) == Append(rows, row)

(* Mutant of Revoke: the flag is flipped.                                   *)
RevokeToggles(rows, which) ==
    [i \in DOMAIN rows |->
        IF i \in which THEN [rows[i] EXCEPT !.revoked = ~@] ELSE rows[i]]

(* UPDATE tokens SET revoked = TRUE WHERE <the row is in which>             *)
Revoke(rows, which) ==
    [i \in DOMAIN rows |->
        IF i \in which THEN [rows[i] EXCEPT !.revoked = TRUE] ELSE rows[i]]

FamilyRows(rows, f) == {i \in DOMAIN rows : rows[i].spec.family = f}

UserRows(rows, u) == {i \in DOMAIN rows : rows[i].spec.user = u}

ClientRows(rows, c) == {i \in DOMAIN rows : rows[i].spec.client = c}

RevokeToken(rows, i) == Revoke(rows, {i})

(* Mutant of RevokeTokenFamily: the WHERE clause names the row, not the     *)
(* family.                                                                  *)
RevokeTokenOnly(rows, f) == RevokeToken(rows, f)

RevokeTokenFamily(rows, f) == Revoke(rows, FamilyRows(rows, f))

(* services/auth.py: scope_is_subset over the two split scope strings.      *)
ScopeIsSubset(requested, allowed) == requested \subseteq allowed

(* models.py: the aud claim Claims.new chooses; a non-empty `audience` wins *)
(* over `resource`, which replaces the default [client_id].                 *)
AudienceOf(client, resource, audience) ==
    IF audience # {} THEN audience
    ELSE IF resource # None THEN {resource} ELSE {client}

(* services/tokens.py, TokenService.issue: what the new token says.  An     *)
(* opaque access token has nowhere to carry cnf, act or aud.                *)
Issue(client, user, scope, cnf, act, resource, audience, family, refresh, via, src) ==
    [client  |-> client,
     user    |-> user,
     scope   |-> scope,
     aud     |-> IF OpaqueTokens THEN {} ELSE AudienceOf(client, resource, audience),
     cnf     |-> IF OpaqueTokens THEN None ELSE cnf,
     act     |-> IF OpaqueTokens THEN <<>> ELSE act,
     family  |-> family,
     refresh |-> refresh,
     via     |-> via,
     src     |-> src]
=============================================================================
