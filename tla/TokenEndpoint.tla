---------------------------- MODULE TokenEndpoint ----------------------------
(***************************************************************************)
(* POST /oauth/token (authorization_code, refresh_token,                   *)
(* client_credentials, token-exchange, jwt-bearer), POST /oauth/revoke and *)
(* the admin revocations, over the authorization_codes and tokens tables.  *)
(*                                                                         *)
(* A request is a coroutine: it runs without interruption from one await   *)
(* of a storage call to the next, and other requests run in between.  An   *)
(* action is therefore one storage statement together with the straight-   *)
(* line code after it.  A request keeps what it read (`pending`) and       *)
(* writes it later, when the rows may have changed.                        *)
(***************************************************************************)
EXTENDS TokenStore, FiniteSets

CONSTANTS
    Requests,       \* slots for requests in flight
    PublicClients,  \* clients registered with no secret
    ClientScope,    \* [Clients -> SUBSET Scopes], Client.scope
    GrantsOf,       \* [Clients -> SUBSET Grants], Client.grant_type_list()
    AccessTTL,      \* config.access_token_ttl_secs
    RefreshTTL,     \* config.refresh_token_ttl_secs
    CodeTTL,        \* config.authorization_code_ttl_secs
    MaxAct,         \* the max_depth of the act chain (10 in the code)
    MaxTime,        \* bound: the clock stops here
    MaxCodes,       \* bound: authorization codes issued
    MaxTokens       \* bound: token rows

ASSUME EndpointAssumption ==
    /\ PublicClients \subseteq Clients
    /\ ClientScope \in [Clients -> SUBSET Scopes]
    /\ GrantsOf \in [Clients -> SUBSET Grants]
    /\ {AccessTTL, RefreshTTL, CodeTTL, MaxAct, MaxTime, MaxCodes, MaxTokens} \subseteq Nat

VARIABLES
    now,      \* the clock
    codes,    \* the authorization_codes table; a code's index is also its token_family
    tokens,   \* the tokens table
    req,      \* what each request in flight is about to do, with what it remembers
    burned    \* families on which revoke_token_family has run (observation only)

vars == <<now, codes, tokens, req, burned>>

AuthCode ==
    [client     : Clients,
     user       : Users,
     scope      : SUBSET Scopes,
     resource   : Resources \cup {None},
     dpop_jkt   : Keys \cup {None},
     expires_at : Nat,
     used       : BOOLEAN]

Steps == {"idle", "code", "refresh", "subject", "assertion", "lookup",
          "claim", "rotate", "burn", "revoke_one", "save"}

(* cnf: the DPoP key or certificate this request presented.  target: the    *)
(* code or token row it read, or the family it is about to revoke.          *)
(* pending: the token it will issue, None while undecided.                  *)
Request ==
    [pc      : Steps,
     client  : Clients \cup {None},
     cnf     : Bindings,
     target  : Nat,
     pending : TokenSpec \cup {None}]

Idle == [pc |-> "idle", client |-> None, cnf |-> None, target |-> 0, pending |-> None]

InFlight == {r \in Requests : req[r].pc # "idle"}

TypeOK ==
    /\ now \in Nat
    /\ codes \in Seq(AuthCode)
    /\ tokens \in Seq(TokenRow)
    /\ req \in [Requests -> Request]
    /\ burned \subseteq Nat

Init ==
    /\ now = 0
    /\ codes = <<>>
    /\ tokens = <<>>
    /\ req = [r \in Requests |-> Idle]
    /\ burned = {}
-----------------------------------------------------------------------------
(* Control: how a request moves on, and how it ends.                        *)

Goto(r, pc, target, pending) ==
    req' = [req EXCEPT ![r].pc = pc, ![r].target = target, ![r].pending = pending]

Finish(r) == req' = [req EXCEPT ![r] = Idle]

(* An error response: the handler returns and has changed nothing.          *)
Reject(r) == Finish(r) /\ UNCHANGED <<now, codes, tokens, burned>>

Continue(r, pc, target, pending) ==
    Goto(r, pc, target, pending) /\ UNCHANGED <<now, codes, tokens, burned>>

(* Bound: a request starts only when the table has room for its row.        *)
HasRoom == Len(tokens) + Cardinality(InFlight) < MaxTokens

(* What the grant's branch awaits first.                                    *)
FirstStep ==
    [authorization_code |-> "code", refresh_token |-> "refresh",
     token_exchange |-> "subject", jwt_bearer |-> "assertion"]

(* Client authentication, the proof of possession and the grant's entry     *)
(* checks have passed.  token_exchange and jwt_bearer refuse public clients.*)
Authenticate(r, c, g, b) ==
    /\ req[r].pc = "idle"
    /\ HasRoom
    /\ g \in GrantsOf[c] \cap DOMAIN FirstStep
    /\ g \in {"token_exchange", "jwt_bearer"} => c \notin PublicClients
    /\ req' = [req EXCEPT ![r] = [Idle EXCEPT !.pc = FirstStep[g], !.client = c, !.cnf = b]]
    /\ UNCHANGED <<now, codes, tokens, burned>>

(* A scope parameter the grant accepts: absent ({}) means the whole of      *)
(* `allowed`, otherwise it must be a subset of it.                          *)
GrantedScope(requested, allowed) == IF requested = {} THEN allowed ELSE requested
-----------------------------------------------------------------------------
(* grant_type=client_credentials: nothing is read after authentication.     *)
ClientCredentials(r, c, b, scope, resource) ==
    /\ req[r].pc = "idle"
    /\ HasRoom
    /\ "client_credentials" \in GrantsOf[c]
    /\ c \notin PublicClients
    /\ ScopeIsSubset(scope, ClientScope[c])
    /\ req' = [req EXCEPT ![r] =
                 [pc |-> "save", client |-> c, cnf |-> b, target |-> 0,
                  pending |-> Issue(c, None, GrantedScope(scope, ClientScope[c]), b, <<>>,
                                    resource, {}, 0, FALSE, "client_credentials", 0)]]
    /\ UNCHANGED <<now, codes, tokens, burned>>
-----------------------------------------------------------------------------
(* grant_type=authorization_code.                                           *)

(* get_authorization_code and the checks on the row it returned.  `valid`   *)
(* stands for the redirect_uri, PKCE and authorization_details checks on    *)
(* the request's own parameters.                                            *)
ReadCode(r, k, valid) ==
    LET code    == codes[k]
        foreign == code.client # req[r].client
        expired == code.expires_at < now
    IN  /\ req[r].pc = "code"
        /\ \/ (foreign \/ expired) /\ Reject(r)
           \/ ~foreign /\ ~expired /\ code.used /\ Continue(r, "burn", k, None)
           \/ ~foreign /\ ~expired /\ ~code.used /\ ~valid /\ Reject(r)
           \/ /\ ~foreign /\ ~expired /\ ~code.used /\ valid
              /\ Continue(r, "claim", k,
                   Issue(code.client, code.user, code.scope, req[r].cnf, <<>>, code.resource,
                         {}, k, TRUE, "authorization_code", k))

(* The dpop_jkt the code was bound to at /oauth/authorize.                  *)
KeyMatches(code, cnf) == code.dpop_jkt = None \/ code.dpop_jkt = cnf

(* Mutant of ClaimCode: the row count is ignored.                           *)
ClaimCodeBlind(r) ==
    LET k == req[r].target IN
    /\ req[r].pc = "claim"
    /\ codes' = [codes EXCEPT ![k].used = TRUE]
    /\ \/ ~KeyMatches(codes[k], req[r].cnf) /\ Finish(r)
       \/ KeyMatches(codes[k], req[r].cnf) /\ Goto(r, "save", k, req[r].pending)
    /\ UNCHANGED <<now, tokens, burned>>

(* Mutant of ClaimCode: losing the race retries the claim.                  *)
ClaimCodeRetries(r) ==
    LET k == req[r].target IN
    /\ req[r].pc = "claim"
    /\ codes' = [codes EXCEPT ![k].used = TRUE]
    /\ \/ codes[k].used /\ Goto(r, "claim", k, req[r].pending)
       \/ ~codes[k].used /\ ~KeyMatches(codes[k], req[r].cnf) /\ Finish(r)
       \/ /\ ~codes[k].used /\ KeyMatches(codes[k], req[r].cnf)
          /\ Goto(r, "save", k, req[r].pending)
    /\ UNCHANGED <<now, tokens, burned>>

(* mark_authorization_code_used: UPDATE ... WHERE used = FALSE, and what    *)
(* its row count decides.  The dpop_jkt check comes after the claim.        *)
ClaimCode(r) ==
    LET k == req[r].target IN
    /\ req[r].pc = "claim"
    /\ codes' = [codes EXCEPT ![k].used = TRUE]
    /\ \/ codes[k].used /\ Goto(r, "burn", k, None)
       \/ ~codes[k].used /\ ~KeyMatches(codes[k], req[r].cnf) /\ Finish(r)
       \/ /\ ~codes[k].used /\ KeyMatches(codes[k], req[r].cnf)
          /\ Goto(r, "save", k, req[r].pending)
    /\ UNCHANGED <<now, tokens, burned>>
-----------------------------------------------------------------------------
(* grant_type=refresh_token.                                                *)

(* Mutant of AudienceAllowed: a refresh may ask for any resource.           *)
AudienceUnchecked(old, resource) == TRUE

(* The audience check of RFC 8707: a refresh may narrow, never widen.  The  *)
(* old audience is unknown ({}) when the access token is opaque.            *)
AudienceAllowed(old, resource) == old = {} \/ resource = None \/ resource \in old

CarriedAudience(old, resource) == IF resource = None THEN old ELSE {}

(* A public client must prove possession of the key its token is bound to.  *)
PossessionProved(c, bound, cnf) == (bound \in Keys /\ c \in PublicClients) => cnf = bound

(* get_token_by_refresh_token and every check before the old row is         *)
(* revoked; `scope` ({}: absent) and `resource` are request parameters.     *)
ReadRefresh(r, t, scope, resource) ==
    LET old      == tokens[t]
        s        == old.spec
        refused  == \/ now >= old.created_at + RefreshTTL
                    \/ ~ScopeIsSubset(scope, s.scope)
                    \/ ~AudienceAllowed(s.aud, resource)
                    \/ ~PossessionProved(s.client, s.cnf, req[r].cnf)
        foreign  == s.client # req[r].client
    IN  /\ req[r].pc = "refresh"
        /\ s.refresh
        /\ \/ foreign /\ Reject(r)
           \/ ~foreign /\ old.revoked /\ Continue(r, "burn", s.family, None)
           \/ ~foreign /\ ~old.revoked /\ refused /\ Reject(r)
           \/ /\ ~foreign /\ ~old.revoked /\ ~refused
              /\ Continue(r, "rotate", t,
                   Issue(s.client, s.user, GrantedScope(scope, s.scope), s.cnf, <<>>, resource,
                         CarriedAudience(s.aud, resource), s.family, TRUE, "refresh_token", t))

(* Mutant of RotateOld: the old row is left alone.                          *)
RotateNothing(r) ==
    /\ req[r].pc = "rotate"
    /\ Goto(r, "save", req[r].target, req[r].pending)
    /\ UNCHANGED <<now, codes, tokens, burned>>

(* revoke_token(old.access_token): unconditional, its row count unused.     *)
RotateOld(r) ==
    /\ req[r].pc = "rotate"
    /\ tokens' = RevokeToken(tokens, req[r].target)
    /\ Goto(r, "save", req[r].target, req[r].pending)
    /\ UNCHANGED <<now, codes, burned>>
-----------------------------------------------------------------------------
(* Mutant of ActChain: the prior chain is always nested.                    *)
ActChainNests(c, prior) == <<c>> \o prior

(* grant_type=token-exchange: the delegation chain of the new token.        *)
ActChain(c, prior) == IF prior # <<>> /\ Head(prior) # c THEN <<c>> \o prior ELSE <<c>>

ReadSubject(r, t, scope, resource) ==
    LET row == tokens[t]
        s   == row.spec
        c   == req[r].client
        act == ActChain(c, s.act)
        refused == \/ row.revoked \/ row.expires_at <= now
                   \/ ~ScopeIsSubset(scope, s.scope)
                   \/ Len(act) > MaxAct
    IN  /\ req[r].pc = "subject"
        /\ \/ refused /\ Reject(r)
           \/ /\ ~refused
              /\ Continue(r, "save", t,
                   Issue(c, s.user, GrantedScope(scope, s.scope), req[r].cnf, act, resource,
                         {}, 0, FALSE, "token_exchange", t))

(* grant_type=jwt-bearer: the assertion named user u, or was refused.       *)
RedeemAssertion(r, u, scope, resource) ==
    LET c == req[r].client IN
    /\ req[r].pc = "assertion"
    /\ \/ (u = None \/ ~ScopeIsSubset(scope, ClientScope[c])) /\ Reject(r)
       \/ /\ u # None /\ ScopeIsSubset(scope, ClientScope[c])
          /\ Continue(r, "save", 0,
               Issue(c, u, GrantedScope(scope, ClientScope[c]), req[r].cnf, <<>>, resource,
                     {}, 0, FALSE, "jwt_bearer", 0))
-----------------------------------------------------------------------------
(* TokenService.issue: save_token, the last step of every grant.            *)
SaveIssued(r) ==
    /\ req[r].pc = "save"
    /\ tokens' = SaveToken(tokens, NewRow(req[r].pending, now, AccessTTL))
    /\ Finish(r)
    /\ UNCHANGED <<now, codes, burned>>

(* revoke_token_family, the last step of every detected replay and of       *)
(* POST /oauth/revoke on a token with a family.                             *)
BurnFamily(r) ==
    /\ req[r].pc = "burn"
    /\ tokens' = RevokeTokenFamily(tokens, req[r].target)
    /\ burned' = burned \cup {req[r].target}
    /\ Finish(r)
    /\ UNCHANGED <<now, codes>>

(* POST /oauth/revoke.                                                      *)
StartRevoke(r, c) ==
    /\ req[r].pc = "idle"
    /\ req' = [req EXCEPT ![r] = [Idle EXCEPT !.pc = "lookup", !.client = c]]
    /\ UNCHANGED <<now, codes, tokens, burned>>

LookupRevoked(r, t) ==
    LET s == tokens[t].spec IN
    /\ req[r].pc = "lookup"
    /\ \/ s.client # req[r].client /\ Reject(r)
       \/ s.client = req[r].client /\ s.family # 0 /\ Continue(r, "burn", s.family, None)
       \/ s.client = req[r].client /\ s.family = 0 /\ Continue(r, "revoke_one", t, None)

RevokeOne(r) ==
    /\ req[r].pc = "revoke_one"
    /\ tokens' = RevokeToken(tokens, req[r].target)
    /\ Finish(r)
    /\ UNCHANGED <<now, codes, burned>>

(* The code, refresh token, subject token or token to revoke is not in      *)
(* storage: an error, or for /oauth/revoke an empty 200.                    *)
NotFound(r) ==
    /\ req[r].pc \in {"code", "refresh", "subject", "lookup"}
    /\ Reject(r)
-----------------------------------------------------------------------------
(* POST /admin/api/tokens/{id}/revoke, revoke-by-user and revoke-by-client. *)
AdminRevoke(which) ==
    /\ which # {}
    /\ tokens' = Revoke(tokens, which)
    /\ UNCHANGED <<now, codes, req, burned>>

RevokeTokenById(t) == AdminRevoke({t})

RevokeByUser(u) == AdminRevoke(UserRows(tokens, u))

RevokeByClient(c) == AdminRevoke(ClientRows(tokens, c))

(* AuthorizeService.issue_code, at the end of GET /oauth/authorize.         *)
IssueCode(c, u, scope, resource, jkt) ==
    /\ Len(codes) < MaxCodes
    /\ ScopeIsSubset(scope, ClientScope[c])
    /\ codes' = Append(codes,
         [client |-> c, user |-> u, scope |-> scope, resource |-> resource, dpop_jkt |-> jkt,
          expires_at |-> now + CodeTTL, used |-> FALSE])
    /\ UNCHANGED <<now, tokens, req, burned>>

(* The process dies and restarts: every request in flight is gone, the      *)
(* tables are as the last committed statement left them.                    *)
Crash ==
    /\ InFlight # {}
    /\ req' = [r \in Requests |-> Idle]
    /\ UNCHANGED <<now, codes, tokens, burned>>

Tick ==
    /\ now < MaxTime
    /\ now' = now + 1
    /\ UNCHANGED <<codes, tokens, req, burned>>
-----------------------------------------------------------------------------
(* The arguments of the actions: what a request can carry.                  *)
ScopeParams == SUBSET Scopes

ResourceParams == Resources \cup {None}

Start(r) ==
    \E c \in Clients, b \in Bindings :
        \/ \E g \in DOMAIN FirstStep : Authenticate(r, c, g, b)
        \/ \E s \in ScopeParams, x \in ResourceParams : ClientCredentials(r, c, b, s, x)
        \/ StartRevoke(r, c)

(* The steps a request in flight takes by itself, once storage answers.     *)
Step(r) ==
    \/ \E k \in DOMAIN codes, valid \in BOOLEAN : ReadCode(r, k, valid)
    \/ ClaimCode(r)
    \/ \E t \in DOMAIN tokens, s \in ScopeParams, x \in ResourceParams :
          ReadRefresh(r, t, s, x) \/ ReadSubject(r, t, s, x)
    \/ \E u \in Users \cup {None}, s \in ScopeParams, x \in ResourceParams :
          RedeemAssertion(r, u, s, x)
    \/ RotateOld(r)
    \/ SaveIssued(r)
    \/ BurnFamily(r)
    \/ \E t \in DOMAIN tokens : LookupRevoked(r, t)
    \/ RevokeOne(r)
    \/ NotFound(r)

Admin ==
    \/ \E t \in DOMAIN tokens : RevokeTokenById(t)
    \/ \E u \in Users : RevokeByUser(u)
    \/ \E c \in Clients : RevokeByClient(c)

Authorize ==
    \E c \in Clients, u \in Users, s \in ScopeParams \ {{}}, x \in ResourceParams,
       j \in Keys \cup {None} : IssueCode(c, u, s, x, j)

Next == (\E r \in Requests : Start(r) \/ Step(r)) \/ Admin \/ Authorize \/ Crash \/ Tick

Spec == Init /\ [][Next]_vars

(* The event loop resumes every coroutine whose storage call has answered,  *)
(* and storage answers every call.                                          *)
FairSpec == Spec /\ \A r \in Requests : WF_vars(Step(r))
-----------------------------------------------------------------------------
(* An authorization code yields at most one token, whatever the             *)
(* interleaving of the requests that present it and wherever the process    *)
(* dies: mark_authorization_code_used is the compare-and-set that decides.  *)
CodeRedeemedOnce ==
    \A i, j \in DOMAIN tokens :
        /\ tokens[i].spec.via = "authorization_code"
        /\ tokens[j].spec.via = "authorization_code"
        /\ tokens[i].spec.src = tokens[j].spec.src
        => i = j

(* What the user agreed to when the code was issued: this client and user,  *)
(* no scope or audience beyond the code's.                                  *)
WithinConsent(s, code) ==
    /\ s.client = code.client
    /\ s.user = code.user
    /\ s.scope \subseteq code.scope
    /\ s.aud \subseteq AudienceOf(code.client, code.resource, {})

(* The token is bound to the DPoP key the code was bound to, if it was.  An *)
(* opaque token has no claim to carry the binding.                          *)
KeyBound(s, code) == (code.dpop_jkt # None /\ ~OpaqueTokens) => s.cnf = code.dpop_jkt

(* Every token of a family, after any number of refreshes, stays within     *)
(* what the user agreed to when the family's code was issued, and keeps the *)
(* DPoP key the code was bound to.  The comment at token.py:650, for which  *)
(* a refresh "can rebind `aud` to any valid resource", is older than the    *)
(* check at token.py:671 that prevents it.                                  *)
FamilyConfinedToConsent ==
    \A i \in DOMAIN tokens :
        LET s == tokens[i].spec IN
        s.family # 0 =>
            /\ s.family \in DOMAIN codes
            /\ WithinConsent(s, codes[s.family])
            /\ KeyBound(s, codes[s.family])

(* A refresh token whose successor exists is dead: the refresh branch       *)
(* revokes the old row before it saves the new one, and nothing revives it. *)
RotatedOutIsRevoked ==
    \A i \in DOMAIN tokens :
        tokens[i].spec.via = "refresh_token" => tokens[tokens[i].spec.src].revoked

(* Token exchange hands on no more than the subject token had, to the same  *)
(* user, and the act chain of every JWT names the exchanging client first,  *)
(* never the same client twice in a row, and at most MaxAct actors.         *)
ExchangeNeverAmplifies ==
    \A i \in DOMAIN tokens :
        LET s == tokens[i].spec IN
        s.via = "token_exchange" =>
            /\ s.scope \subseteq tokens[s.src].spec.scope
            /\ s.user = tokens[s.src].spec.user
            /\ ~OpaqueTokens => s.act # <<>> /\ Head(s.act) = s.client /\ Len(s.act) <= MaxAct
            /\ \A n \in 1..Len(s.act) - 1 : s.act[n] # s.act[n + 1]

(* What a code says.                                                        *)
SameGrant(code, other) ==
    /\ other.client = code.client
    /\ other.user = code.user
    /\ other.scope = code.scope
    /\ other.resource = code.resource
    /\ other.dpop_jkt = code.dpop_jkt
    /\ other.expires_at = code.expires_at

(* No step of the token endpoint, no revocation and no crash revives a      *)
(* revoked row, makes a used code usable again, or changes what a row or a  *)
(* code says.  (The deletion of a user, which takes the user off the rows   *)
(* it revokes, is DeleteUser in Accounts.)                                  *)
NothingRevived ==
    [][/\ \A i \in DOMAIN tokens :
            /\ i \in DOMAIN tokens'
            /\ tokens'[i].spec = tokens[i].spec
            /\ tokens[i].revoked => tokens'[i].revoked
       /\ \A k \in DOMAIN codes :
            /\ k \in DOMAIN codes'
            /\ SameGrant(codes[k], codes'[k])
            /\ codes[k].used => codes'[k].used]_vars

(* Every request is answered, or lost in a crash: no step of the endpoint   *)
(* waits for another request.                                               *)
AnsweredEventually == \A r \in Requests : req[r].pc # "idle" ~> req[r].pc = "idle"
-----------------------------------------------------------------------------
(* What holds when requests do not overlap, and what overlap breaks.        *)

(* Once a replay has been answered, or the client has revoked the grant, no *)
(* token of the family is live ("replaying a used code revokes the whole    *)
(* token family", token.py:465).                                            *)
BurnedFamilyStaysDead ==
    \A i \in DOMAIN tokens : tokens[i].spec.family \in burned => tokens[i].revoked

(* A family never has two live tokens.                                      *)
OneLivePerFamily ==
    \A i, j \in DOMAIN tokens :
        /\ tokens[i].spec.family = tokens[j].spec.family
        /\ tokens[i].spec.family # 0
        /\ ~tokens[i].revoked /\ ~tokens[j].revoked
        => i = j

(* A refresh token that was used twice has cost its family every token      *)
(* ("reuse of a rotated refresh token revokes the whole token family",      *)
(* token.py:632).                                                           *)
ReuseRevokesFamily ==
    \A i, j \in DOMAIN tokens :
        /\ i # j
        /\ tokens[i].spec.via = "refresh_token" /\ tokens[j].spec.via = "refresh_token"
        /\ tokens[i].spec.src = tokens[j].spec.src
        => \A n \in FamilyRows(tokens, tokens[i].spec.family) : tokens[n].revoked
=============================================================================
