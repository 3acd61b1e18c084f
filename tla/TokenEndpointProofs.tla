------------------------- MODULE TokenEndpointProofs -------------------------
(***************************************************************************)
(* Proofs about TokenEndpoint for every value of its constants: any number *)
(* of clients, users, scopes, requests in flight, codes and tokens.  First *)
(* what codes and tokens promise, then delegation chains, then families.   *)
(***************************************************************************)
EXTENDS TokenEndpoint, TLAPS

(* How the two tables may change in one step, on explicit arguments so that *)
(* the facts below can be stated about any two versions of a table.         *)
RowsGrow(ts, tt) ==
    \A i \in DOMAIN ts :
        /\ i \in DOMAIN tt
        /\ tt[i].spec = ts[i].spec
        /\ ts[i].revoked => tt[i].revoked

CodesGrow(cs, ct) ==
    \A k \in DOMAIN cs :
        k \in DOMAIN ct /\ SameGrant(cs[k], ct[k]) /\ (cs[k].used => ct[k].used)
-----------------------------------------------------------------------------
(* What an UPDATE ... SET revoked leaves alone, and what it does.           *)
LEMMA RevokeFacts ==
    ASSUME NEW rows \in Seq(TokenRow), NEW which
    PROVE  /\ Revoke(rows, which) \in Seq(TokenRow)
           /\ RowsGrow(rows, Revoke(rows, which))
           /\ DOMAIN Revoke(rows, which) = DOMAIN rows
           /\ \A i \in DOMAIN rows \cap which : Revoke(rows, which)[i].revoked
<1> DEFINE new == Revoke(rows, which)
<1>1. DOMAIN rows = 1..Len(rows) /\ Len(rows) \in Nat
  OBVIOUS
<1>2. \A i \in DOMAIN rows : rows[i] \in TokenRow
  BY <1>1
<1>3. \A i \in DOMAIN rows :
        /\ new[i] \in TokenRow
        /\ new[i].spec = rows[i].spec
        /\ rows[i].revoked => new[i].revoked
        /\ i \in which => new[i].revoked
  BY Zenon, <1>2 DEF Revoke, TokenRow
<1>4. new = [i \in 1..Len(rows) |-> new[i]]
  BY <1>1 DEF Revoke
<1>5. new \in [1..Len(rows) -> TokenRow]
  <2> HIDE DEF new
  <2> QED BY <1>1, <1>3, <1>4
<1>6. new \in Seq(TokenRow)
  BY <1>1, <1>5
<1>7. DOMAIN new = DOMAIN rows
  BY DEF Revoke
<1> QED
  BY <1>3, <1>6, <1>7 DEF RowsGrow

(* What an INSERT does.                                                     *)
LEMMA SaveFacts ==
    ASSUME NEW rows \in Seq(TokenRow), NEW row \in TokenRow
    PROVE  /\ SaveToken(rows, row) \in Seq(TokenRow)
           /\ RowsGrow(rows, SaveToken(rows, row))
           /\ DOMAIN SaveToken(rows, row) = DOMAIN rows \cup {Len(rows) + 1}
           /\ Len(rows) + 1 \notin DOMAIN rows
           /\ SaveToken(rows, row)[Len(rows) + 1] = row
           /\ \A i \in DOMAIN rows : SaveToken(rows, row)[i] = rows[i]
<1>1. /\ SaveToken(rows, row) \in Seq(TokenRow)
      /\ Len(SaveToken(rows, row)) = Len(rows) + 1
      /\ \A i \in 1..Len(rows) : SaveToken(rows, row)[i] = rows[i]
      /\ SaveToken(rows, row)[Len(rows) + 1] = row
  BY DEF SaveToken
<1>2. DOMAIN rows = 1..Len(rows) /\ Len(rows) \in Nat
  OBVIOUS
<1>3. DOMAIN SaveToken(rows, row) = 1..(Len(rows) + 1)
  BY <1>1
<1> QED
  BY <1>1, <1>2, <1>3 DEF RowsGrow

(* A JWT access token always has an audience.                               *)
HasAudience(s) == ~OpaqueTokens => s.aud # {}

(* TokenService.issue builds a well-formed token from well-formed parts.    *)
LEMMA IssueType ==
    ASSUME NEW client \in Clients, NEW user \in Users \cup {None}, NEW scope \in SUBSET Scopes,
           NEW cnf \in Bindings, NEW act \in Seq(Clients), NEW resource \in Resources \cup {None},
           NEW audience \in SUBSET (Clients \cup Resources), NEW family \in Nat,
           NEW refresh \in BOOLEAN, NEW via \in Grants, NEW src \in Nat
    PROVE  LET s == Issue(client, user, scope, cnf, act, resource, audience, family, refresh,
                          via, src)
           IN  s \in TokenSpec /\ HasAudience(s)
<1>1. /\ AudienceOf(client, resource, audience) \in SUBSET (Clients \cup Resources)
      /\ AudienceOf(client, resource, audience) # {}
  BY Zenon DEF AudienceOf
<1>2. None \in Bindings /\ <<>> \in Seq(Clients)
  BY DEF Bindings
<1> QED
  BY <1>1, <1>2 DEF Issue, TokenSpec, HasAudience
-----------------------------------------------------------------------------
(* Every step only adds rows and codes, and only ever sets `revoked` and    *)
(* `used`.                                                                  *)
LEMMA NextGrows ==
    ASSUME TypeOK, [Next]_vars
    PROVE  RowsGrow(tokens, tokens') /\ CodesGrow(codes, codes')
<1>1. RowsGrow(tokens, tokens) /\ CodesGrow(codes, codes)
  BY DEF RowsGrow, CodesGrow, SameGrant
<1>2. tokens \in Seq(TokenRow) /\ codes \in Seq(AuthCode)
  BY DEF TypeOK
<1>3. \A k \in DOMAIN codes : codes[k] \in AuthCode
  BY <1>2
<1>4. ASSUME NEW which PROVE RowsGrow(tokens, Revoke(tokens, which))
  BY <1>2, RevokeFacts
<1>5. ASSUME NEW row PROVE RowsGrow(tokens, SaveToken(tokens, row))
  <2>1. Append(tokens, row) \in Seq(TokenRow \cup {row})
    BY <1>2
  <2>2. /\ DOMAIN Append(tokens, row) = 1..(Len(tokens) + 1)
        /\ \A i \in 1..Len(tokens) : Append(tokens, row)[i] = tokens[i]
        /\ DOMAIN tokens = 1..Len(tokens) /\ Len(tokens) \in Nat
    BY <1>2, <2>1
  <2> QED BY <2>2 DEF SaveToken, RowsGrow
<1>6. ASSUME NEW code PROVE CodesGrow(codes, Append(codes, code))
  <2>1. Append(codes, code) \in Seq(AuthCode \cup {code})
    BY <1>2
  <2>2. /\ DOMAIN Append(codes, code) = 1..(Len(codes) + 1)
        /\ \A i \in 1..Len(codes) : Append(codes, code)[i] = codes[i]
        /\ DOMAIN codes = 1..Len(codes) /\ Len(codes) \in Nat
    BY <1>2, <2>1
  <2> QED BY <2>2 DEF CodesGrow, SameGrant
<1>7. ASSUME NEW k PROVE CodesGrow(codes, [codes EXCEPT ![k].used = TRUE])
  BY <1>3 DEF CodesGrow, SameGrant, AuthCode
<1>8. CASE UNCHANGED vars
  BY <1>1, <1>8 DEF vars
<1>9. CASE Next
  <2>1. ASSUME NEW r \in Requests, Start(r)
        PROVE  UNCHANGED <<codes, tokens>>
    BY Zenon, <2>1 DEF Start, Authenticate, ClientCredentials, StartRevoke
  <2>2. ASSUME NEW r \in Requests, Step(r)
        PROVE  RowsGrow(tokens, tokens') /\ CodesGrow(codes, codes')
    <3>1. CASE ClaimCode(r)
      BY Zenon, <1>1, <1>7, <3>1 DEF ClaimCode
    <3>2. CASE RotateOld(r) \/ BurnFamily(r) \/ RevokeOne(r)
      BY <1>1, <1>4, <3>2 DEF RotateOld, BurnFamily, RevokeOne, RevokeToken, RevokeTokenFamily
    <3>3. CASE SaveIssued(r)
      BY <1>1, <1>5, <3>3 DEF SaveIssued
    <3>4. ASSUME NEW k, NEW valid, ReadCode(r, k, valid)
          PROVE  UNCHANGED <<codes, tokens>>
      BY Zenon, <3>4 DEF ReadCode, Reject, Continue
    <3>5. ASSUME NEW t, NEW u, NEW sc, NEW x,
                 \/ ReadRefresh(r, t, sc, x) \/ ReadSubject(r, t, sc, x)
                 \/ RedeemAssertion(r, u, sc, x) \/ LookupRevoked(r, t) \/ NotFound(r)
          PROVE  UNCHANGED <<codes, tokens>>
      BY Zenon, <3>5 DEF ReadRefresh, ReadSubject, RedeemAssertion, LookupRevoked, NotFound,
                  Reject, Continue
    <3> QED
      BY <1>1, <2>2, <3>1, <3>2, <3>3, <3>4, <3>5 DEF Step
  <2>3. CASE Admin
    BY Zenon, <1>1, <1>4, <2>3 DEF Admin, RevokeTokenById, RevokeByUser, RevokeByClient, AdminRevoke
  <2>4. CASE Authorize
    BY <1>1, <1>6, <2>4 DEF Authorize, IssueCode
  <2>5. CASE Crash \/ Tick
    BY <1>1, <2>5 DEF Crash, Tick
  <2> QED
    BY <1>1, <1>9, <2>1, <2>2, <2>3, <2>4, <2>5 DEF Next
<1> QED
  BY <1>8, <1>9
-----------------------------------------------------------------------------
(* How moving a request on and ending it change the requests.               *)
LEMMA GotoFacts ==
    ASSUME req \in [Requests -> Request], NEW r \in Requests, NEW pc \in Steps, NEW target \in Nat,
           NEW pending \in TokenSpec \cup {None}, Goto(r, pc, target, pending)
    PROVE  /\ req' \in [Requests -> Request]
           /\ \A q \in Requests \ {r} : req'[q] = req[q]
           /\ req'[r].pc = pc /\ req'[r].target = target /\ req'[r].pending = pending
           /\ req'[r].client = req[r].client /\ req'[r].cnf = req[r].cnf
  BY ZenonT(40) DEF Goto, Request

LEMMA IdleType == Idle \in Request /\ Idle.pc = "idle"
  BY DEF Idle, Request, Steps, Bindings

LEMMA FinishFacts ==
    ASSUME req \in [Requests -> Request], NEW r \in Requests, Finish(r)
    PROVE  /\ req' \in [Requests -> Request]
           /\ \A q \in Requests \ {r} : req'[q] = req[q]
           /\ req'[r].pc = "idle"
  BY IdleType DEF Finish

(* The rows and codes a request can name exist and are well formed.         *)
LEMMA TableFacts ==
    ASSUME TypeOK
    PROVE  /\ \A t \in DOMAIN tokens : t \in Nat \ {0} /\ tokens[t] \in TokenRow
           /\ \A k \in DOMAIN codes : k \in Nat \ {0} /\ codes[k] \in AuthCode
  BY DEF TypeOK

(* The audience and act parts of the tokens the handlers ask for.           *)
LEMMA ActChainType ==
    ASSUME NEW c \in Clients, NEW prior \in Seq(Clients)
    PROVE  ActChain(c, prior) \in Seq(Clients)
<1>1. <<c>> \in Seq(Clients)
  OBVIOUS
<1>2. <<c>> \o prior \in Seq(Clients)
  BY <1>1
<1> QED
  BY <1>1, <1>2 DEF ActChain

-----------------------------------------------------------------------------
(* The inductive invariant, on explicit tables so that its stability under  *)
(* growth can be stated once.                                               *)

(* A token may be saved, or has been: its family's consent covers it, the   *)
(* code it redeemed is used, the refresh token it replaces is revoked.      *)
Justified(s, cs, ts) ==
    /\ HasAudience(s)
    /\ s.family # 0 =>
         s.family \in DOMAIN cs /\ WithinConsent(s, cs[s.family]) /\ KeyBound(s, cs[s.family])
    /\ s.via = "authorization_code" => s.src \in DOMAIN cs /\ cs[s.src].used
    /\ s.via = "refresh_token" => s.src \in DOMAIN ts /\ ts[s.src].revoked

(* Before the claim the code is not known to be unused, nor its DPoP key    *)
(* to match.                                                                *)
ClaimReady(q, cs) ==
    LET s == q.pending IN
    /\ s \in TokenSpec /\ HasAudience(s)
    /\ q.target \in DOMAIN cs
    /\ s.via = "authorization_code" /\ s.src = q.target /\ s.family = q.target
    /\ WithinConsent(s, cs[q.target])
    /\ ~OpaqueTokens => s.cnf = q.cnf

(* Before the rotation the old row is not yet revoked.                      *)
RotateReady(q, cs, ts) ==
    LET s == q.pending IN
    /\ s \in TokenSpec /\ HasAudience(s)
    /\ q.target \in DOMAIN ts
    /\ s.via = "refresh_token" /\ s.src = q.target
    /\ s.family # 0 =>
         s.family \in DOMAIN cs /\ WithinConsent(s, cs[s.family]) /\ KeyBound(s, cs[s.family])

RequestOK(q, cs, ts) ==
    /\ q.pc # "idle" => q.client \in Clients
    /\ q.pc = "claim" => ClaimReady(q, cs)
    /\ q.pc = "rotate" => RotateReady(q, cs, ts)
    /\ q.pc = "save" => q.pending \in TokenSpec /\ Justified(q.pending, cs, ts)

Redeems(s) == s.via = "authorization_code"

(* No two of the tokens issued and about to be issued redeem the same code. *)
RedeemedOnce ==
    /\ CodeRedeemedOnce
    /\ \A q \in Requests, i \in DOMAIN tokens :
         req[q].pc = "save" /\ Redeems(req[q].pending) /\ Redeems(tokens[i].spec)
         => req[q].pending.src # tokens[i].spec.src
    /\ \A p, q \in Requests :
         /\ req[p].pc = "save" /\ Redeems(req[p].pending)
         /\ req[q].pc = "save" /\ Redeems(req[q].pending)
         /\ req[p].pending.src = req[q].pending.src
         => p = q

IInv ==
    /\ TypeOK
    /\ \A i \in DOMAIN tokens : Justified(tokens[i].spec, codes, tokens)
    /\ \A q \in Requests : RequestOK(req[q], codes, tokens)
    /\ RedeemedOnce
-----------------------------------------------------------------------------
(* The invariant's parts survive the growth of the tables.                  *)
LEMMA JustifiedStable ==
    ASSUME NEW s, NEW cs, NEW ct, NEW ts, NEW tt, CodesGrow(cs, ct), RowsGrow(ts, tt),
           Justified(s, cs, ts)
    PROVE  Justified(s, ct, tt)
  BY DEF CodesGrow, RowsGrow, SameGrant, Justified, WithinConsent, KeyBound

LEMMA RequestStable ==
    ASSUME NEW q, NEW cs, NEW ct, NEW ts, NEW tt, CodesGrow(cs, ct), RowsGrow(ts, tt),
           RequestOK(q, cs, ts)
    PROVE  RequestOK(q, ct, tt)
<1>1. q.pc = "claim" => ClaimReady(q, ct)
  BY Zenon DEF RequestOK, ClaimReady, CodesGrow, SameGrant, WithinConsent
<1>2. q.pc = "rotate" => RotateReady(q, ct, tt)
  BY DEF RequestOK, RotateReady, CodesGrow, RowsGrow, SameGrant, WithinConsent, KeyBound
<1>3. q.pc = "save" => q.pending \in TokenSpec /\ Justified(q.pending, ct, tt)
  BY JustifiedStable DEF RequestOK
<1> QED
  BY <1>1, <1>2, <1>3 DEF RequestOK

(* A request that waits at any other step promises nothing.                 *)
LEMMA OtherStepOK ==
    ASSUME NEW q, NEW cs, NEW ts, q.pc \notin {"claim", "rotate", "save"},
           q.pc # "idle" => q.client \in Clients
    PROVE  RequestOK(q, cs, ts)
  BY DEF RequestOK
-----------------------------------------------------------------------------
(* One lemma per kind of step: the request that moves is left in a state    *)
(* that keeps its promise.                                                  *)
Moved(r) ==
    /\ req' \in [Requests -> Request]
    /\ \A q \in Requests \ {r} : req'[q] = req[q]
    /\ RequestOK(req'[r], codes', tokens')

LEMMA FinishMoves ==
    ASSUME IInv, NEW r \in Requests, Finish(r)
    PROVE  Moved(r)
  BY Zenon, FinishFacts, OtherStepOK DEF IInv, TypeOK, Moved

LEMMA BurnMoves ==
    ASSUME IInv, NEW r \in Requests, NEW pc \in {"burn", "revoke_one"}, NEW f \in Nat,
           req[r].pc # "idle", Goto(r, pc, f, None)
    PROVE  Moved(r)
<1>1. pc \in Steps /\ pc \notin {"claim", "rotate", "save"}
  BY Zenon DEF Steps
<1>2. req \in [Requests -> Request] /\ req[r].client \in Clients
  BY DEF IInv, TypeOK, RequestOK
<1> QED
  BY <1>1, <1>2, GotoFacts, OtherStepOK DEF Moved

(* A grant that goes straight to save_token: no family, no code, no refresh *)
(* token replaced.                                                          *)
LEMMA FreeSpecJustified ==
    ASSUME NEW s, NEW cs, NEW ts, HasAudience(s), s.family = 0,
           s.via \notin {"authorization_code", "refresh_token"}
    PROVE  Justified(s, cs, ts)
  BY Zenon DEF Justified

LEMMA StartMoves ==
    ASSUME IInv, NEW r \in Requests, Start(r)
    PROVE  Moved(r) /\ (req'[r].pc = "save" => ~Redeems(req'[r].pending))
<1>1. req \in [Requests -> Request]
  BY DEF IInv, TypeOK
<1>2. ASSUME NEW c \in Clients, NEW b \in Bindings, NEW g \in DOMAIN FirstStep,
             Authenticate(r, c, g, b)
      PROVE  Moved(r) /\ req'[r].pc # "save"
  <2> DEFINE new == [Idle EXCEPT !.pc = FirstStep[g], !.client = c, !.cnf = b]
  <2>1. FirstStep[g] \in {"code", "refresh", "subject", "assertion"}
    BY DEF FirstStep
  <2>2. new \in Request /\ new.pc = FirstStep[g] /\ new.client = c
    BY Zenon, <2>1, IdleType DEF Request, Steps, Idle
  <2>3. req' = [req EXCEPT ![r] = new]
    BY <1>2 DEF Authenticate
  <2> HIDE DEF new
  <2> QED BY <1>1, <2>1, <2>2, <2>3, OtherStepOK DEF Moved
<1>3. ASSUME NEW c \in Clients, StartRevoke(r, c)
      PROVE  Moved(r) /\ req'[r].pc # "save"
  <2> DEFINE new == [Idle EXCEPT !.pc = "lookup", !.client = c]
  <2>1. new \in Request /\ new.pc = "lookup" /\ new.client = c
    BY Zenon, IdleType DEF Request, Steps, Idle
  <2>2. req' = [req EXCEPT ![r] = new]
    BY Zenon, <1>3 DEF StartRevoke
  <2> HIDE DEF new
  <2> QED BY <1>1, <2>1, <2>2, OtherStepOK DEF Moved
<1>4. ASSUME NEW c \in Clients, NEW b \in Bindings, NEW sc \in ScopeParams, NEW x \in ResourceParams,
             ClientCredentials(r, c, b, sc, x)
      PROVE  Moved(r) /\ ~Redeems(req'[r].pending)
  <2> DEFINE spec == Issue(c, None, GrantedScope(sc, ClientScope[c]), b, <<>>, x, {}, 0, FALSE,
                           "client_credentials", 0)
             new == [pc |-> "save", client |-> c, cnf |-> b, target |-> 0, pending |-> spec]
  <2>1. GrantedScope(sc, ClientScope[c]) \in SUBSET Scopes /\ x \in Resources \cup {None}
    BY EndpointAssumption DEF GrantedScope, ScopeParams, ResourceParams
  <2>2. /\ <<>> \in Seq(Clients) /\ {} \in SUBSET (Clients \cup Resources) /\ FALSE \in BOOLEAN
        /\ "client_credentials" \in Grants /\ None \in Users \cup {None} /\ 0 \in Nat
    BY DEF Grants
  <2>3. spec \in TokenSpec /\ HasAudience(spec)
    BY Zenon, <2>1, <2>2, IssueType
  <2>4. spec.family = 0 /\ spec.via = "client_credentials"
    BY Zenon DEF Issue
  <2>5. req' = [req EXCEPT ![r] = new]
    BY <1>4 DEF ClientCredentials
  <2> HIDE DEF spec
  <2>6. new \in Request
    BY Zenon, <2>3 DEF Request, Steps
  <2>7. RequestOK(new, codes', tokens')
    BY <2>3, <2>4, FreeSpecJustified DEF RequestOK
  <2> QED BY <1>1, <2>4, <2>5, <2>6, <2>7 DEF Moved, Redeems
<1> QED
  BY <1>2, <1>3, <1>4 DEF Start

LEMMA ReadCodeMoves ==
    ASSUME IInv, NEW r \in Requests, NEW k \in DOMAIN codes, NEW valid \in BOOLEAN,
           ReadCode(r, k, valid)
    PROVE  Moved(r) /\ req'[r].pc # "save"
<1> DEFINE code == codes[k]
           spec == Issue(code.client, code.user, code.scope, req[r].cnf, <<>>, code.resource,
                         {}, k, TRUE, "authorization_code", k)
<1>1. req \in [Requests -> Request] /\ TypeOK
  BY Zenon DEF IInv, TypeOK
<1>2. /\ k \in Nat \ {0} /\ code \in AuthCode /\ req[r].cnf \in Bindings
      /\ req[r].client \in Clients /\ req[r].pc # "idle"
  BY <1>1, TableFacts DEF Request, IInv, RequestOK, ReadCode
<1>3. CASE Reject(r)
  BY Zenon, <1>1, <1>3, FinishMoves, FinishFacts DEF Reject
<1>4. CASE Continue(r, "burn", k, None)
  <2>1. Goto(r, "burn", k, None) /\ "burn" \in Steps
    BY Zenon, <1>4 DEF Continue, Steps
  <2> QED BY <1>1, <1>2, <2>1, BurnMoves, GotoFacts
<1>5. CASE Continue(r, "claim", k, spec)
  <2>1. /\ code.client \in Clients /\ code.user \in Users \cup {None}
        /\ code.scope \in SUBSET Scopes /\ code.resource \in Resources \cup {None}
    BY <1>2 DEF AuthCode
  <2>2. /\ <<>> \in Seq(Clients) /\ {} \in SUBSET (Clients \cup Resources) /\ TRUE \in BOOLEAN
        /\ "authorization_code" \in Grants
    BY DEF Grants
  <2>3. spec \in TokenSpec /\ HasAudience(spec)
    BY ZenonT(40), <1>2, <2>1, <2>2, IssueType
  <2>4. /\ spec.via = "authorization_code" /\ spec.src = k /\ spec.family = k
        /\ WithinConsent(spec, code)
        /\ ~OpaqueTokens => spec.cnf = req[r].cnf
    BY Zenon DEF Issue, WithinConsent
  <2>5. Goto(r, "claim", k, spec) /\ codes' = codes /\ "claim" \in Steps
    BY Zenon, <1>5 DEF Continue, Steps
  <2> HIDE DEF spec
  <2>6. /\ req' \in [Requests -> Request]
        /\ \A q \in Requests \ {r} : req'[q] = req[q]
        /\ req'[r].pc = "claim" /\ req'[r].target = k /\ req'[r].pending = spec
        /\ req'[r].cnf = req[r].cnf /\ req'[r].client = req[r].client
    BY <1>1, <1>2, <2>3, <2>5, GotoFacts
  <2>7. ClaimReady(req'[r], codes')
    BY <2>3, <2>4, <2>5, <2>6 DEF ClaimReady
  <2> QED BY Zenon, <1>2, <2>6, <2>7 DEF Moved, RequestOK
<1> QED
  BY Zenon, <1>3, <1>4, <1>5 DEF ReadCode

LEMMA ReadRefreshMoves ==
    ASSUME IInv, NEW r \in Requests, NEW t \in DOMAIN tokens, NEW scope \in ScopeParams,
           NEW resource \in ResourceParams, ReadRefresh(r, t, scope, resource)
    PROVE  Moved(r) /\ req'[r].pc # "save"
<1> DEFINE s == tokens[t].spec
           spec == Issue(s.client, s.user, GrantedScope(scope, s.scope), s.cnf, <<>>, resource,
                         CarriedAudience(s.aud, resource), s.family, TRUE, "refresh_token", t)
<1>1. req \in [Requests -> Request] /\ TypeOK
  BY Zenon DEF IInv, TypeOK
<1>2. t \in Nat /\ s \in TokenSpec /\ req[r].client \in Clients /\ req[r].pc # "idle"
  BY Zenon, <1>1, TableFacts DEF TokenRow, IInv, RequestOK, ReadRefresh
<1>3. CASE Reject(r)
  BY Zenon, <1>1, <1>3, FinishMoves, FinishFacts DEF Reject
<1>4. CASE Continue(r, "burn", s.family, None)
  <2>1. Goto(r, "burn", s.family, None) /\ "burn" \in Steps /\ s.family \in Nat
    BY Zenon, <1>2, <1>4 DEF Continue, Steps, TokenSpec
  <2> QED BY Zenon, <1>1, <1>2, <2>1, BurnMoves, GotoFacts
<1>5. CASE /\ Continue(r, "rotate", t, spec)
           /\ ScopeIsSubset(scope, s.scope) /\ AudienceAllowed(s.aud, resource)
  <2>1. /\ s.client \in Clients /\ s.user \in Users \cup {None} /\ s.cnf \in Bindings
        /\ s.scope \in SUBSET Scopes /\ s.aud \in SUBSET (Clients \cup Resources)
        /\ s.family \in Nat
    BY Zenon, <1>2 DEF TokenSpec
  <2>2. /\ <<>> \in Seq(Clients) /\ TRUE \in BOOLEAN /\ "refresh_token" \in Grants
        /\ resource \in Resources \cup {None}
        /\ GrantedScope(scope, s.scope) \in SUBSET Scopes
        /\ CarriedAudience(s.aud, resource) \in SUBSET (Clients \cup Resources)
    BY <2>1 DEF Grants, ResourceParams, ScopeParams, GrantedScope, CarriedAudience
  <2>3. spec \in TokenSpec /\ HasAudience(spec)
    BY Zenon, <1>2, <2>1, <2>2, IssueType
  <2>4. /\ spec.via = "refresh_token" /\ spec.src = t /\ spec.family = s.family
        /\ spec.client = s.client /\ spec.user = s.user
        /\ spec.scope = GrantedScope(scope, s.scope)
        /\ ~OpaqueTokens => spec.cnf = s.cnf
    BY DEF Issue
  <2>5. spec.scope \subseteq s.scope
    BY Zenon, <1>5, <2>4 DEF GrantedScope, ScopeIsSubset
  <2>6. Justified(s, codes, tokens)
    BY DEF IInv
  <2>7. ASSUME s.family # 0
        PROVE  spec.aud \subseteq AudienceOf(codes[s.family].client, codes[s.family].resource, {})
    <3>1. CASE OpaqueTokens
      BY <3>1 DEF Issue
    <3>2. CASE ~OpaqueTokens
      <4>1. s.aud # {}
        BY <2>6, <3>2 DEF Justified, HasAudience
      <4> QED BY Zenon, <1>5, <2>6, <2>7, <3>2, <4>1
             DEF Issue, AudienceOf, AudienceAllowed, CarriedAudience, Justified, WithinConsent
    <3> QED BY Zenon, <3>1, <3>2
  <2>8. Goto(r, "rotate", t, spec) /\ codes' = codes /\ tokens' = tokens /\ "rotate" \in Steps
    BY Zenon, <1>5 DEF Continue, Steps
  <2> HIDE DEF spec
  <2>9. /\ req' \in [Requests -> Request]
        /\ \A q \in Requests \ {r} : req'[q] = req[q]
        /\ req'[r].pc = "rotate" /\ req'[r].target = t /\ req'[r].pending = spec
        /\ req'[r].client = req[r].client
    BY <1>1, <1>2, <2>3, <2>8, GotoFacts
  <2>10. s.family # 0 =>
            /\ s.family \in DOMAIN codes
            /\ WithinConsent(spec, codes[s.family]) /\ KeyBound(spec, codes[s.family])
    BY Zenon, <2>4, <2>5, <2>6, <2>7 DEF Justified, WithinConsent, KeyBound
  <2>11. RotateReady(req'[r], codes', tokens')
    BY <2>3, <2>4, <2>8, <2>9, <2>10 DEF RotateReady
  <2> QED BY Zenon, <1>2, <2>9, <2>11 DEF Moved, RequestOK
<1> QED
  BY Zenon, <1>3, <1>4, <1>5 DEF ReadRefresh

(* A grant that read what it needed and now waits for save_token.           *)
LEMMA FreeSpecMoves ==
    ASSUME IInv, NEW r \in Requests, NEW t \in Nat, NEW s \in TokenSpec, HasAudience(s),
           s.family = 0, s.via \notin {"authorization_code", "refresh_token"},
           req[r].pc # "idle", Goto(r, "save", t, s)
    PROVE  Moved(r) /\ (req'[r].pc = "save" => ~Redeems(req'[r].pending))
<1>1. req \in [Requests -> Request] /\ "save" \in Steps /\ req[r].client \in Clients
  BY Zenon DEF IInv, TypeOK, Steps, RequestOK
<1>2. /\ req' \in [Requests -> Request]
      /\ \A q \in Requests \ {r} : req'[q] = req[q]
      /\ req'[r].pc = "save" /\ req'[r].pending = s /\ req'[r].client = req[r].client
  BY <1>1, GotoFacts
<1>3. Justified(s, codes', tokens')
  BY FreeSpecJustified
<1> QED
  BY Zenon, <1>1, <1>2, <1>3 DEF Moved, RequestOK, Redeems

LEMMA ReadSubjectMoves ==
    ASSUME IInv, NEW r \in Requests, NEW t \in DOMAIN tokens, NEW scope \in ScopeParams,
           NEW resource \in ResourceParams, ReadSubject(r, t, scope, resource)
    PROVE  Moved(r) /\ (req'[r].pc = "save" => ~Redeems(req'[r].pending))
<1> DEFINE s == tokens[t].spec
           c == req[r].client
           act == ActChain(c, s.act)
           spec == Issue(c, s.user, GrantedScope(scope, s.scope), req[r].cnf, act, resource,
                         {}, 0, FALSE, "token_exchange", t)
<1>1. req \in [Requests -> Request] /\ TypeOK
  BY DEF IInv, TypeOK
<1>2. t \in Nat /\ s \in TokenSpec /\ req[r].cnf \in Bindings /\ req[r].pc # "idle"
  BY Zenon, <1>1, TableFacts DEF TokenRow, Request, ReadSubject
<1>3. CASE Reject(r)
  BY Zenon, <1>1, <1>3, FinishMoves, FinishFacts DEF Reject
<1>4. CASE Continue(r, "save", t, spec)
  <2>1. s.user \in Users \cup {None} /\ s.scope \in SUBSET Scopes /\ s.act \in Seq(Clients)
    BY Zenon, <1>2 DEF TokenSpec
  <2>2. /\ {} \in SUBSET (Clients \cup Resources) /\ FALSE \in BOOLEAN
        /\ "token_exchange" \in Grants /\ resource \in Resources \cup {None} /\ 0 \in Nat
        /\ GrantedScope(scope, s.scope) \in SUBSET Scopes
    BY Zenon, <2>1 DEF Grants, ResourceParams, ScopeParams, GrantedScope
  <2>3. c \in Clients
    BY Zenon DEF IInv, RequestOK, ReadSubject
  <2>4. act \in Seq(Clients)
    BY <2>1, <2>3, ActChainType
  <2> HIDE DEF act
  <2>5. spec \in TokenSpec /\ HasAudience(spec)
    BY Zenon, <1>2, <2>1, <2>2, <2>3, <2>4, IssueType
  <2>6. spec.family = 0 /\ spec.via = "token_exchange"
    BY DEF Issue
  <2>7. Goto(r, "save", t, spec)
    BY Zenon, <1>4 DEF Continue
  <2> HIDE DEF spec
  <2> QED BY Zenon, <1>2, <2>5, <2>6, <2>7, FreeSpecMoves
<1> QED
  BY Zenon, <1>3, <1>4 DEF ReadSubject

LEMMA RedeemAssertionMoves ==
    ASSUME IInv, NEW r \in Requests, NEW u \in Users \cup {None}, NEW scope \in ScopeParams,
           NEW resource \in ResourceParams, RedeemAssertion(r, u, scope, resource)
    PROVE  Moved(r) /\ (req'[r].pc = "save" => ~Redeems(req'[r].pending))
<1> DEFINE c == req[r].client
           spec == Issue(c, u, GrantedScope(scope, ClientScope[c]), req[r].cnf, <<>>, resource,
                         {}, 0, FALSE, "jwt_bearer", 0)
<1>1. req \in [Requests -> Request] /\ TypeOK
  BY Zenon DEF IInv, TypeOK
<1>2. req[r].cnf \in Bindings /\ req[r].pc # "idle"
  BY Zenon, <1>1 DEF Request, RedeemAssertion
<1>3. CASE Reject(r)
  BY Zenon, <1>1, <1>3, FinishMoves, FinishFacts DEF Reject
<1>4. CASE Continue(r, "save", 0, spec)
  <2>1. c \in Clients
    BY DEF IInv, RequestOK, RedeemAssertion
  <2>2. /\ {} \in SUBSET (Clients \cup Resources) /\ FALSE \in BOOLEAN /\ <<>> \in Seq(Clients)
        /\ "jwt_bearer" \in Grants /\ resource \in Resources \cup {None} /\ 0 \in Nat
        /\ GrantedScope(scope, ClientScope[c]) \in SUBSET Scopes
    BY <2>1, EndpointAssumption DEF Grants, ResourceParams, ScopeParams, GrantedScope
  <2>5. spec \in TokenSpec /\ HasAudience(spec)
    BY Zenon, <1>2, <2>1, <2>2, IssueType
  <2>6. spec.family = 0 /\ spec.via = "jwt_bearer"
    BY DEF Issue
  <2>7. Goto(r, "save", 0, spec)
    BY Zenon, <1>4 DEF Continue
  <2> HIDE DEF spec
  <2> QED BY Zenon, <1>2, <2>2, <2>5, <2>6, <2>7, FreeSpecMoves
<1> QED
  BY Zenon, <1>3, <1>4 DEF RedeemAssertion

(* revoke_token and then save_token: what RotatedOutIsRevoked rests on.     *)
LEMMA RotateOldMoves ==
    ASSUME IInv, NEW r \in Requests, RotateOld(r)
    PROVE  Moved(r) /\ (req'[r].pc = "save" => ~Redeems(req'[r].pending))
<1> DEFINE s == req[r].pending
           t == req[r].target
<1>1. req \in [Requests -> Request] /\ tokens \in Seq(TokenRow) /\ "save" \in Steps
  BY Zenon DEF IInv, TypeOK, Steps
<1>2. RotateReady(req[r], codes, tokens) /\ t \in Nat /\ req[r].client \in Clients
  BY Zenon, <1>1 DEF IInv, RequestOK, RotateOld, Request
<1>3. s \in TokenSpec /\ t \in DOMAIN tokens
  BY Zenon, <1>2 DEF RotateReady
<1>4. Goto(r, "save", t, s) /\ tokens' = Revoke(tokens, {t}) /\ codes' = codes
  BY Zenon DEF RotateOld, RevokeToken
<1>5. /\ req' \in [Requests -> Request]
      /\ \A q \in Requests \ {r} : req'[q] = req[q]
      /\ req'[r].pc = "save" /\ req'[r].pending = s /\ req'[r].client = req[r].client
  BY <1>1, <1>2, <1>3, <1>4, GotoFacts
<1>6. t \in DOMAIN tokens' /\ tokens'[t].revoked
  BY Zenon, <1>1, <1>3, <1>4, RevokeFacts
<1>7. Justified(s, codes', tokens') /\ ~Redeems(s)
  BY Zenon, <1>2, <1>4, <1>6 DEF RotateReady, Justified, Redeems
<1> QED
  BY Zenon, <1>2, <1>3, <1>5, <1>7 DEF Moved, RequestOK

(* The compare-and-set: whoever finds the code unused is the only one who   *)
(* will issue a token on it.                                                *)
LEMMA ClaimCodeMoves ==
    ASSUME IInv, NEW r \in Requests, ClaimCode(r)
    PROVE  /\ Moved(r)
           /\ codes' \in Seq(AuthCode)
           /\ req'[r].pc = "save" =>
                 req'[r].pending.src \in DOMAIN codes /\ ~codes[req'[r].pending.src].used
<1> DEFINE s == req[r].pending
           k == req[r].target
<1>1. req \in [Requests -> Request] /\ codes \in Seq(AuthCode) /\ "save" \in Steps
  BY Zenon DEF IInv, TypeOK, Steps
<1>2. /\ ClaimReady(req[r], codes) /\ k \in Nat
      /\ req[r].client \in Clients /\ req[r].pc # "idle"
  BY Zenon, <1>1 DEF IInv, RequestOK, ClaimCode, Request
<1>3. s \in TokenSpec /\ k \in DOMAIN codes /\ codes[k] \in AuthCode
  BY Zenon, <1>2, TableFacts DEF ClaimReady, IInv
<1>4. codes' = [codes EXCEPT ![k].used = TRUE]
  BY DEF ClaimCode
<1>5. codes' \in Seq(AuthCode)
  <2> DEFINE new == [codes[k] EXCEPT !.used = TRUE]
  <2>1. new \in AuthCode
    BY Zenon, <1>3 DEF AuthCode
  <2>2. codes' = [codes EXCEPT ![k] = new] /\ k \in 1..Len(codes)
    BY <1>1, <1>3, <1>4
  <2> HIDE DEF new
  <2> QED BY <1>1, <2>1, <2>2
<1>6. /\ k \in DOMAIN codes' /\ codes'[k].used /\ SameGrant(codes[k], codes'[k])
  BY Zenon, <1>3, <1>4 DEF AuthCode, SameGrant
<1>7. CASE Goto(r, "burn", k, None)
  <2>1. "burn" \in Steps
    BY Zenon DEF Steps
  <2> QED BY Zenon, <1>1, <1>2, <1>5, <1>7, <2>1, BurnMoves, GotoFacts
<1>8. CASE Finish(r)
  BY Zenon, <1>1, <1>5, <1>8, FinishMoves, FinishFacts
<1>9. CASE ~codes[k].used /\ KeyMatches(codes[k], req[r].cnf) /\ Goto(r, "save", k, s)
  <2>1. /\ req' \in [Requests -> Request]
        /\ \A q \in Requests \ {r} : req'[q] = req[q]
        /\ req'[r].pc = "save" /\ req'[r].pending = s /\ req'[r].client = req[r].client
    BY <1>1, <1>2, <1>3, <1>9, GotoFacts
  <2>2. WithinConsent(s, codes'[k]) /\ KeyBound(s, codes'[k])
    BY Zenon, <1>2, <1>6, <1>9 DEF ClaimReady, SameGrant, WithinConsent, KeyBound, KeyMatches
  <2>3. Justified(s, codes', tokens')
    BY Zenon, <1>2, <1>6, <2>2 DEF Justified, ClaimReady
  <2>4. s.src = k
    BY Zenon, <1>2 DEF ClaimReady
  <2> QED BY Zenon, <1>2, <1>3, <1>5, <1>9, <2>1, <2>3, <2>4 DEF Moved, RequestOK
<1> QED
  BY Zenon, <1>7, <1>8, <1>9 DEF ClaimCode
-----------------------------------------------------------------------------
(* Types of the two tables and the clock are preserved.                     *)
LEMMA TablesTyped ==
    ASSUME IInv, [Next]_vars
    PROVE  now' \in Nat /\ codes' \in Seq(AuthCode) /\ tokens' \in Seq(TokenRow) /\ burned' \subseteq Nat
<1>1. /\ now \in Nat /\ codes \in Seq(AuthCode) /\ tokens \in Seq(TokenRow) /\ burned \subseteq Nat
      /\ req \in [Requests -> Request]
  BY Zenon DEF IInv, TypeOK
<1>2. ASSUME NEW which PROVE Revoke(tokens, which) \in Seq(TokenRow)
  BY Zenon, <1>1, RevokeFacts
<1>3. CASE UNCHANGED vars
  BY <1>1, <1>3 DEF vars
<1>4. CASE \E r \in Requests : Start(r)
  BY ZenonT(40), <1>1, <1>4 DEF Start, Authenticate, ClientCredentials, StartRevoke
<1>5. ASSUME NEW r \in Requests, Step(r)
      PROVE  /\ now' \in Nat /\ codes' \in Seq(AuthCode) /\ tokens' \in Seq(TokenRow)
             /\ burned' \subseteq Nat
  <2>1. CASE ClaimCode(r)
    BY Zenon, <1>1, <2>1, ClaimCodeMoves DEF ClaimCode
  <2>2. CASE RotateOld(r) \/ RevokeOne(r)
    BY Zenon, <1>1, <1>2, <2>2 DEF RotateOld, RevokeOne, RevokeToken
  <2>3. CASE BurnFamily(r)
    <3>1. req[r].target \in Nat
      BY <1>1 DEF Request
    <3> QED BY Zenon, <1>1, <1>2, <2>3, <3>1 DEF BurnFamily, RevokeTokenFamily
  <2>4. CASE SaveIssued(r)
    <3> DEFINE row == NewRow(req[r].pending, now, AccessTTL)
    <3>1. req[r].pending \in TokenSpec
      BY <2>4 DEF SaveIssued, IInv, RequestOK
    <3>2. row \in TokenRow
      BY <1>1, <3>1, EndpointAssumption DEF NewRow, TokenRow
    <3>3. tokens' = SaveToken(tokens, row)
      BY <2>4 DEF SaveIssued
    <3> HIDE DEF row
    <3>4. tokens' \in Seq(TokenRow)
      BY Zenon, <1>1, <3>2, <3>3, SaveFacts
    <3> QED BY <1>1, <2>4, <3>4 DEF SaveIssued
  <2>5. ASSUME NEW k, NEW valid, ReadCode(r, k, valid)
        PROVE  UNCHANGED <<now, codes, tokens, burned>>
    BY Zenon, <2>5 DEF ReadCode, Reject, Continue
  <2>6. ASSUME NEW t, NEW u, NEW sc, NEW x,
               \/ ReadRefresh(r, t, sc, x) \/ ReadSubject(r, t, sc, x)
               \/ RedeemAssertion(r, u, sc, x) \/ LookupRevoked(r, t) \/ NotFound(r)
        PROVE  UNCHANGED <<now, codes, tokens, burned>>
    BY Zenon, <2>6 DEF ReadRefresh, ReadSubject, RedeemAssertion, LookupRevoked, NotFound, Reject,
         Continue
  <2> QED
    BY Zenon, <1>1, <1>5, <2>1, <2>2, <2>3, <2>4, <2>5, <2>6 DEF Step
<1>6. CASE Admin
  BY Zenon, <1>1, <1>2, <1>6 DEF Admin, RevokeTokenById, RevokeByUser, RevokeByClient, AdminRevoke
<1>7. CASE Authorize
  <2>1. PICK c \in Clients, u \in Users, sc \in ScopeParams \ {{}}, x \in ResourceParams,
             j \in Keys \cup {None} : IssueCode(c, u, sc, x, j)
    BY Zenon, <1>7 DEF Authorize
  <2> DEFINE code == [client |-> c, user |-> u, scope |-> sc, resource |-> x, dpop_jkt |-> j,
                      expires_at |-> now + CodeTTL, used |-> FALSE]
  <2>2. code \in AuthCode
    BY <1>1, EndpointAssumption DEF AuthCode, ScopeParams, ResourceParams
  <2>3. codes' = Append(codes, code) /\ UNCHANGED <<now, tokens, burned>>
    BY Zenon, <2>1 DEF IssueCode
  <2> HIDE DEF code
  <2> QED BY <1>1, <2>2, <2>3
<1>8. CASE Crash
  BY Zenon, <1>1, <1>8 DEF Crash
<1>9. CASE Tick
  <2>1. now' \in Nat
    BY <1>1, <1>9 DEF Tick
  <2> QED BY Zenon, <1>1, <1>9, <2>1 DEF Tick
<1> QED
  BY Zenon, <1>3, <1>4, <1>5, <1>6, <1>7, <1>8, <1>9 DEF Next

(* Every step of a request leaves it in a state that keeps its promise.     *)
LEMMA StepMoves ==
    ASSUME IInv, NEW r \in Requests, Step(r)
    PROVE  /\ Moved(r)
           /\ ~ClaimCode(r) /\ req'[r].pc = "save" => ~Redeems(req'[r].pending)
<1>1. req \in [Requests -> Request] /\ TypeOK
  BY DEF IInv, TypeOK
<1>2. CASE Finish(r)
  BY Zenon, <1>1, <1>2, FinishMoves, FinishFacts
<1>3. ASSUME NEW k \in DOMAIN codes, NEW valid \in BOOLEAN, ReadCode(r, k, valid)
      PROVE  Moved(r) /\ req'[r].pc # "save"
  BY Zenon, <1>3, ReadCodeMoves
<1>4. ASSUME NEW t \in DOMAIN tokens, NEW sc \in ScopeParams, NEW x \in ResourceParams,
             ReadRefresh(r, t, sc, x) \/ ReadSubject(r, t, sc, x)
      PROVE  Moved(r) /\ (req'[r].pc = "save" => ~Redeems(req'[r].pending))
  BY Zenon, <1>4, ReadRefreshMoves, ReadSubjectMoves
<1>5. ASSUME NEW u \in Users \cup {None}, NEW sc \in ScopeParams, NEW x \in ResourceParams,
             RedeemAssertion(r, u, sc, x)
      PROVE  Moved(r) /\ (req'[r].pc = "save" => ~Redeems(req'[r].pending))
  BY Zenon, <1>5, RedeemAssertionMoves
<1>6. ASSUME NEW t \in DOMAIN tokens, LookupRevoked(r, t)
      PROVE  Moved(r) /\ req'[r].pc # "save"
  <2>1. /\ tokens[t].spec.family \in Nat /\ t \in Nat /\ req[r].pc # "idle"
        /\ {"burn", "revoke_one"} \subseteq Steps
    BY Zenon, <1>1, <1>6, TableFacts DEF TokenRow, TokenSpec, LookupRevoked, Steps
  <2>2. \/ Finish(r) \/ Goto(r, "burn", tokens[t].spec.family, None)
        \/ Goto(r, "revoke_one", t, None)
    BY Zenon, <1>6 DEF LookupRevoked, Reject, Continue
  <2> QED BY <1>1, <2>1, <2>2, BurnMoves, FinishMoves, FinishFacts, GotoFacts
<1>7. CASE ClaimCode(r)
  BY Zenon, <1>7, ClaimCodeMoves
<1>8. CASE RotateOld(r)
  BY Zenon, <1>8, RotateOldMoves
<1>9. CASE SaveIssued(r) \/ BurnFamily(r) \/ RevokeOne(r) \/ NotFound(r)
  BY Zenon, <1>2, <1>9 DEF SaveIssued, BurnFamily, RevokeOne, NotFound, Reject
<1> QED
  <2>1. CASE ~ClaimCode(r)
    BY Zenon, <1>3, <1>4, <1>5, <1>6, <1>8, <1>9, <2>1 DEF Step
  <2> QED BY <1>7, <2>1
-----------------------------------------------------------------------------
(* How one step can change who redeems which code.  A step that neither     *)
(* claims a code nor saves a token gives nobody a new right.                *)
LEMMA NobodyNewRedeems ==
    ASSUME IInv, NEW R \in SUBSET Requests,
           DOMAIN tokens' = DOMAIN tokens,
           \A i \in DOMAIN tokens : tokens'[i].spec = tokens[i].spec,
           \A q \in Requests \ R : req'[q] = req[q],
           \A q \in R : req'[q].pc = "save" => ~Redeems(req'[q].pending)
    PROVE  RedeemedOnce'
<1>1. CodeRedeemedOnce'
  BY Zenon DEF IInv, RedeemedOnce, CodeRedeemedOnce
<1>2. ASSUME NEW q \in Requests, req'[q].pc = "save", Redeems(req'[q].pending)
      PROVE  q \notin R /\ req'[q] = req[q]
  BY Zenon, <1>2
<1> QED
  BY <1>1, <1>2 DEF IInv, RedeemedOnce, Redeems

LEMMA ClaimRedeemsOnce ==
    ASSUME IInv, NEW r \in Requests, ClaimCode(r)
    PROVE  RedeemedOnce'
<1>1. tokens' = tokens
  BY Zenon DEF ClaimCode
<1>2. /\ \A q \in Requests \ {r} : req'[q] = req[q]
      /\ req'[r].pc = "save" =>
            req'[r].pending.src \in DOMAIN codes /\ ~codes[req'[r].pending.src].used
  BY ZenonT(40), ClaimCodeMoves DEF Moved
<1>3. \A i \in DOMAIN tokens : Redeems(tokens[i].spec) => codes[tokens[i].spec.src].used
  BY DEF IInv, Justified, Redeems
<1>4. \A q \in Requests :
        req[q].pc = "save" /\ Redeems(req[q].pending) => codes[req[q].pending.src].used
  BY Zenon DEF IInv, RequestOK, Justified, Redeems
<1>5. CodeRedeemedOnce'
  BY Zenon, <1>1 DEF IInv, RedeemedOnce, CodeRedeemedOnce
<1>6. ASSUME NEW q \in Requests, NEW i \in DOMAIN tokens, req'[q].pc = "save",
             Redeems(req'[q].pending), Redeems(tokens[i].spec)
      PROVE  req'[q].pending.src # tokens[i].spec.src
  BY <1>2, <1>3, <1>6 DEF IInv, RedeemedOnce
<1>7. ASSUME NEW p \in Requests, NEW q \in Requests,
             req'[p].pc = "save", Redeems(req'[p].pending),
             req'[q].pc = "save", Redeems(req'[q].pending),
             req'[p].pending.src = req'[q].pending.src
      PROVE  p = q
  BY <1>2, <1>4, <1>7 DEF IInv, RedeemedOnce
<1> QED
  BY Zenon, <1>1, <1>5, <1>6, <1>7 DEF RedeemedOnce, Redeems

LEMMA SaveRedeemsOnce ==
    ASSUME IInv, NEW r \in Requests, SaveIssued(r)
    PROVE  /\ RedeemedOnce'
           /\ \A i \in DOMAIN tokens' : Justified(tokens'[i].spec, codes, tokens)
<1> DEFINE s == req[r].pending
           row == NewRow(s, now, AccessTTL)
           n == Len(tokens) + 1
<1>1. tokens \in Seq(TokenRow) /\ req \in [Requests -> Request] /\ now \in Nat
  BY Zenon DEF IInv, TypeOK
<1>2. s \in TokenSpec /\ Justified(s, codes, tokens) /\ req[r].pc = "save"
  BY Zenon DEF IInv, RequestOK, SaveIssued
<1>3. row \in TokenRow /\ row.spec = s
  <2>1. AccessTTL \in Nat
    BY Zenon, EndpointAssumption
  <2>2. now + AccessTTL \in Nat
    BY <1>1, <2>1
  <2> HIDE DEF s
  <2>3. row = [spec |-> s, created_at |-> now, expires_at |-> now + AccessTTL, revoked |-> FALSE]
    BY Zenon DEF NewRow
  <2> HIDE DEF row
  <2> QED BY Zenon, <1>1, <1>2, <2>2, <2>3 DEF TokenRow
<1>4. tokens' = SaveToken(tokens, row) /\ Finish(r)
  BY Zenon DEF SaveIssued
<1> HIDE DEF row
<1>5. /\ DOMAIN tokens' = DOMAIN tokens \cup {n}
      /\ n \notin DOMAIN tokens /\ tokens'[n].spec = s
      /\ \A i \in DOMAIN tokens : tokens'[i] = tokens[i]
  <2>1. /\ DOMAIN SaveToken(tokens, row) = DOMAIN tokens \cup {n}
        /\ n \notin DOMAIN tokens
        /\ SaveToken(tokens, row)[n] = row
        /\ \A i \in DOMAIN tokens : SaveToken(tokens, row)[i] = tokens[i]
    BY Zenon, <1>1, <1>3, SaveFacts
  <2> HIDE DEF n
  <2> QED BY <1>3, <1>4, <2>1
<1>6. req'[r].pc = "idle" /\ \A q \in Requests \ {r} : req'[q] = req[q]
  BY Zenon, <1>1, <1>4, FinishFacts
<1> HIDE DEF n
<1>7. CodeRedeemedOnce'
  <2>1. SUFFICES ASSUME NEW i \in DOMAIN tokens', NEW j \in DOMAIN tokens',
                        Redeems(tokens'[i].spec), Redeems(tokens'[j].spec),
                        tokens'[i].spec.src = tokens'[j].spec.src
                 PROVE  i = j
    BY Zenon DEF CodeRedeemedOnce, Redeems
  <2>2. CASE i \in DOMAIN tokens /\ j \in DOMAIN tokens
    BY ZenonT(40), <1>5, <2>1, <2>2 DEF IInv, RedeemedOnce, CodeRedeemedOnce, Redeems
  <2>3. CASE i = n /\ j = n
    BY Zenon, <2>3
  <2>4. CASE (i = n) # (j = n)
    BY <1>2, <1>5, <2>1, <2>4 DEF IInv, RedeemedOnce
  <2> QED BY Zenon, <1>5, <2>2, <2>3, <2>4
<1>8. ASSUME NEW q \in Requests, NEW i \in DOMAIN tokens', req'[q].pc = "save",
             Redeems(req'[q].pending), Redeems(tokens'[i].spec)
      PROVE  req'[q].pending.src # tokens'[i].spec.src
  BY <1>2, <1>5, <1>6, <1>8 DEF IInv, RedeemedOnce
<1>9. ASSUME NEW p \in Requests, NEW q \in Requests,
             req'[p].pc = "save", Redeems(req'[p].pending),
             req'[q].pc = "save", Redeems(req'[q].pending),
             req'[p].pending.src = req'[q].pending.src
      PROVE  p = q
  BY Zenon, <1>6, <1>9 DEF IInv, RedeemedOnce
<1>10. \A i \in DOMAIN tokens' : Justified(tokens'[i].spec, codes, tokens)
  BY Zenon, <1>2, <1>5 DEF IInv
<1> QED
  BY Zenon, <1>7, <1>8, <1>9, <1>10 DEF RedeemedOnce, Redeems

(* A step that saves no token leaves every row with the token it had.       *)
SameSpecs == /\ DOMAIN tokens' = DOMAIN tokens
             /\ \A i \in DOMAIN tokens : tokens'[i].spec = tokens[i].spec

LEMMA SpecsKept ==
    ASSUME IInv, [Next]_vars, \A r \in Requests : ~SaveIssued(r)
    PROVE  SameSpecs
<1>1. tokens \in Seq(TokenRow)
  BY Zenon DEF IInv, TypeOK
<1>2. \A which : tokens' = Revoke(tokens, which) => SameSpecs
  BY <1>1, RevokeFacts DEF RowsGrow, SameSpecs
<1>3. tokens' = tokens => SameSpecs
  BY DEF SameSpecs
<1>4. CASE UNCHANGED vars
  BY <1>3, <1>4 DEF vars
<1>5. CASE \E r \in Requests : Start(r)
  BY ZenonT(40), <1>3, <1>5 DEF Start, Authenticate, ClientCredentials, StartRevoke
<1>6. ASSUME NEW r \in Requests, Step(r) PROVE SameSpecs
  <2>1. CASE ClaimCode(r)
    BY <1>3, <2>1 DEF ClaimCode
  <2>2. CASE RotateOld(r) \/ RevokeOne(r) \/ BurnFamily(r)
    BY <1>2, <2>2 DEF RotateOld, RevokeOne, BurnFamily, RevokeToken, RevokeTokenFamily
  <2>3. ASSUME NEW k, NEW valid, ReadCode(r, k, valid) PROVE SameSpecs
    BY Zenon, <1>3, <2>3 DEF ReadCode, Reject, Continue
  <2>4. ASSUME NEW t, NEW u, NEW sc, NEW x,
               \/ ReadRefresh(r, t, sc, x) \/ ReadSubject(r, t, sc, x)
               \/ RedeemAssertion(r, u, sc, x) \/ LookupRevoked(r, t) \/ NotFound(r)
        PROVE  SameSpecs
    BY Zenon, <1>3, <2>4 DEF ReadRefresh, ReadSubject, RedeemAssertion, LookupRevoked, NotFound,
                      Reject, Continue
  <2> QED
    BY <1>6, <2>1, <2>2, <2>3, <2>4 DEF Step
<1>7. CASE Admin
  BY Zenon, <1>2, <1>7 DEF Admin, RevokeTokenById, RevokeByUser, RevokeByClient, AdminRevoke
<1>8. CASE Authorize \/ Crash \/ Tick
  BY Zenon, <1>3, <1>8 DEF Authorize, IssueCode, Crash, Tick
<1> QED
  BY Zenon, <1>4, <1>5, <1>6, <1>7, <1>8 DEF Next

(* Requests that did not move, or lost everything in a crash, still keep    *)
(* their promises.                                                          *)
LEMMA UnmovedKeeps ==
    ASSUME IInv, [Next]_vars, NEW q \in Requests, req'[q] = req[q]
    PROVE  RequestOK(req'[q], codes', tokens')
  BY Zenon, NextGrows, RequestStable DEF IInv

LEMMA RequestsKeep ==
    ASSUME IInv, [Next]_vars
    PROVE  /\ req' \in [Requests -> Request]
           /\ \A q \in Requests : RequestOK(req'[q], codes', tokens')
           /\ (\A r \in Requests : ~SaveIssued(r) /\ ~ClaimCode(r)) => RedeemedOnce'
<1>1. req \in [Requests -> Request]
  BY Zenon DEF IInv, TypeOK
<1>2. ASSUME NEW R \in SUBSET Requests,
             \A q \in Requests \ R : req'[q] = req[q],
             \A q \in R : req'[q].pc = "save" => ~Redeems(req'[q].pending),
             \A r \in Requests : ~SaveIssued(r)
      PROVE  RedeemedOnce'
  BY Zenon, <1>2, SpecsKept, NobodyNewRedeems DEF SameSpecs
<1>3. CASE req' = req
  <2>1. (\A r \in Requests : ~SaveIssued(r)) => RedeemedOnce'
    <3>1. {} \in SUBSET Requests
      BY Zenon
    <3> QED BY Zenon, <1>2, <1>3, <3>1
  <2> QED BY <1>1, <1>3, <2>1, UnmovedKeeps
<1>4. ASSUME NEW r \in Requests, Start(r) \/ Step(r)
      PROVE  /\ req' \in [Requests -> Request]
             /\ \A q \in Requests : RequestOK(req'[q], codes', tokens')
             /\ (\A q \in Requests : ~SaveIssued(q) /\ ~ClaimCode(q)) => RedeemedOnce'
  <2>1. Moved(r) /\ (~ClaimCode(r) /\ req'[r].pc = "save" => ~Redeems(req'[r].pending))
    BY Zenon, <1>4, StartMoves, StepMoves
  <2>2. \A q \in Requests \ {r} : req'[q] = req[q]
    BY Zenon, <2>1 DEF Moved
  <2>3. \A q \in Requests : RequestOK(req'[q], codes', tokens')
    BY <2>1, <2>2, UnmovedKeeps DEF Moved
  <2>4. (\A q \in Requests : ~SaveIssued(q) /\ ~ClaimCode(q)) => RedeemedOnce'
    <3>1. {r} \in SUBSET Requests
      BY Zenon
    <3> QED BY Zenon, <1>2, <2>1, <2>2, <3>1
  <2> QED BY Zenon, <2>1, <2>3, <2>4 DEF Moved
<1>5. CASE Crash
  <2>1. req' \in [Requests -> Request] /\ \A q \in Requests : req'[q].pc = "idle"
    BY Zenon, <1>5, IdleType DEF Crash
  <2>2. \A q \in Requests : RequestOK(req'[q], codes', tokens')
    BY Zenon, <2>1, OtherStepOK
  <2>3. (\A r \in Requests : ~SaveIssued(r)) => RedeemedOnce'
    <3>1. Requests \in SUBSET Requests
      BY Zenon
    <3> QED BY <1>2, <2>1, <3>1
  <2> QED BY Zenon, <2>1, <2>2, <2>3
<1>6. CASE Admin \/ Authorize \/ Tick
  <2>1. req' = req
    BY Zenon, <1>6 DEF Admin, RevokeTokenById, RevokeByUser, RevokeByClient, AdminRevoke, Authorize,
                IssueCode, Tick
  <2> QED BY <1>3, <2>1
<1> QED
  BY Zenon, <1>3, <1>4, <1>5, <1>6 DEF Next, vars
-----------------------------------------------------------------------------
(* IInv is inductive.                                                       *)
LEMMA InitIInv == Init => IInv
<1> SUFFICES ASSUME Init PROVE IInv
  OBVIOUS
<1>1. TypeOK
  BY IdleType DEF Init, TypeOK
<1>2. DOMAIN tokens = {}
  BY DEF Init
<1>3. \A q \in Requests : RequestOK(req[q], codes, tokens) /\ req[q].pc # "save"
  BY Zenon, IdleType, OtherStepOK DEF Init
<1> QED
  BY <1>1, <1>2, <1>3 DEF IInv, RedeemedOnce, CodeRedeemedOnce

LEMMA NextIInv == IInv /\ [Next]_vars => IInv'
<1> SUFFICES ASSUME IInv, [Next]_vars PROVE IInv'
  BY Zenon
<1>1. TypeOK'
  BY Zenon, TablesTyped, RequestsKeep DEF TypeOK
<1>2. \A q \in Requests : RequestOK(req'[q], codes', tokens')
  BY Zenon, RequestsKeep
<1>3. RedeemedOnce'
  BY Zenon, RequestsKeep, ClaimRedeemsOnce, SaveRedeemsOnce
<1>4. \A i \in DOMAIN tokens' : Justified(tokens'[i].spec, codes', tokens')
  <2>1. CodesGrow(codes, codes') /\ RowsGrow(tokens, tokens')
    BY Zenon, NextGrows DEF IInv
  <2>2. \A i \in DOMAIN tokens' : Justified(tokens'[i].spec, codes, tokens)
    BY SpecsKept, SaveRedeemsOnce DEF IInv, SameSpecs
  <2> QED BY Zenon, <2>1, <2>2, JustifiedStable
<1> QED
  BY <1>1, <1>2, <1>3, <1>4 DEF IInv

LEMMA AlwaysIInv == Spec => []IInv
  BY InitIInv, NextIInv, PTL DEF Spec
-----------------------------------------------------------------------------
(* Every state is well formed: the tables hold rows, and a request in       *)
(* flight remembers a token it could issue.                                 *)
THEOREM TypeCorrect == Spec => []TypeOK
<1>1. IInv => TypeOK
  BY DEF IInv
<1> QED BY <1>1, AlwaysIInv, PTL

(* However many requests present the same code, in whatever interleaving    *)
(* and with crashes anywhere, POST /oauth/token issues one token on it.     *)
THEOREM RedeemedAtMostOnce == Spec => []CodeRedeemedOnce
<1>1. IInv => CodeRedeemedOnce
  BY Zenon DEF IInv, RedeemedOnce
<1> QED BY <1>1, AlwaysIInv, PTL

(* After any number of rotations every token of a family is confined to     *)
(* the client, user, scope, audience and DPoP key of the family's code.     *)
THEOREM ConfinedToConsent == Spec => []FamilyConfinedToConsent
<1>1. IInv => FamilyConfinedToConsent
  BY ZenonT(40) DEF IInv, Justified, FamilyConfinedToConsent
<1> QED BY <1>1, AlwaysIInv, PTL

(* The refresh branch never leaves a replaced refresh token usable.         *)
THEOREM ReplacedIsRevoked == Spec => []RotatedOutIsRevoked
<1>1. IInv => RotatedOutIsRevoked
  BY DEF IInv, Justified, RotatedOutIsRevoked
<1> QED BY <1>1, AlwaysIInv, PTL

(* No handler of the token endpoint, revocation or crash revives a token or *)
(* a code, or rewrites what a token or a code says.                         *)
THEOREM NeverRevived == Spec => NothingRevived
<1>1. IInv /\ [Next]_vars =>
        /\ \A i \in DOMAIN tokens :
             /\ i \in DOMAIN tokens'
             /\ tokens'[i].spec = tokens[i].spec
             /\ tokens[i].revoked => tokens'[i].revoked
        /\ \A k \in DOMAIN codes :
             /\ k \in DOMAIN codes'
             /\ SameGrant(codes[k], codes'[k])
             /\ codes[k].used => codes'[k].used
  BY NextGrows DEF IInv, RowsGrow, CodesGrow
<1> QED BY <1>1, AlwaysIInv, PTL DEF Spec, NothingRevived
-----------------------------------------------------------------------------
(***************************************************************************)
(* Token exchange: what it hands on, under any interleaving.               *)
(***************************************************************************)

(* No actor of a delegation chain handed on to itself.                      *)
NoRepeats(act) == \A n \in 1 .. Len(act) - 1 : act[n] # act[n + 1]

(* A token that exists or is about to be saved is no more than the row it   *)
(* was exchanged for, which can only gain a revocation.                     *)
Delegated(s, ts) ==
    /\ NoRepeats(s.act)
    /\ s.via = "token_exchange" =>
         /\ s.src \in DOMAIN ts
         /\ s.scope \subseteq ts[s.src].spec.scope
         /\ s.user = ts[s.src].spec.user
         /\ ~OpaqueTokens => s.act # <<>> /\ Head(s.act) = s.client /\ Len(s.act) <= MaxAct

(* A request remembers such a token from the claim or the rotation on.      *)
DelegationInv ==
    /\ \A i \in DOMAIN tokens : Delegated(tokens[i].spec, tokens)
    /\ \A q \in Requests :
         req[q].pc \in {"claim", "rotate", "save"} => Delegated(req[q].pending, tokens)
-----------------------------------------------------------------------------
(***************************************************************************)
(* Families without overlap.                                               *)
(***************************************************************************)

(* At most one request is in flight.                                        *)
Alone == \A p, q \in Requests : req[p].pc # "idle" /\ req[q].pc # "idle" => p = q

(* Nothing of family f is live but perhaps row t.                           *)
OnlyLive(ts, f, t) == \A i \in DOMAIN ts : ts[i].spec.family = f /\ ~ts[i].revoked => i = t

Spent(cs, f) == f \in DOMAIN cs /\ cs[f].used

(* What a request that waits may rely on while it is alone.                 *)
Entitled(q, cs, ts, dead) ==
    LET s == q.pending IN
    /\ q.pc = "burn" => Spent(cs, q.target)
    /\ q.pc \in {"claim", "rotate", "save"} => (s.refresh => s.family # 0)
    /\ q.pc = "rotate" => s.family \notin dead /\ Spent(cs, s.family) /\ OnlyLive(ts, s.family, q.target)
    /\ q.pc = "save" /\ s.family # 0 =>
         s.family \notin dead /\ Spent(cs, s.family) /\ OnlyLive(ts, s.family, 0)

(* One live token in a family, none in a dead one, and only families whose  *)
(* code was redeemed have tokens or are dead.                               *)
Tidy(cs, ts, dead) ==
    /\ \A i \in DOMAIN ts :
         ts[i].spec.family # 0 /\ ~ts[i].revoked => OnlyLive(ts, ts[i].spec.family, i)
    /\ \A i \in DOMAIN ts : ts[i].spec.family \in dead => ts[i].revoked
    /\ \A f \in dead : Spent(cs, f)
    /\ \A i \in DOMAIN ts :
         /\ ts[i].spec.refresh => ts[i].spec.family # 0
         /\ ts[i].spec.family # 0 => Spent(cs, ts[i].spec.family)

FamilyInv ==
    /\ Tidy(codes, tokens, burned)
    /\ \A q \in Requests : Entitled(req[q], codes, tokens, burned)
-----------------------------------------------------------------------------
(***************************************************************************)
(* Who moved, and where a new row comes from.                              *)
(***************************************************************************)
LEMMA WhoMoved ==
    ASSUME IInv, [Next]_vars, NEW q \in Requests, req'[q] # req[q]
    PROVE  Start(q) \/ Step(q) \/ req'[q].pc = "idle"
<1>1. ASSUME NEW r \in Requests, Start(r) \/ Step(r) PROVE q = r
  <2>1. \A p \in Requests \ {r} : req'[p] = req[p]
    BY <1>1, StartMoves, StepMoves DEF Moved
  <2> QED BY <2>1
<1>2. CASE Crash
  BY <1>2, IdleType DEF Crash
<1>3. CASE Admin \/ Authorize \/ Tick \/ UNCHANGED vars
  BY Zenon, <1>3 DEF Admin, RevokeTokenById, RevokeByUser, RevokeByClient, AdminRevoke, Authorize,
              IssueCode, Tick, vars
<1> QED BY <1>1, <1>2, <1>3 DEF Next

(* save_token adds one row, after the others, for a token that was pending. *)
LEMMA SavedRow ==
    ASSUME IInv, NEW r \in Requests, SaveIssued(r)
    PROVE  LET n == Len(tokens) + 1 IN
           /\ n \in Nat \ {0} /\ n \notin DOMAIN tokens
           /\ DOMAIN tokens' = DOMAIN tokens \cup {n}
           /\ tokens'[n].spec = req[r].pending
           /\ \A i \in DOMAIN tokens : tokens'[i] = tokens[i]
<1> DEFINE s == req[r].pending
           row == NewRow(s, now, AccessTTL)
           n == Len(tokens) + 1
<1>1. tokens \in Seq(TokenRow) /\ now \in Nat /\ AccessTTL \in Nat
  BY EndpointAssumption DEF IInv, TypeOK
<1>2. s \in TokenSpec
  BY DEF IInv, RequestOK, SaveIssued
<1>3. tokens' = SaveToken(tokens, row)
  BY DEF SaveIssued
<1> HIDE DEF s
<1>4. row \in TokenRow /\ row.spec = s
  <2>1. now + AccessTTL \in Nat
    BY <1>1
  <2>2. row = [spec |-> s, created_at |-> now, expires_at |-> now + AccessTTL, revoked |-> FALSE]
    BY DEF NewRow
  <2> HIDE DEF row
  <2> QED BY <1>1, <1>2, <2>1, <2>2 DEF TokenRow
<1> HIDE DEF row
<1>5. /\ DOMAIN SaveToken(tokens, row) = DOMAIN tokens \cup {n}
      /\ n \notin DOMAIN tokens
      /\ SaveToken(tokens, row)[n] = row
      /\ \A i \in DOMAIN tokens : SaveToken(tokens, row)[i] = tokens[i]
  BY Zenon, <1>1, <1>4, SaveFacts
<1>6. n \in Nat \ {0}
  BY <1>1
<1> HIDE DEF n
<1>7. /\ n \in Nat \ {0} /\ n \notin DOMAIN tokens
      /\ DOMAIN tokens' = DOMAIN tokens \cup {n}
      /\ tokens'[n].spec = s
      /\ \A i \in DOMAIN tokens : tokens'[i] = tokens[i]
  BY <1>3, <1>4, <1>5, <1>6
<1> QED BY <1>7 DEF n, s
-----------------------------------------------------------------------------
(***************************************************************************)
(* Token exchange: DelegationInv is inductive.                             *)
(***************************************************************************)

(* ActChain puts the exchanging client in front, and never twice.           *)
LEMMA ActChainSound ==
    ASSUME NEW c \in Clients, NEW prior \in Seq(Clients), NoRepeats(prior)
    PROVE  LET act == ActChain(c, prior) IN
           /\ act \in Seq(Clients)
           /\ act # <<>>
           /\ Head(act) = c
           /\ NoRepeats(act)
<1>1. CASE prior # <<>> /\ Head(prior) # c
  <2> DEFINE act == <<c>> \o prior
  <2>1. /\ Len(prior) \in Nat \ {0}
        /\ prior[1] # c
    BY <1>1
  <2>2. act \in Seq(Clients) /\ Len(act) = Len(prior) + 1
    OBVIOUS
  <2>3. act[1] = c /\ \A n \in 1 .. Len(prior) : act[n + 1] = prior[n]
    BY <2>1
  <2>4. ActChain(c, prior) = act
    BY <1>1 DEF ActChain
  <2> HIDE DEF act
  <2>5. act # <<>> /\ Head(act) = c
    BY <2>1, <2>2, <2>3
  <2>6. ASSUME NEW n \in 1 .. Len(act) - 1 PROVE act[n] # act[n + 1]
    <3>1. CASE n = 1
      BY <2>1, <2>3, <3>1
    <3>2. CASE n # 1
      <4>1. n - 1 \in 1 .. Len(prior) - 1 /\ n - 1 \in 1 .. Len(prior) /\ n \in 1 .. Len(prior)
        BY <2>1, <2>2, <3>2
      <4>2. prior[n - 1] # prior[n - 1 + 1]
        BY <4>1 DEF NoRepeats
      <4>3. act[n - 1 + 1] = prior[n - 1] /\ act[n + 1] = prior[n] /\ n - 1 + 1 = n
        BY <2>3, <4>1
      <4> QED BY <4>2, <4>3
    <3> QED BY <3>1, <3>2
  <2> QED BY <2>2, <2>4, <2>5, <2>6 DEF NoRepeats
<1>2. CASE ~(prior # <<>> /\ Head(prior) # c)
  <2>1. ActChain(c, prior) = <<c>>
    BY <1>2 DEF ActChain
  <2>2. /\ <<c>> \in Seq(Clients) /\ <<c>> # <<>> /\ Head(<<c>>) = c /\ Len(<<c>>) = 1
    OBVIOUS
  <2>3. NoRepeats(<<c>>)
    BY DEF NoRepeats
  <2> QED BY <2>1, <2>2, <2>3
<1> QED BY <1>1, <1>2

LEMMA NoActNoRepeats == NoRepeats(<<>>)
  BY DEF NoRepeats

LEMMA DelegatedStable ==
    ASSUME NEW s, NEW ts, NEW tt, RowsGrow(ts, tt), Delegated(s, ts)
    PROVE  Delegated(s, tt)
  BY DEF Delegated, RowsGrow

(* A grant other than token exchange issues tokens without a chain.         *)
LEMMA PlainIssue ==
    ASSUME NEW s, NEW ts, s.act = <<>>, s.via # "token_exchange"
    PROVE  Delegated(s, ts)
  BY Zenon, NoActNoRepeats DEF Delegated

Decided == {"claim", "rotate", "save"}

(* What the request that moves is about to save.                            *)
LEMMA SubjectDelegates ==
    ASSUME IInv, DelegationInv, NEW r \in Requests, NEW t \in DOMAIN tokens,
           NEW scope \in ScopeParams, NEW resource \in ResourceParams,
           ReadSubject(r, t, scope, resource), req'[r].pc \in Decided
    PROVE  Delegated(req'[r].pending, tokens)
<1> DEFINE s == tokens[t].spec
           c == req[r].client
           act == ActChain(c, s.act)
           spec == Issue(c, s.user, GrantedScope(scope, s.scope), req[r].cnf, act, resource,
                         {}, 0, FALSE, "token_exchange", t)
<1>1. req \in [Requests -> Request] /\ TypeOK /\ "save" \in Steps
  BY DEF IInv, TypeOK, Steps
<1>2. t \in Nat /\ s \in TokenSpec /\ c \in Clients
  BY ZenonT(40), <1>1, TableFacts DEF TokenRow, IInv, RequestOK, ReadSubject
<1>3. s.act \in Seq(Clients) /\ NoRepeats(s.act)
  BY <1>2 DEF TokenSpec, DelegationInv, Delegated
<1>4. act \in Seq(Clients) /\ act # <<>> /\ Head(act) = c /\ NoRepeats(act)
  BY Zenon, <1>2, <1>3, ActChainSound
<1>5. ~Finish(r)
  BY <1>1, FinishFacts DEF Decided
<1>6. /\ Goto(r, "save", t, spec)
      /\ ScopeIsSubset(scope, s.scope)
      /\ ~(Len(act) > MaxAct)
  BY Zenon, <1>5 DEF ReadSubject, Continue, Reject
<1>7. req'[r].pending = spec
  BY <1>1, <1>6 DEF Goto, Request
<1> HIDE DEF act
<1>8. /\ spec.via = "token_exchange" /\ spec.src = t /\ spec.user = s.user /\ spec.client = c
      /\ spec.scope = GrantedScope(scope, s.scope)
      /\ spec.act = IF OpaqueTokens THEN <<>> ELSE act
  BY DEF Issue
<1>9. spec.scope \subseteq s.scope
  BY Zenon, <1>6, <1>8 DEF GrantedScope, ScopeIsSubset
<1>10. Len(act) <= MaxAct
  <2>1. Len(act) \in Nat /\ MaxAct \in Nat
    BY <1>4, EndpointAssumption
  <2>2. ~(Len(act) > MaxAct)
    BY Zenon, <1>6
  <2> QED BY <2>1, <2>2
<1> HIDE DEF spec, c
<1>11. NoRepeats(spec.act)
  BY <1>4, <1>8, NoActNoRepeats
<1>12. ~OpaqueTokens => spec.act # <<>> /\ Head(spec.act) = spec.client /\ Len(spec.act) <= MaxAct
  BY <1>4, <1>8, <1>10
<1> QED BY <1>7, <1>8, <1>9, <1>11, <1>12 DEF Delegated

(* A request that goes on remembers what it is asked to.                    *)
LEMMA Remembers ==
    ASSUME IInv, NEW r \in Requests, NEW pc, NEW target, NEW pending, Goto(r, pc, target, pending)
    PROVE  /\ req'[r].pc = pc /\ req'[r].target = target /\ req'[r].pending = pending
           /\ req'[r].client = req[r].client /\ req'[r].cnf = req[r].cnf
  BY DEF IInv, TypeOK, Request, Goto

LEMMA Forgets ==
    ASSUME IInv, NEW r \in Requests, Finish(r)
    PROVE  req'[r].pc = "idle"
  BY FinishFacts DEF IInv, TypeOK

LEMMA StartDelegates ==
    ASSUME IInv, NEW r \in Requests, Start(r), req'[r].pc \in Decided
    PROVE  Delegated(req'[r].pending, tokens)
<1>1. req \in [Requests -> Request]
  BY DEF IInv, TypeOK
<1>2. ASSUME NEW c, NEW b, NEW g \in DOMAIN FirstStep, Authenticate(r, c, g, b)
      PROVE  FALSE
  <2>1. FirstStep[g] \in {"code", "refresh", "subject", "assertion"}
    BY DEF FirstStep
  <2>2. req'[r].pc = FirstStep[g]
    BY <1>1, <1>2 DEF Authenticate, Idle
  <2> QED BY <2>1, <2>2 DEF Decided
<1>3. ASSUME NEW c, StartRevoke(r, c) PROVE FALSE
  <2>1. req'[r].pc = "lookup"
    BY Zenon, <1>1, <1>3 DEF StartRevoke, Idle
  <2> QED BY <2>1 DEF Decided
<1>4. ASSUME NEW c, NEW b, NEW sc, NEW x, ClientCredentials(r, c, b, sc, x)
      PROVE  Delegated(req'[r].pending, tokens)
  <2> DEFINE spec == Issue(c, None, GrantedScope(sc, ClientScope[c]), b, <<>>, x, {}, 0, FALSE,
                           "client_credentials", 0)
  <2>1. req'[r].pending = spec
    BY <1>1, <1>4 DEF ClientCredentials
  <2>2. spec.act = <<>> /\ spec.via # "token_exchange"
    BY DEF Issue
  <2> HIDE DEF spec
  <2> QED BY ZenonT(40), <2>1, <2>2, PlainIssue
<1> QED BY <1>2, <1>3, <1>4 DEF Start

LEMMA StepDelegates ==
    ASSUME IInv, DelegationInv, NEW r \in Requests, Step(r), req'[r].pc \in Decided
    PROVE  Delegated(req'[r].pending, tokens)
<1>1. ~Finish(r)
  BY Forgets DEF Decided
<1>2. ASSUME NEW target, Goto(r, "burn", target, None) PROVE FALSE
  BY <1>2, Remembers DEF Decided
<1>3. ASSUME NEW k \in DOMAIN codes, NEW valid, ReadCode(r, k, valid)
      PROVE  Delegated(req'[r].pending, tokens)
  <2> DEFINE code == codes[k]
             spec == Issue(code.client, code.user, code.scope, req[r].cnf, <<>>, code.resource,
                           {}, k, TRUE, "authorization_code", k)
  <2>1. Goto(r, "claim", k, spec)
    BY Zenon, <1>1, <1>2, <1>3 DEF ReadCode, Continue, Reject
  <2>2. spec.act = <<>> /\ spec.via # "token_exchange"
    BY Zenon DEF Issue
  <2> HIDE DEF spec
  <2> QED BY <2>1, <2>2, Remembers, PlainIssue
<1>4. ASSUME NEW t \in DOMAIN tokens, NEW sc, NEW x, ReadRefresh(r, t, sc, x)
      PROVE  Delegated(req'[r].pending, tokens)
  <2> DEFINE s == tokens[t].spec
             spec == Issue(s.client, s.user, GrantedScope(sc, s.scope), s.cnf, <<>>, x,
                           CarriedAudience(s.aud, x), s.family, TRUE, "refresh_token", t)
  <2>1. Goto(r, "rotate", t, spec)
    BY Zenon, <1>1, <1>2, <1>4 DEF ReadRefresh, Continue, Reject
  <2>2. spec.act = <<>> /\ spec.via # "token_exchange"
    BY Zenon DEF Issue
  <2> HIDE DEF spec
  <2> QED BY <2>1, <2>2, Remembers, PlainIssue
<1>5. ASSUME NEW u, NEW sc, NEW x, RedeemAssertion(r, u, sc, x)
      PROVE  Delegated(req'[r].pending, tokens)
  <2> DEFINE c == req[r].client
             spec == Issue(c, u, GrantedScope(sc, ClientScope[c]), req[r].cnf, <<>>, x,
                           {}, 0, FALSE, "jwt_bearer", 0)
  <2>1. Goto(r, "save", 0, spec)
    BY Zenon, <1>1, <1>5 DEF RedeemAssertion, Continue, Reject
  <2>2. spec.act = <<>> /\ spec.via # "token_exchange"
    BY Zenon DEF Issue
  <2> HIDE DEF spec
  <2> QED BY <2>1, <2>2, Remembers, PlainIssue
<1>6. CASE ClaimCode(r) \/ RotateOld(r)
  <2>1. /\ req[r].pc \in Decided
        /\ Goto(r, "save", req[r].target, req[r].pending)
    BY Zenon, <1>1, <1>2, <1>6 DEF ClaimCode, RotateOld, Decided
  <2>2. req'[r].pending = req[r].pending
    BY <2>1, Remembers
  <2> QED BY <2>1, <2>2 DEF DelegationInv, Decided
<1>7. ASSUME NEW t, LookupRevoked(r, t) PROVE FALSE
  <2>1. Goto(r, "revoke_one", t, None)
    BY Zenon, <1>1, <1>2, <1>7 DEF LookupRevoked, Continue, Reject
  <2> QED BY <2>1, Remembers DEF Decided
<1>8. CASE SaveIssued(r) \/ BurnFamily(r) \/ RevokeOne(r) \/ NotFound(r)
  BY Zenon, <1>1, <1>8 DEF SaveIssued, BurnFamily, RevokeOne, NotFound, Reject
<1>9. ASSUME NEW t \in DOMAIN tokens, NEW sc \in ScopeParams, NEW x \in ResourceParams,
             ReadSubject(r, t, sc, x)
      PROVE  Delegated(req'[r].pending, tokens)
  BY Zenon, <1>9, SubjectDelegates
<1> QED BY ZenonT(40), <1>3, <1>4, <1>5, <1>6, <1>7, <1>8, <1>9 DEF Step

LEMMA NextDelegates ==
    ASSUME IInv, DelegationInv, [Next]_vars
    PROVE  DelegationInv'
<1>1. RowsGrow(tokens, tokens')
  BY NextGrows DEF IInv
<1>2. ASSUME NEW q \in Requests, req'[q].pc \in Decided
      PROVE  Delegated(req'[q].pending, tokens')
  <2>1. CASE req'[q] = req[q]
    BY <1>1, <1>2, <2>1, DelegatedStable DEF DelegationInv, Decided
  <2>2. CASE req'[q] # req[q]
    <3>1. Start(q) \/ Step(q)
      BY Zenon, <1>2, <2>2, WhoMoved DEF Decided
    <3> QED BY Zenon, <1>1, <1>2, <3>1, StartDelegates, StepDelegates, DelegatedStable
  <2> QED BY Zenon, <2>1, <2>2
<1>3. ASSUME NEW i \in DOMAIN tokens' PROVE Delegated(tokens'[i].spec, tokens')
  <2>1. CASE i \in DOMAIN tokens
    BY Zenon, <1>1, <2>1, DelegatedStable DEF DelegationInv, RowsGrow
  <2>2. CASE i \notin DOMAIN tokens
    <3>1. PICK r \in Requests : SaveIssued(r)
      BY Zenon, <2>2, SpecsKept DEF SameSpecs
    <3>2. tokens'[i].spec = req[r].pending
      BY Zenon, <2>2, <3>1, SavedRow
    <3>3. Delegated(req[r].pending, tokens)
      BY <3>1 DEF DelegationInv, SaveIssued
    <3> QED BY Zenon, <1>1, <3>2, <3>3, DelegatedStable
  <2> QED BY Zenon, <2>1, <2>2
<1> QED BY <1>2, <1>3 DEF DelegationInv, Decided

(* Whatever requests overlap, an exchanged token says no more than the one  *)
(* it was exchanged for, and its act chain is what ActChain promises.       *)
THEOREM ExchangeAmplifiesNothing == Spec => []ExchangeNeverAmplifies
<1>1. Init => DelegationInv
  BY IdleType DEF Init, DelegationInv
<1>2. DelegationInv => ExchangeNeverAmplifies
  BY DEF DelegationInv, Delegated, NoRepeats, ExchangeNeverAmplifies
<1>3. IInv /\ DelegationInv /\ [Next]_vars => DelegationInv'
  BY Zenon, NextDelegates
<1> QED BY <1>1, <1>2, <1>3, AlwaysIInv, PTL DEF Spec
-----------------------------------------------------------------------------
(***************************************************************************)
(* Families: FamilyInv is inductive as long as requests do not overlap.    *)
(***************************************************************************)

(* The rows stay, and may be revoked.                                       *)
SameRows(ts, tt) ==
    /\ DOMAIN tt = DOMAIN ts
    /\ \A i \in DOMAIN ts : tt[i].spec = ts[i].spec /\ (ts[i].revoked => tt[i].revoked)

LEMMA RevokeSameRows ==
    ASSUME IInv, NEW which
    PROVE  /\ SameRows(tokens, Revoke(tokens, which))
           /\ \A i \in DOMAIN tokens \cap which : Revoke(tokens, which)[i].revoked
  BY Zenon, RevokeFacts DEF IInv, TypeOK, RowsGrow, SameRows

LEMMA SpentStable ==
    ASSUME NEW cs, NEW ct, CodesGrow(cs, ct), NEW f, Spent(cs, f)
    PROVE  Spent(ct, f)
  BY DEF CodesGrow, Spent

LEMMA OnlyLiveStable ==
    ASSUME NEW ts, NEW tt, SameRows(ts, tt), NEW f, NEW t, OnlyLive(ts, f, t)
    PROVE  OnlyLive(tt, f, t)
  BY Zenon DEF SameRows, OnlyLive

LEMMA TidyStable ==
    ASSUME NEW cs, NEW ct, CodesGrow(cs, ct), NEW ts, NEW tt, SameRows(ts, tt), NEW dead,
           Tidy(cs, ts, dead)
    PROVE  Tidy(ct, tt, dead)
<1>1. ASSUME NEW i \in DOMAIN tt, tt[i].spec.family # 0, ~tt[i].revoked
      PROVE  OnlyLive(tt, tt[i].spec.family, i)
  <2>1. i \in DOMAIN ts /\ tt[i].spec = ts[i].spec /\ ~ts[i].revoked
    BY Zenon, <1>1 DEF SameRows
  <2>2. OnlyLive(ts, ts[i].spec.family, i)
    BY Zenon, <1>1, <2>1 DEF Tidy
  <2> QED BY Zenon, <2>1, <2>2, OnlyLiveStable
<1>2. \A i \in DOMAIN tt : tt[i].spec.family \in dead => tt[i].revoked
  BY DEF Tidy, SameRows
<1>3. \A f \in dead : Spent(ct, f)
  BY ZenonT(40), SpentStable DEF Tidy
<1>4. ASSUME NEW i \in DOMAIN tt
      PROVE  /\ tt[i].spec.refresh => tt[i].spec.family # 0
             /\ tt[i].spec.family # 0 => Spent(ct, tt[i].spec.family)
  BY SpentStable DEF Tidy, SameRows
<1> QED BY Zenon, <1>1, <1>2, <1>3, <1>4 DEF Tidy

LEMMA EntitledStable ==
    ASSUME NEW q, NEW cs, NEW ct, CodesGrow(cs, ct), NEW ts, NEW tt, SameRows(ts, tt), NEW dead,
           Entitled(q, cs, ts, dead)
    PROVE  Entitled(q, ct, tt, dead)
<1>1. q.pc = "burn" => Spent(ct, q.target)
  BY ZenonT(40), SpentStable DEF Entitled
<1>2. q.pc = "rotate" =>
        /\ q.pending.family \notin dead
        /\ Spent(ct, q.pending.family)
        /\ OnlyLive(tt, q.pending.family, q.target)
  BY SpentStable, OnlyLiveStable DEF Entitled
<1>3. q.pc = "save" /\ q.pending.family # 0 =>
        /\ q.pending.family \notin dead
        /\ Spent(ct, q.pending.family)
        /\ OnlyLive(tt, q.pending.family, 0)
  BY SpentStable, OnlyLiveStable DEF Entitled
<1> QED BY Zenon, <1>1, <1>2, <1>3 DEF Entitled

(* A request that waits anywhere else, or for a token outside every family, *)
(* relies on nothing.                                                       *)
LEMMA UncommittedEntitled ==
    ASSUME NEW q, NEW cs, NEW ts, NEW dead,
           \/ q.pc \notin {"burn", "claim", "rotate", "save"}
           \/ q.pc = "save" /\ ~q.pending.refresh /\ q.pending.family = 0
    PROVE  Entitled(q, cs, ts, dead)
  BY ZenonT(40) DEF Entitled

LEMMA SpentFamily ==
    ASSUME FamilyInv, NEW t \in DOMAIN tokens, tokens[t].spec.family # 0
    PROVE  Spent(codes, tokens[t].spec.family)
  BY DEF FamilyInv, Tidy
-----------------------------------------------------------------------------
(* The steps that only read: what the request relies on afterwards is so.   *)
LEMMA StartEntitles ==
    ASSUME IInv, NEW r \in Requests, Start(r)
    PROVE  Entitled(req'[r], codes, tokens, burned)
<1>1. req \in [Requests -> Request]
  BY Zenon DEF IInv, TypeOK
<1>2. ASSUME NEW c, NEW b, NEW g \in DOMAIN FirstStep, Authenticate(r, c, g, b)
      PROVE  Entitled(req'[r], codes, tokens, burned)
  <2>1. FirstStep[g] \in {"code", "refresh", "subject", "assertion"}
    BY DEF FirstStep
  <2>2. req'[r].pc = FirstStep[g]
    BY <1>1, <1>2 DEF Authenticate, Idle
  <2>3. req'[r].pc \notin {"burn", "claim", "rotate", "save"}
    BY ZenonT(40), <2>1, <2>2
  <2> QED BY Zenon, <2>3, UncommittedEntitled
<1>3. ASSUME NEW c, StartRevoke(r, c)
      PROVE  Entitled(req'[r], codes, tokens, burned)
  <2>1. req'[r].pc = "lookup"
    BY ZenonT(40), <1>1, <1>3 DEF StartRevoke, Idle
  <2>2. req'[r].pc \notin {"burn", "claim", "rotate", "save"}
    BY <2>1
  <2> QED BY <2>2, UncommittedEntitled
<1>4. ASSUME NEW c, NEW b, NEW sc, NEW x, ClientCredentials(r, c, b, sc, x)
      PROVE  Entitled(req'[r], codes, tokens, burned)
  <2> DEFINE spec == Issue(c, None, GrantedScope(sc, ClientScope[c]), b, <<>>, x, {}, 0, FALSE,
                           "client_credentials", 0)
  <2>1. req'[r].pending = spec /\ req'[r].pc = "save"
    BY Zenon, <1>1, <1>4 DEF ClientCredentials
  <2>2. ~spec.refresh /\ spec.family = 0
    BY ZenonT(40) DEF Issue
  <2> HIDE DEF spec
  <2> QED BY Zenon, <2>1, <2>2, UncommittedEntitled
<1> QED BY <1>2, <1>3, <1>4 DEF Start

LEMMA BurnEntitles ==
    ASSUME IInv, NEW r \in Requests, NEW f, Spent(codes, f), Goto(r, "burn", f, None)
    PROVE  Entitled(req'[r], codes, tokens, burned)
  BY Remembers DEF Entitled

LEMMA FinishEntitles ==
    ASSUME IInv, NEW r \in Requests, Finish(r), NEW cs, NEW ts, NEW dead
    PROVE  Entitled(req'[r], cs, ts, dead)
  BY Zenon, Forgets DEF Entitled

LEMMA ReadEntitles ==
    ASSUME IInv, FamilyInv, NEW r \in Requests,
           \/ \E k \in DOMAIN codes, valid \in BOOLEAN : ReadCode(r, k, valid)
           \/ \E t \in DOMAIN tokens, s \in ScopeParams, x \in ResourceParams :
                 ReadRefresh(r, t, s, x) \/ ReadSubject(r, t, s, x)
           \/ \E u \in Users \cup {None}, s \in ScopeParams, x \in ResourceParams :
                 RedeemAssertion(r, u, s, x)
           \/ \E t \in DOMAIN tokens : LookupRevoked(r, t)
    PROVE  Entitled(req'[r], codes, tokens, burned)
<1> DEFINE Fine == Entitled(req'[r], codes, tokens, burned)
<1>0. Finish(r) => Fine
  BY Zenon, FinishEntitles
<1>1. ASSUME NEW k \in DOMAIN codes, NEW valid, ReadCode(r, k, valid) PROVE Fine
  <2> DEFINE code == codes[k]
             spec == Issue(code.client, code.user, code.scope, req[r].cnf, <<>>, code.resource,
                           {}, k, TRUE, "authorization_code", k)
  <2>1. \/ Finish(r)
        \/ code.used /\ Goto(r, "burn", k, None)
        \/ Goto(r, "claim", k, spec)
    BY Zenon, <1>1 DEF ReadCode, Continue, Reject
  <2>2. spec.family = k /\ k # 0
    BY Zenon, TableFacts DEF Issue, IInv
  <2> HIDE DEF spec
  <2>3. CASE Goto(r, "claim", k, spec)
    <3>1. req'[r].pc = "claim" /\ req'[r].pending = spec
      BY <2>3, Remembers
    <3> QED BY ZenonT(40), <2>2, <3>1 DEF Entitled
  <2>4. CASE code.used /\ Goto(r, "burn", k, None)
    BY Zenon, <2>4, BurnEntitles DEF Spent
  <2> QED BY Zenon, <1>0, <2>1, <2>3, <2>4
<1>2. ASSUME NEW t \in DOMAIN tokens, NEW sc, NEW x, ReadRefresh(r, t, sc, x) PROVE Fine
  <2> DEFINE s == tokens[t].spec
             spec == Issue(s.client, s.user, GrantedScope(sc, s.scope), s.cnf, <<>>, x,
                           CarriedAudience(s.aud, x), s.family, TRUE, "refresh_token", t)
  <2>1. \/ Finish(r)
        \/ Goto(r, "burn", s.family, None)
        \/ ~tokens[t].revoked /\ Goto(r, "rotate", t, spec)
    BY Zenon, <1>2 DEF ReadRefresh, Continue, Reject
  <2>2. spec.family = s.family
    BY Zenon DEF Issue
  <2>3. s.refresh
    BY Zenon, <1>2 DEF ReadRefresh
  <2>4. s.family # 0 /\ Spent(codes, s.family)
    BY Zenon, <2>3 DEF FamilyInv, Tidy
  <2> HIDE DEF spec
  <2>5. CASE ~tokens[t].revoked /\ Goto(r, "rotate", t, spec)
    <3>1. req'[r].pc = "rotate" /\ req'[r].pending = spec /\ req'[r].target = t
      BY <2>5, Remembers
    <3>2. s.family \notin burned
      BY Zenon, <2>5 DEF FamilyInv, Tidy
    <3>3. OnlyLive(tokens, s.family, t)
      BY Zenon, <2>4, <2>5 DEF FamilyInv, Tidy
    <3> QED BY ZenonT(40), <2>2, <2>4, <3>1, <3>2, <3>3 DEF Entitled
  <2> QED BY Zenon, <1>0, <2>1, <2>4, <2>5, BurnEntitles
<1>3. ASSUME NEW pending, NEW t, Goto(r, "save", t, pending), ~pending.refresh, pending.family = 0
      PROVE  Fine
  <2>1. req'[r].pc = "save" /\ req'[r].pending = pending
    BY <1>3, Remembers
  <2> QED BY ZenonT(40), <1>3, <2>1, UncommittedEntitled
<1>4. ASSUME NEW t, NEW sc, NEW x, ReadSubject(r, t, sc, x) PROVE Fine
  <2> DEFINE s == tokens[t].spec
             c == req[r].client
             spec == Issue(c, s.user, GrantedScope(sc, s.scope), req[r].cnf, ActChain(c, s.act), x,
                           {}, 0, FALSE, "token_exchange", t)
  <2>1. Finish(r) \/ Goto(r, "save", t, spec)
    BY Zenon, <1>4 DEF ReadSubject, Continue, Reject
  <2>2. ~spec.refresh /\ spec.family = 0
    BY Zenon DEF Issue
  <2> HIDE DEF spec
  <2> QED BY Zenon, <1>0, <1>3, <2>1, <2>2
<1>5. ASSUME NEW u, NEW sc, NEW x, RedeemAssertion(r, u, sc, x) PROVE Fine
  <2> DEFINE c == req[r].client
             spec == Issue(c, u, GrantedScope(sc, ClientScope[c]), req[r].cnf, <<>>, x,
                           {}, 0, FALSE, "jwt_bearer", 0)
  <2>1. Finish(r) \/ Goto(r, "save", 0, spec)
    BY Zenon, <1>5 DEF RedeemAssertion, Continue, Reject
  <2>2. ~spec.refresh /\ spec.family = 0
    BY Zenon DEF Issue
  <2> HIDE DEF spec
  <2> QED BY Zenon, <1>0, <1>3, <2>1, <2>2
<1>6. ASSUME NEW t \in DOMAIN tokens, LookupRevoked(r, t) PROVE Fine
  <2> DEFINE f == tokens[t].spec.family
  <2>1. \/ Finish(r)
        \/ f # 0 /\ Goto(r, "burn", f, None)
        \/ Goto(r, "revoke_one", t, None)
    BY Zenon, <1>6 DEF LookupRevoked, Continue, Reject
  <2>2. CASE Goto(r, "revoke_one", t, None)
    <3>1. req'[r].pc = "revoke_one"
      BY Zenon, <2>2, Remembers
    <3>2. req'[r].pc \notin {"burn", "claim", "rotate", "save"}
      BY Zenon, <3>1
    <3> QED BY Zenon, <3>2, UncommittedEntitled
  <2>3. CASE f # 0 /\ Goto(r, "burn", f, None)
    BY Zenon, <2>3, SpentFamily, BurnEntitles
  <2> QED BY Zenon, <1>0, <2>1, <2>2, <2>3
<1> HIDE DEF Fine
<1>7. Fine
  BY Zenon, <1>1, <1>2, <1>4, <1>5, <1>6
<1> QED BY Zenon, <1>7 DEF Fine
-----------------------------------------------------------------------------
(* The steps that write.  The request that takes one is alone.              *)
LEMMA OthersIdle ==
    ASSUME IInv, Alone, NEW r \in Requests, Step(r), NEW q \in Requests, q # r,
           NEW cs, NEW ts, NEW dead
    PROVE  req'[q] = req[q] /\ Entitled(req'[q], cs, ts, dead)
<1>1. req'[q] = req[q]
  BY StepMoves DEF Moved
<1>2. req[r].pc # "idle"
  BY ZenonT(40) DEF Step, ReadCode, ClaimCode, ReadRefresh, ReadSubject, RedeemAssertion, RotateOld,
         SaveIssued, BurnFamily, LookupRevoked, RevokeOne, NotFound
<1>3. req[q].pc = "idle"
  BY <1>2 DEF Alone
<1> QED BY Zenon, <1>1, <1>3 DEF Entitled

(* Whoever claims a code finds its family without a token and not dead.     *)
LEMMA ClaimKeepsFamilies ==
    ASSUME IInv, FamilyInv, NEW r \in Requests, ClaimCode(r)
    PROVE  /\ Tidy(codes', tokens', burned')
           /\ Entitled(req'[r], codes', tokens', burned')
<1> DEFINE k == req[r].target
           s == req[r].pending
<1>1. /\ CodesGrow(codes, codes') /\ SameRows(tokens, tokens')
      /\ tokens' = tokens /\ burned' = burned
  <2>1. CodesGrow(codes, codes')
    <3>1. Step(r)
      BY DEF Step
    <3> QED BY <3>1, NextGrows DEF IInv, Next
  <2> QED BY <2>1 DEF ClaimCode, SameRows
<1>2. Tidy(codes', tokens', burned')
  BY <1>1, TidyStable DEF FamilyInv
<1>3. /\ k \in DOMAIN codes /\ k \in Nat \ {0} /\ codes[k] \in AuthCode /\ s.family = k
  BY TableFacts DEF IInv, RequestOK, ClaimReady, ClaimCode
<1>4. Spent(codes', k)
  BY <1>3 DEF ClaimCode, AuthCode, Spent
<1>5. CASE Finish(r)
  BY Zenon, <1>2, <1>5, FinishEntitles
<1>6. CASE Goto(r, "burn", k, None)
  <2>1. req'[r].pc = "burn" /\ req'[r].target = k
    BY <1>6, Remembers
  <2> QED BY Zenon, <1>2, <1>4, <2>1 DEF Entitled
<1>7. CASE ~codes[k].used /\ Goto(r, "save", k, s)
  <2>1. req'[r].pc = "save" /\ req'[r].pending = s
    BY <1>7, Remembers
  <2>2. k \notin burned /\ \A i \in DOMAIN tokens : tokens[i].spec.family # k
    BY Zenon, <1>3, <1>7 DEF FamilyInv, Tidy, Spent
  <2>3. OnlyLive(tokens', k, 0)
    BY ZenonT(40), <1>1, <2>2 DEF OnlyLive
  <2> QED BY Zenon, <1>1, <1>2, <1>3, <1>4, <2>1, <2>2, <2>3 DEF Entitled
<1> QED BY Zenon, <1>5, <1>6, <1>7 DEF ClaimCode

(* revoke_token takes the only row of the family that could still be live.  *)
LEMMA RotateKeepsFamilies ==
    ASSUME IInv, FamilyInv, NEW r \in Requests, RotateOld(r)
    PROVE  /\ Tidy(codes', tokens', burned')
           /\ Entitled(req'[r], codes', tokens', burned')
<1> DEFINE t == req[r].target
           s == req[r].pending
<1>1. /\ codes' = codes /\ burned' = burned
      /\ tokens' = Revoke(tokens, {t}) /\ Goto(r, "save", t, s) /\ req[r].pc = "rotate"
  BY Zenon DEF RotateOld, RevokeToken
<1>2. SameRows(tokens, tokens') /\ \A i \in DOMAIN tokens \cap {t} : tokens'[i].revoked
  BY Zenon, <1>1, RevokeSameRows
<1>3. CodesGrow(codes, codes')
  BY Zenon, <1>1 DEF CodesGrow, SameGrant
<1>4. Tidy(codes', tokens', burned')
  BY Zenon, <1>1, <1>2, <1>3, TidyStable DEF FamilyInv
<1>5. /\ s.refresh => s.family # 0
      /\ s.family \notin burned /\ Spent(codes, s.family)
      /\ OnlyLive(tokens, s.family, t)
  BY Zenon, <1>1 DEF FamilyInv, Entitled
<1>6. OnlyLive(tokens', s.family, 0)
  BY ZenonT(40), <1>2, <1>5 DEF OnlyLive, SameRows
<1>7. req'[r].pc = "save" /\ req'[r].pending = s
  BY <1>1, Remembers
<1> QED BY <1>1, <1>4, <1>5, <1>6, <1>7 DEF Entitled

(* The new row joins a family with no live token, or none.                  *)
LEMMA SaveKeepsFamilies ==
    ASSUME IInv, FamilyInv, NEW r \in Requests, SaveIssued(r)
    PROVE  Tidy(codes', tokens', burned')
<1> DEFINE s == req[r].pending
           n == Len(tokens) + 1
<1>1. codes' = codes /\ burned' = burned /\ req[r].pc = "save"
  BY Zenon DEF SaveIssued
<1>2. /\ n \in Nat \ {0} /\ n \notin DOMAIN tokens
      /\ DOMAIN tokens' = DOMAIN tokens \cup {n}
      /\ tokens'[n].spec = s
      /\ \A i \in DOMAIN tokens : tokens'[i] = tokens[i]
  BY Zenon, SavedRow
<1>3. /\ s.refresh => s.family # 0
      /\ s.family # 0 =>
           s.family \notin burned /\ Spent(codes, s.family) /\ OnlyLive(tokens, s.family, 0)
  BY Zenon, <1>1 DEF FamilyInv, Entitled
<1>4. \A i \in DOMAIN tokens : i # 0
  BY ZenonT(40), TableFacts DEF IInv
<1>5. 0 \notin burned
  BY TableFacts DEF FamilyInv, Tidy, Spent, IInv
<1> HIDE DEF s, n
<1>6. ASSUME NEW i \in DOMAIN tokens', tokens'[i].spec.family # 0, ~tokens'[i].revoked,
             NEW j \in DOMAIN tokens', tokens'[j].spec.family = tokens'[i].spec.family,
             ~tokens'[j].revoked
      PROVE  j = i
  <2>1. CASE i \in DOMAIN tokens /\ j \in DOMAIN tokens
    BY Zenon, <1>2, <1>6, <2>1 DEF FamilyInv, Tidy, OnlyLive
  <2>2. CASE i = n /\ j \in DOMAIN tokens
    BY Zenon, <1>2, <1>3, <1>4, <1>6, <2>2 DEF OnlyLive
  <2>3. CASE j = n /\ i \in DOMAIN tokens
    BY Zenon, <1>2, <1>3, <1>4, <1>6, <2>3 DEF OnlyLive
  <2> QED BY Zenon, <1>2, <2>1, <2>2, <2>3
<1>7. \A i \in DOMAIN tokens' : tokens'[i].spec.family \in burned => tokens'[i].revoked
  BY Zenon, <1>2, <1>3, <1>5 DEF FamilyInv, Tidy
<1>8. \A i \in DOMAIN tokens' :
        /\ tokens'[i].spec.refresh => tokens'[i].spec.family # 0
        /\ tokens'[i].spec.family # 0 => Spent(codes, tokens'[i].spec.family)
  BY Zenon, <1>2, <1>3 DEF FamilyInv, Tidy
<1>9. \A f \in burned : Spent(codes, f)
  BY Zenon DEF FamilyInv, Tidy
<1> QED BY Zenon, <1>1, <1>6, <1>7, <1>8, <1>9 DEF Tidy, OnlyLive

(* revoke_token_family leaves no live row in the family it declares dead.   *)
LEMMA BurnKeepsFamilies ==
    ASSUME IInv, FamilyInv, NEW r \in Requests, BurnFamily(r)
    PROVE  Tidy(codes', tokens', burned')
<1> DEFINE f == req[r].target
<1>1. /\ codes' = codes /\ burned' = burned \cup {f} /\ req[r].pc = "burn"
      /\ tokens' = Revoke(tokens, FamilyRows(tokens, f))
  BY Zenon DEF BurnFamily, RevokeTokenFamily
<1>2. /\ SameRows(tokens, tokens')
      /\ \A i \in DOMAIN tokens \cap FamilyRows(tokens, f) : tokens'[i].revoked
  BY Zenon, <1>1, RevokeSameRows
<1>3. CodesGrow(codes, codes')
  BY <1>1 DEF CodesGrow, SameGrant
<1>4. Tidy(codes', tokens', burned)
  BY Zenon, <1>2, <1>3, TidyStable DEF FamilyInv
<1>5. Spent(codes', f)
  BY Zenon, <1>1 DEF FamilyInv, Entitled
<1>6. \A i \in DOMAIN tokens' : tokens'[i].spec.family = f => tokens'[i].revoked
  BY Zenon, <1>2 DEF SameRows, FamilyRows
<1> HIDE DEF f
<1> QED BY Zenon, <1>1, <1>4, <1>5, <1>6 DEF Tidy

(* Every other step of the endpoint leaves the rows, but for revocations,   *)
(* and who is dead.                                                         *)
LEMMA QuietKeepsFamilies ==
    ASSUME IInv, FamilyInv, [Next]_vars,
           SameRows(tokens, tokens'), burned' = burned,
           \A q \in Requests : req'[q] = req[q] \/ Entitled(req'[q], codes, tokens, burned)
    PROVE  FamilyInv'
<1>1. CodesGrow(codes, codes')
  BY Zenon, NextGrows DEF IInv
<1>2. Tidy(codes', tokens', burned')
  BY Zenon, <1>1, TidyStable DEF FamilyInv
<1>3. ASSUME NEW q \in Requests PROVE Entitled(req'[q], codes', tokens', burned')
  <2>1. Entitled(req'[q], codes, tokens, burned)
    BY Zenon DEF FamilyInv
  <2> QED BY Zenon, <1>1, <2>1, EntitledStable
<1> QED BY Zenon, <1>2, <1>3 DEF FamilyInv

LEMMA StepKeepsFamilies ==
    ASSUME IInv, FamilyInv, Alone, NEW r \in Requests, Step(r)
    PROVE  FamilyInv'
<1>1. [Next]_vars
  BY Zenon DEF Next
<1>2. \A q \in Requests \ {r} :
         req'[q] = req[q] /\ Entitled(req'[q], codes', tokens', burned')
  BY Zenon, OthersIdle
<1>3. CASE ClaimCode(r)
  BY Zenon, <1>2, <1>3, ClaimKeepsFamilies DEF FamilyInv
<1>4. CASE RotateOld(r)
  BY Zenon, <1>2, <1>4, RotateKeepsFamilies DEF FamilyInv
<1>5. CASE SaveIssued(r)
  <2>1. Entitled(req'[r], codes', tokens', burned')
    BY Zenon, <1>5, FinishEntitles DEF SaveIssued
  <2> QED BY Zenon, <1>2, <1>5, <2>1, SaveKeepsFamilies DEF FamilyInv
<1>6. CASE BurnFamily(r)
  <2>1. Entitled(req'[r], codes', tokens', burned')
    BY Zenon, <1>6, FinishEntitles DEF BurnFamily
  <2> QED BY Zenon, <1>2, <1>6, <2>1, BurnKeepsFamilies DEF FamilyInv
<1>7. CASE RevokeOne(r) \/ NotFound(r)
  <2>1. Finish(r) /\ burned' = burned /\ (tokens' = tokens \/ tokens' = Revoke(tokens, {req[r].target}))
    BY Zenon, <1>7 DEF RevokeOne, RevokeToken, NotFound, Reject
  <2>2. SameRows(tokens, tokens')
    BY Zenon, <2>1, RevokeSameRows DEF SameRows
  <2> QED BY Zenon, <1>1, <1>2, <2>1, <2>2, FinishEntitles, QuietKeepsFamilies
<1>8. CASE ~(ClaimCode(r) \/ RotateOld(r) \/ SaveIssued(r) \/ BurnFamily(r) \/ RevokeOne(r)
               \/ NotFound(r))
  <2>1. Entitled(req'[r], codes, tokens, burned)
    BY Zenon, <1>8, ReadEntitles DEF Step
  <2>2. tokens' = tokens /\ burned' = burned
    <3>1. ASSUME NEW k, NEW valid, ReadCode(r, k, valid) PROVE UNCHANGED <<tokens, burned>>
      BY Zenon, <3>1 DEF ReadCode, Reject, Continue
    <3>2. ASSUME NEW t, NEW u, NEW sc, NEW x,
                 \/ ReadRefresh(r, t, sc, x) \/ ReadSubject(r, t, sc, x)
                 \/ RedeemAssertion(r, u, sc, x) \/ LookupRevoked(r, t)
          PROVE  UNCHANGED <<tokens, burned>>
      BY Zenon, <3>2 DEF ReadRefresh, ReadSubject, RedeemAssertion, LookupRevoked, Reject, Continue
    <3> QED BY <1>8, <3>1, <3>2 DEF Step
  <2>3. SameRows(tokens, tokens')
    BY Zenon, <2>2 DEF SameRows
  <2> QED BY Zenon, <1>1, <1>2, <2>1, <2>2, <2>3, QuietKeepsFamilies
<1> QED BY <1>3, <1>4, <1>5, <1>6, <1>7, <1>8

LEMMA NextKeepsFamilies ==
    ASSUME IInv, FamilyInv, Alone, [Next]_vars
    PROVE  FamilyInv'
<1>1. ASSUME NEW r \in Requests, Start(r) PROVE FamilyInv'
  <2>1. tokens' = tokens /\ burned' = burned
    BY Zenon, <1>1 DEF Start, Authenticate, ClientCredentials, StartRevoke
  <2>2. \A q \in Requests \ {r} : req'[q] = req[q]
    BY Zenon, <1>1, StartMoves DEF Moved
  <2>3. SameRows(tokens, tokens')
    BY Zenon, <2>1 DEF SameRows
  <2> QED BY ZenonT(60), <1>1, <2>1, <2>2, <2>3, StartEntitles, QuietKeepsFamilies
<1>2. CASE Admin
  <2>1. req' = req /\ burned' = burned /\ \E which : tokens' = Revoke(tokens, which)
    BY Zenon, <1>2 DEF Admin, RevokeTokenById, RevokeByUser, RevokeByClient, AdminRevoke
  <2>2. SameRows(tokens, tokens')
    BY Zenon, <2>1, RevokeSameRows
  <2> QED BY <2>1, <2>2, QuietKeepsFamilies
<1>3. CASE Authorize \/ Tick \/ UNCHANGED vars
  <2>1. req' = req /\ burned' = burned /\ tokens' = tokens
    BY Zenon, <1>3 DEF Authorize, IssueCode, Tick, vars
  <2>2. SameRows(tokens, tokens')
    BY Zenon, <2>1 DEF SameRows
  <2> QED BY <2>1, <2>2, QuietKeepsFamilies
<1>4. CASE Crash
  <2>1. burned' = burned /\ tokens' = tokens /\ \A q \in Requests : req'[q].pc = "idle"
    BY ZenonT(40), <1>4, IdleType DEF Crash
  <2>2. SameRows(tokens, tokens') /\ \A q \in Requests : Entitled(req'[q], codes, tokens, burned)
    BY <2>1 DEF SameRows, Entitled
  <2> QED BY Zenon, <2>1, <2>2, QuietKeepsFamilies
<1> QED BY Zenon, <1>1, <1>2, <1>3, <1>4, StepKeepsFamilies DEF Next

LEMMA AloneKeepsFamilies == Spec /\ []Alone => []FamilyInv
<1>1. Init => FamilyInv
  BY IdleType DEF Init, FamilyInv, Tidy, Entitled
<1>2. IInv /\ FamilyInv /\ Alone /\ [Next]_vars => FamilyInv'
  BY NextKeepsFamilies
<1> QED BY <1>1, <1>2, AlwaysIInv, PTL DEF Spec
-----------------------------------------------------------------------------
(* With no two requests in flight at once, a family never has two live      *)
(* tokens: the rotation of the refresh branch replaces the one there is.    *)
(* refresh_race is what happens without that hypothesis.                    *)
THEOREM AloneOneLivePerFamily == Spec /\ []Alone => []OneLivePerFamily
<1>1. FamilyInv => OneLivePerFamily
  BY ZenonT(40) DEF FamilyInv, Tidy, OnlyLive, OneLivePerFamily
<1> QED BY <1>1, AloneKeepsFamilies, PTL

(* With no two requests in flight at once, a replayed code or refresh       *)
(* token, or POST /oauth/revoke, ends its family for good.                  *)
THEOREM AloneBurnedStaysDead == Spec /\ []Alone => []BurnedFamilyStaysDead
<1>1. FamilyInv => BurnedFamilyStaysDead
  BY DEF FamilyInv, Tidy, BurnedFamilyStaysDead
<1> QED BY <1>1, AloneKeepsFamilies, PTL
=============================================================================
