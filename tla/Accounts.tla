------------------------------ MODULE Accounts ------------------------------
(***************************************************************************)
(* Clients and users as rows of the database, and everybody who reads or   *)
(* writes them at the same time: the administration API, registration, the *)
(* denylist, the requests that need an enabled account to get a token, and *)
(* the two endpoints that vouch for one.                                   *)
(*                                                                         *)
(* A request is a chain of steps, one per storage call.  A request that is *)
(* refused is simply over.  A client is known by its client_id and a user  *)
(* by its id: an administrator or a registration gives a new account an    *)
(* unused one, but a requested client_id and a provisioned subject can     *)
(* return after a deletion.                                                *)
(***************************************************************************)
EXTENDS Naturals, Sequences, FiniteSets

CONSTANTS
    Users, Clients,
    None,          \* no row, no user
    Peer,          \* the address that requests come from
    Requests,      \* slots for requests that are in progress at one time
    UserBodies,    \* the PUT bodies for a user: functions on some of the columns
    ClientBodies,  \* the PUT bodies for a client
    Forms,         \* the client metadata that is submitted to create a client
    MaxTokens,     \* bound: rows in the tokens table
    MaxOps         \* bound: requests altogether

Accounts == Users \cup Clients

(* What a denylist entry can be about: a kind, and the address, client or   *)
(* user whose value it holds.  A user without an e-mail address is one that *)
(* no "email" entry is ever made for.                                       *)
Subjects ==
    {<<"ip", Peer>>} \cup ({"client_id"} \X Clients)
    \cup ({"username", "email", "user_id"} \X Users)

(* rest stands for the columns nothing here depends on: role, credentials,  *)
(* names, URIs.                                                             *)
UserRow == [enabled : BOOLEAN, rest : {0, 1}]

(* method is "key" for the two methods that need registered keys,           *)
(* private_key_jwt and self_signed_tls_client_auth.  jwks and jwks_uri say  *)
(* whether the column is not empty.                                         *)
ClientRow ==
    [enabled : BOOLEAN, rest : {0, 1}, method : {"none", "secret", "key"},
     jwks : BOOLEAN, jwks_uri : BOOLEAN]

Form ==
    [method : {"none", "secret", "key"}, jwks : {"absent", "empty", "keys"},
     jwks_uri : BOOLEAN]

ASSUME AccountsAssumption ==
    /\ MaxTokens \in Nat /\ MaxOps \in Nat
    /\ Forms \subseteq Form
    /\ \A body \in UserBodies : DOMAIN body \subseteq {"enabled", "rest"}
    /\ \A body \in ClientBodies :
          DOMAIN body \subseteq {"enabled", "rest", "method", "jwks", "jwks_uri"}
    /\ None \notin Accounts /\ Peer \notin Accounts /\ Users \cap Clients = {}
    /\ None \notin UserRow \cup ClientRow

VARIABLES
    accounts,  \* the rows of clients and users
    fresh,     \* the ids that no account ever had
    denied,    \* the subjects the denylist holds an unexpired entry for
    tokens,    \* the rows of tokens
    enforced,  \* whether the database enforces the foreign keys of tokens
    req,       \* the requests in progress
    ops,       \* how many requests there were
    barred,    \* observation: what stood against a request ever since it began
    wrote,     \* observation: accounts off since a request in progress wrote so
    settled    \* observation: accounts off since a disabling that ended well

vars == <<accounts, fresh, denied, tokens, enforced, req, ops, barred, wrote, settled>>

store == <<accounts, fresh, denied, tokens, enforced>>

(* values: which of its values have not expired.  bound: there is a cnf in  *)
(* the access token.  on: observation, those of its client and its user     *)
(* that were enabled when it was saved.                                     *)
Token ==
    [client : Clients, user : Users \cup {None}, bound : BOOLEAN, revoked : BOOLEAN,
     values : SUBSET {"access", "refresh"}, on : SUBSET Accounts]

Idle == [pc |-> "idle"]

(* An administrator's request: the account, what its UPDATE sets, and       *)
(* whether the tokens of the account are revoked in the end.                *)
AdminAt(pc, a, set, sweep) == [pc |-> pc, target |-> a, set |-> set, sweep |-> sweep]

(* A request for a token; open: the subjects whose lookup failed on the way. *)
GrantAt(pc, grant, c, u, open) ==
    [pc |-> pc, grant |-> grant, client |-> c, user |-> u, open |-> open]

(* A question about a token by one of its two values; stale: this value had *)
(* expired, or the token was revoked, when the request began.               *)
AskAt(pc, ask, c, i, via, stale) ==
    [pc |-> pc, grant |-> ask, client |-> c, token |-> i, via |-> via,
     stale |-> stale, open |-> {}]

Exists(a) == accounts[a] # None

On(a) == Exists(a) /\ accounts[a].enabled

Off == {a \in Accounts : ~On(a)}

TypeOK ==
    /\ \A u \in Users : accounts[u] \in UserRow \cup {None}
    /\ \A c \in Clients : accounts[c] \in ClientRow \cup {None}
    /\ fresh \subseteq {a \in Accounts : ~Exists(a)}
    /\ denied \subseteq Subjects
    /\ tokens \in Seq(Token) /\ Len(tokens) <= MaxTokens
    /\ enforced \in BOOLEAN
    /\ enforced => \A i \in DOMAIN tokens :
                      /\ Exists(tokens[i].client)
                      /\ tokens[i].user # None => Exists(tokens[i].user)
    /\ \A r \in Requests : req[r] = Idle \/ req[r].pc \in
          {"write", "delete", "cascade", "audit", "denylist", "resolve", "username", "email",
           "new_username", "new_email", "insert", "reread", "save", "lookup", "answer"}
    /\ ops \in 0..MaxOps
-----------------------------------------------------------------------------
(* Requests.                                                                *)

(* A request gets past DenylistGuard when its address is not listed or the  *)
(* lookup fails; otherwise it is over before it began.  So one that begins  *)
(* while its address is listed is one whose lookup failed.                  *)
Begin(r, first) ==
    /\ req[r] = Idle
    /\ ops < MaxOps
    /\ ops' = ops + 1
    /\ req' = [req EXCEPT ![r] = first]

Goto(r, pc) == req' = [req EXCEPT ![r].pc = pc] /\ UNCHANGED ops

End(r) == req' = [req EXCEPT ![r] = Idle] /\ UNCHANGED ops

(* find_denylist_entry, which does not see an entry that has expired.       *)
Listed(kind, value) == <<kind, value>> \in denied

(* check_subject_denylisted: a failed lookup is no entry.                   *)
PassDenylist(r, kind, value, pc) ==
    \/ /\ ~Listed(kind, value)
       /\ Goto(r, pc)
    \/ /\ Listed(kind, value)
       /\ End(r)
    \/ /\ Listed(kind, value)
       /\ req' = [req EXCEPT ![r].pc = pc, ![r].open = @ \cup {<<kind, value>>}]
       /\ UNCHANGED ops

Merge(row, set) == [c \in DOMAIN row |-> IF c \in DOMAIN set THEN set[c] ELSE row[c]]

(* _validate_key_material                                                   *)
Usable(row) ==
    /\ ~(row.jwks /\ row.jwks_uri)
    /\ row.method = "key" => row.jwks \/ row.jwks_uri

NewClient(form) ==
    [enabled |-> TRUE, rest |-> 0, method |-> form.method,
     jwks |-> form.jwks = "keys", jwks_uri |-> form.jwks_uri]

Insert(a, row) ==
    /\ ~Exists(a)
    /\ accounts' = [accounts EXCEPT ![a] = row]
    /\ fresh' = fresh \ {a}
-----------------------------------------------------------------------------
(* Requests that are one statement.                                         *)

Single == ops < MaxOps /\ ops' = ops + 1 /\ UNCHANGED req

(* create_user; a username that is taken refuses it, before or at the       *)
(* INSERT.                                                                  *)
CreateUser(u) ==
    /\ u \in fresh
    /\ \E enabled \in BOOLEAN : Insert(u, [enabled |-> enabled, rest |-> 0])
    /\ Single
    /\ UNCHANGED <<denied, tokens, enforced>>

(* create_client; the rules are applied to what will be stored.             *)
CreateClient(c) ==
    /\ \E form \in Forms : Usable(NewClient(form)) /\ Insert(c, NewClient(form))
    /\ Single
    /\ UNCHANGED <<denied, tokens, enforced>>

Registered(form) == NewClient(form)

(* register_client; the rules are applied to what was submitted, where an   *)
(* empty jwks document counts as one.                                       *)
Register(c) ==
    /\ c \in fresh
    /\ \E form \in Forms :
          /\ form.method = "key" => form.jwks # "absent" \/ form.jwks_uri
          /\ ~(form.jwks # "absent" /\ form.jwks_uri)
          /\ Insert(c, Registered(form))
    /\ Single
    /\ UNCHANGED <<denied, tokens, enforced>>

(* add_denylist takes all five kinds; nothing looks a "user_id" entry up.   *)
AddDenylist(subject) ==
    /\ denied' = denied \cup {subject}
    /\ Single
    /\ UNCHANGED <<accounts, fresh, tokens, enforced>>

(* remove_denylist, and the passing of an entry's expires_at.               *)
DropDenylist(subject) ==
    /\ subject \in denied
    /\ denied' = denied \ {subject}
    /\ Single
    /\ UNCHANGED <<accounts, fresh, tokens, enforced>>
-----------------------------------------------------------------------------
(* Edits by an administrator.                                               *)

(* Mutant of Submitted: the UPDATE sets the columns of the body only.       *)
SubmittedOnly(row, body) == body

(* What the UPDATE of a PUT sets: every column, from the row that was read  *)
(* and merged with the body.                                                *)
Submitted(row, body) == Merge(row, body)

Disables(body) == "enabled" \in DOMAIN body /\ ~body.enabled

(* update_user                                                              *)
EditUser(r, u) ==
    /\ Exists(u)
    /\ \E body \in UserBodies :
          Begin(r, AdminAt("write", u, Submitted(accounts[u], body), Disables(body)))
    /\ UNCHANGED store

(* update_client                                                            *)
EditClient(r, c) ==
    /\ Exists(c)
    /\ \E body \in ClientBodies :
          /\ Usable(Merge(accounts[c], body))
          /\ Begin(r, AdminAt("write", c, Submitted(accounts[c], body), Disables(body)))
    /\ UNCHANGED store

(* set_user_enabled, which does not look for the row, and set_client_enabled *)
SetEnabled(r, a) ==
    /\ a \in Clients => Exists(a)
    /\ \E enabled \in BOOLEAN :
          Begin(r, AdminAt("write", a, [enabled |-> enabled], ~enabled))
    /\ UNCHANGED store

(* set_user_role and reset_user_password, which revokes the user's tokens.  *)
SetUserColumn(r, u) ==
    /\ \E reset \in BOOLEAN : Begin(r, AdminAt("write", u, [rest |-> 1], reset))
    /\ UNCHANGED store

(* regenerate_client_secret                                                 *)
RegenerateSecret(r, c) ==
    /\ Exists(c)
    /\ accounts[c].method # "none"
    /\ Begin(r, AdminAt("write", c, [rest |-> 1], FALSE))
    /\ UNCHANGED store

(* The UPDATE of each of them; there may be no such row any more.           *)
Write(r) ==
    LET q == req[r] IN
    /\ q.pc = "write"
    /\ accounts' = IF Exists(q.target)
                   THEN [accounts EXCEPT ![q.target] = Merge(@, q.set)]
                   ELSE accounts
    /\ IF q.sweep THEN Goto(r, "cascade") ELSE End(r)
    /\ UNCHANGED <<fresh, denied, tokens, enforced>>

(* delete_user and delete_client, as far as the row is read.                *)
BeginDelete(r, a) ==
    /\ Exists(a)
    /\ Begin(r, AdminAt("delete", a, <<>>, a \in Users))
    /\ UNCHANGED store

(* The transaction of Storage.delete_user: the tokens are revoked and       *)
(* unlinked, and the row is deleted.                                        *)
DeleteUser(r) ==
    LET u == req[r].target IN
    /\ req[r].pc = "delete" /\ u \in Users
    /\ accounts' = [accounts EXCEPT ![u] = None]
    /\ tokens' = [i \in DOMAIN tokens |->
                    IF tokens[i].user = u
                    THEN [tokens[i] EXCEPT !.revoked = TRUE, !.user = None]
                    ELSE tokens[i]]
    /\ Goto(r, "cascade")
    /\ UNCHANGED <<fresh, denied, enforced>>

(* Storage.delete_client; a foreign key keeps a client that has tokens.     *)
(* Where none is enforced the tokens stay as they are: there is no cascade. *)
DeleteClient(r) ==
    LET c == req[r].target IN
    /\ req[r].pc = "delete" /\ c \in Clients
    /\ accounts' = IF enforced /\ \E i \in DOMAIN tokens : tokens[i].client = c
                   THEN accounts ELSE [accounts EXCEPT ![c] = None]
    /\ End(r)
    /\ UNCHANGED <<fresh, denied, tokens, enforced>>

(* Mutant of TokensOf: only the tokens that a user stands behind.           *)
TokensOfUser(a) ==
    {i \in DOMAIN tokens : tokens[i].user # None /\ a \in {tokens[i].user, tokens[i].client}}

(* What revoke_tokens_by_user_id and revoke_tokens_by_client_id match.      *)
TokensOf(a) == {i \in DOMAIN tokens : a \in {tokens[i].user, tokens[i].client}}

Swept(a) ==
    [i \in DOMAIN tokens |-> [tokens[i] EXCEPT !.revoked = @ \/ i \in TokensOf(a)]]

(* _best_effort_revoke_by_user and _by_client; a failure is only logged.    *)
Cascade(r) ==
    /\ req[r].pc = "cascade"
    /\ \/ /\ tokens' = Swept(req[r].target)
          /\ Goto(r, "audit")
       \/ /\ UNCHANGED tokens
          /\ End(r)
    /\ UNCHANGED <<accounts, fresh, denied, enforced>>

(* GET /oauth/logout with a good id_token_hint: every token of the user is  *)
(* revoked.                                                                 *)
HintedLogout(u) ==
    /\ u \notin fresh
    /\ tokens' = Swept(u)
    /\ Single
    /\ UNCHANGED <<accounts, fresh, denied, enforced>>

(* record_audit, and the answer.                                            *)
Audit(r) == req[r].pc = "audit" /\ End(r) /\ UNCHANGED store
-----------------------------------------------------------------------------
(* Requests for a token.                                                    *)

(* Assertions and self-signed certificates are accepted with keys only.     *)
Verifiable(row) == row.method = "key" => row.jwks \/ row.jwks_uri

(* ClientService.authenticate, from the row it reads.                       *)
Authenticates(c) == On(c) /\ Verifiable(accounts[c])

ListedPeer == {<<"ip", Peer>>} \cap denied

(* The token endpoint.  A "session" grant is for the user of a code or a    *)
(* device row, who was logged in at some time and is not looked up again.   *)
AskToken(r, c) ==
    /\ Authenticates(c)
    /\ \/ /\ accounts[c].method # "none"
          /\ Begin(r, GrantAt("denylist", "credentials", c, None, ListedPeer))
       \/ \E u \in Users \ fresh :
             Begin(r, GrantAt("denylist", "session", c, u, ListedPeer))
       \/ \E u \in Users :
             /\ accounts[c].method # "none"
             /\ Begin(r, GrantAt("denylist", "bearer", c, u, ListedPeer))
    /\ UNCHANGED store

AfterClient == [credentials |-> "save", session |-> "save", bearer |-> "resolve",
                introspect |-> "lookup"]

ClientDenylist(r) ==
    /\ req[r].pc = "denylist"
    /\ PassDenylist(r, "client_id", req[r].client, AfterClient[req[r].grant])
    /\ UNCHANGED store

(* _resolve_subject, as far as the user is read: disabled, unknown to an    *)
(* issuer that may not provision, or unknown to one that may.               *)
ResolveSubject(r) ==
    LET u == req[r].user IN
    /\ req[r].pc = "resolve"
    /\ \/ On(u) /\ Goto(r, "username")
       \/ ~On(u) /\ End(r)
       \/ ~Exists(u) /\ Goto(r, "new_username")
    /\ UNCHANGED store

(* _reject_if_denylisted: the username, then the e-mail address.            *)
SubjectDenylist(r) ==
    LET u == req[r].user IN
    /\ \/ req[r].pc = "username" /\ PassDenylist(r, "username", u, "email")
       \/ req[r].pc = "email" /\ PassDenylist(r, "email", u, "save")
       \/ req[r].pc = "new_username" /\ PassDenylist(r, "username", u, "new_email")
       \/ req[r].pc = "new_email" /\ PassDenylist(r, "email", u, "insert")
    /\ UNCHANGED store

(* The INSERT of a new user, which fails if there is one, or for another    *)
(* reason.                                                                  *)
Provision(r) ==
    /\ req[r].pc = "insert"
    /\ \/ /\ Insert(req[r].user, [enabled |-> TRUE, rest |-> 0])
          /\ Goto(r, "save")
       \/ /\ Goto(r, "reread")
          /\ UNCHANGED <<accounts, fresh>>
    /\ UNCHANGED <<denied, tokens, enforced>>

(* Mutant of RereadUser: any row that is there will do.                     *)
RereadAny(r) ==
    /\ req[r].pc = "reread"
    /\ IF Exists(req[r].user) THEN Goto(r, "username") ELSE End(r)
    /\ UNCHANGED store

(* The row that won the race.                                               *)
RereadUser(r) ==
    /\ req[r].pc = "reread"
    /\ IF On(req[r].user) THEN Goto(r, "username") ELSE End(r)
    /\ UNCHANGED store

Parties(q) == {q.client, q.user} \ {None}

(* The accounts that have to be enabled for the grant.                      *)
Checked(q) == IF q.grant = "bearer" THEN Parties(q) ELSE {q.client}

(* TokenService.issue, with the foreign keys of the tokens table.           *)
Save(r) ==
    LET q == req[r] IN
    /\ q.pc = "save"
    /\ IF enforced /\ \E a \in Parties(q) : ~Exists(a)
       THEN UNCHANGED tokens
       ELSE /\ Len(tokens) < MaxTokens
            /\ \E bound \in BOOLEAN :
                  tokens' = Append(tokens,
                     [client |-> q.client, user |-> q.user, bound |-> bound,
                      revoked |-> FALSE, on |-> Parties(q) \ Off,
                      values |-> IF q.grant = "session" THEN {"access", "refresh"}
                                 ELSE {"access"}])
    /\ End(r)
    /\ UNCHANGED <<accounts, fresh, denied, enforced>>
-----------------------------------------------------------------------------
(* Questions about a token.                                                 *)

(* Mutant of IsActive: only the deadline counts.                            *)
IsActiveUnrevoked(i, via) == via \in tokens[i].values

(* _is_active with _expiry_deadline, and the same test in userinfo.         *)
IsActive(i, via) == ~tokens[i].revoked /\ via \in tokens[i].values

Stale(i, via) == tokens[i].revoked \/ via \notin tokens[i].values

(* introspect                                                               *)
Introspect(r, c) ==
    /\ Authenticates(c)
    /\ \E i \in DOMAIN tokens, via \in {"access", "refresh"} :
          Begin(r, AskAt("denylist", "introspect", c, i, via, Stale(i, via)))
    /\ UNCHANGED store

(* userinfo                                                                 *)
UserInfo(r) ==
    /\ \E i \in DOMAIN tokens :
          Begin(r, AskAt("lookup", "userinfo", None, i, "access", Stale(i, "access")))
    /\ UNCHANGED store

(* A bound access token needs a proof or a certificate with the request.    *)
NeedsBinding(q) == q.via = "access" /\ tokens[q.token].bound

Granted(q) ==
    /\ IsActive(q.token, q.via)
    /\ IF q.grant = "introspect" THEN tokens[q.token].client = q.client
                                 ELSE tokens[q.token].user # None

(* The row is read, and the binding is checked if it is the last obstacle.  *)
Lookup(r) ==
    LET q == req[r] IN
    /\ q.pc = "lookup"
    /\ \/ Granted(q) /\ Goto(r, "answer")
       \/ (~Granted(q) \/ NeedsBinding(q)) /\ End(r)
    /\ UNCHANGED store

(* The user is read for the claims, and the answer says yes.                *)
Answer(r) == req[r].pc = "answer" /\ End(r) /\ UNCHANGED store

(* A token is revoked by its client, or one of its values expires.          *)
Wither(i) ==
    /\ \/ /\ ~tokens[i].revoked
          /\ tokens' = [tokens EXCEPT ![i].revoked = TRUE]
       \/ \E via \in tokens[i].values :
             tokens' = [tokens EXCEPT ![i].values = @ \ {via}]
    /\ UNCHANGED <<accounts, fresh, denied, enforced, req, ops>>
-----------------------------------------------------------------------------
(* The entries that are to stop the grant: the kinds some code enforces.    *)
Enforced(q) ==
    {<<"ip", Peer>>, <<"client_id", q.client>>}
    \cup (IF q.grant = "bearer" THEN {"username", "email"} \X {q.user} ELSE {})

(* What stands against a request for a token.                               *)
Blocks(q) ==
    IF q.pc = "idle" \/ "user" \notin DOMAIN q THEN {}
    ELSE {<<"off", a>> : a \in Checked(q) \cap Off} \cup (Enforced(q) \cap denied)

Init ==
    /\ accounts \in [Accounts -> UserRow \cup ClientRow \cup {None}]
    /\ \A u \in Users : accounts[u] \in {None, [enabled |-> TRUE, rest |-> 0]}
    /\ \A c \in Clients :
          accounts[c] \in {None} \cup {NewClient(f) : f \in {g \in Forms : Usable(NewClient(g))}}
    /\ fresh = {a \in Accounts : ~Exists(a)}
    /\ denied = {}
    /\ tokens = <<>>
    /\ enforced \in BOOLEAN
    /\ req = [r \in Requests |-> Idle]
    /\ ops = 0
    /\ barred = [r \in Requests |-> {}]
    /\ wrote = [r \in Requests |-> {}]
    /\ settled = {}

Step ==
    \/ \E u \in Users : CreateUser(u) \/ HintedLogout(u)
    \/ \E c \in Clients : CreateClient(c) \/ Register(c)
    \/ \E s \in Subjects : AddDenylist(s) \/ DropDenylist(s)
    \/ \E r \in Requests :
         \/ \E u \in Users : EditUser(r, u) \/ SetUserColumn(r, u)
         \/ \E c \in Clients : EditClient(r, c) \/ RegenerateSecret(r, c) \/ AskToken(r, c)
                               \/ Introspect(r, c)
         \/ \E a \in Accounts : SetEnabled(r, a) \/ BeginDelete(r, a)
         \/ Write(r) \/ DeleteUser(r) \/ DeleteClient(r) \/ Cascade(r) \/ Audit(r)
         \/ ClientDenylist(r) \/ ResolveSubject(r) \/ SubjectDenylist(r)
         \/ Provision(r) \/ RereadUser(r) \/ Save(r)
         \/ UserInfo(r) \/ Lookup(r) \/ Answer(r)
    \/ \E i \in DOMAIN tokens : Wither(i)

(* The observations; no action reads them.                                  *)
Observe ==
    /\ barred' = [r \in Requests |->
                    IF req[r] = Idle THEN Blocks(req[r])' ELSE barred[r] \cap Blocks(req[r])']
    /\ wrote' = [r \in Requests |->
                    IF req'[r].pc # "cascade" THEN {}
                    ELSE Off' \cap (IF req[r].pc # "cascade" THEN {req'[r].target} ELSE wrote[r])]
    /\ settled' = Off' \cap (settled \cup
          UNION {wrote[r] : r \in {q \in Requests : req[q].pc = "cascade" /\ req'[q].pc = "audit"}})

Next == Step /\ Observe

Spec == Init /\ [][Next]_vars
-----------------------------------------------------------------------------
(* Edits of one client that overlap never combine into a client without the *)
(* key material its method needs: update_client validates the merged row    *)
(* and writes all of it (clients.py: "a private_key_jwt client must not be  *)
(* left with nothing to verify assertions against").                        *)
EditsKeepUsable ==
    [][\A c \in Clients :
          Exists(c) /\ Usable(accounts[c]) /\ Exists(c)' => Usable(accounts'[c])]_vars

(* Once the disabling of an account, or the deletion of a user, has ended,  *)
(* its cascade included, and as long as the account has stayed off, no      *)
(* token is alive that was saved while the account was on: what survives    *)
(* was saved by a request that was already past its checks.  It does not    *)
(* speak of a deleted client, whose tokens nothing revokes.                 *)
DisableRevokes ==
    \A a \in settled, i \in DOMAIN tokens :
       a \in tokens[i].on /\ a \in Parties(tokens[i]) => tokens[i].revoked

(* A token is saved only by a request during which its client, and for the  *)
(* jwt-bearer grant its user, was at some time there and enabled, and every *)
(* entry for its address, its client_id and, for jwt-bearer, the username   *)
(* and the e-mail address was at some time not on the denylist, unless the  *)
(* lookup of that entry failed, which fails open.  An entry for a user_id   *)
(* stops nothing (middleware.py:27: "`user_id` remains unwired").  The      *)
(* docstring at denylist.py:11, for which no kind but "ip" is enforced      *)
(* anywhere, is out of date for the other three.                            *)
IssuedWhileAllowed ==
    [][\A r \in Requests :
          req[r].pc = "save" /\ Len(tokens') > Len(tokens) /\ req'[r] = Idle =>
             barred[r] \subseteq req[r].open]_vars

(* introspect and userinfo vouch only for a token value that was neither    *)
(* revoked nor expired when the request came in.                            *)
AnswersLive ==
    [][\A r \in Requests : req[r].pc = "answer" /\ req'[r] = Idle => ~req[r].stale]_vars
=============================================================================
