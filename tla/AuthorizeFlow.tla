--------------------------- MODULE AuthorizeFlow ----------------------------
(***************************************************************************)
(* GET /oauth/authorize with the pushed requests it consumes, the login it *)
(* sends the user to, and the session cookie that carries the request      *)
(* there and back.                                                         *)
(*                                                                         *)
(* One browser with several tabs.  The session is the signed cookie of     *)
(* SessionMiddleware: a handler works on the copy its request carried, and *)
(* its answer replaces the browser's cookie by that copy, changed or not.  *)
(* A request is therefore two steps, sending and answering; in between,    *)
(* other tabs may log in and out.  A request with a request_uri has a step *)
(* more: the handler takes from the PAR store before its first await.  The *)
(* redirect that answers a login is followed in a step of its own, with    *)
(* the cookie the browser holds by then.                                   *)
(***************************************************************************)
EXTENDS Integers, Sequences, FiniteSets, Maps

CONSTANTS
    Clients, Users, None,
    Locals,         \* the users who have a password
    Tabs,           \* the tabs of the browser
    Visits,         \* the requests that clients make
    ReturnToMaxAge, \* RETURN_TO_MAX_AGE_SECS
    ParTTL,         \* PAR_TTL_SECS
    MaxTime,        \* bound: the clock stops here
    MaxPushes       \* bound: requests pushed

Prompts == {"none", "login", "select_account", "consent"}

ASSUME AuthorizeAssumption ==
    /\ None \notin Clients \cup Users \cup Nat
    /\ Locals \subseteq Users
    /\ Visits \subseteq [client : Clients, pushed : BOOLEAN, prompt : SUBSET Prompts,
                        max_age : Nat \cup {None}]
    /\ {ReturnToMaxAge, ParTTL, MaxTime, MaxPushes} \subseteq Nat

VARIABLES
    now,     \* the clock
    cookie,  \* the session
    par,     \* ParStore._entries: request_uri -> entry
    pushed,  \* observation: every request pushed, in order
    tab,     \* each tab: where it is, what it has sent, the cookie it sent
    code,    \* the code the last step issued, with the request it answers
    spent,   \* observation: the pushed requests that have yielded a code
    late,    \* observation: requests sent before a login whose redirect is open
    overtaken \* observation: redirects and their requests that one of those overtook

observed == <<late, overtaken>>

vars == <<now, cookie, par, pushed, tab, code, spent, observed>>

(* The parameters of an authorization request that decide its course; uri 0 *)
(* is "no request_uri".  first records the request the user began with, and *)
(* asked whether it has been sent to the login page.                        *)
Params == [client : Clients, uri : Nat, prompt : SUBSET Prompts, max_age : Nat \cup {None}]

Request == [params : Params, first : Params, since : Nat, asked : BOOLEAN]

(* csrf_token, provider and pkce_verifier of a social login under way;      *)
(* verifier 0 is none.                                                      *)
Attempt == [state : Nat, provider : STRING, verifier : Nat]

Session ==
    [user         : Users \cup {None},
     auth_time    : Nat,
     return_to    : Request \cup {None},
     return_to_ts : Nat,
     social       : Attempt \cup {None}]

Entry == [client : Clients, created_at : Nat]

Empty == [user |-> None, auth_time |-> 0, return_to |-> None, return_to_ts |-> 0,
          social |-> None]

Code == [req : Request, user : Users, auth_time : Nat, at : Nat, overtaken : BOOLEAN]

NoCode == code' = None /\ UNCHANGED spent

(* A tab without an authorization request, and the cookie it sent.          *)
Page(at, sess) == [at |-> at, req |-> None, sess |-> sess]

Closed == Page("closed", Empty)

(* GET /oauth/authorize on its way with the cookie sess.                    *)
Sent(q, sess) ==
    [at |-> IF q.params.uri = 0 THEN "authorize" ELSE "sent", req |-> q, sess |-> sess]

(* The redirect to the pending request q, not yet followed.                 *)
Redirected(q) == [at |-> "redirected", req |-> q, sess |-> Empty]

TypeOK ==
    /\ now \in Nat
    /\ cookie \in Session
    /\ DOMAIN par \subseteq DOMAIN pushed
    /\ \A uri \in DOMAIN par : par[uri] \in Entry
    /\ pushed \in Seq(Entry)
    /\ \A t \in Tabs : /\ tab[t].at \in {"closed", "sent", "authorize", "login", "posted",
                                         "redirected", "logout", "social", "away"}
                       /\ tab[t].req \in Request \cup {None}
                       /\ tab[t].sess \in Session
    /\ code \in Code \cup {None}
    /\ spent \subseteq DOMAIN pushed
    /\ late \subseteq Tabs /\ overtaken \subseteq Tabs

Init ==
    /\ now = 0
    /\ cookie = Empty
    /\ par = <<>>
    /\ pushed = <<>>
    /\ tab = [t \in Tabs |-> Closed]
    /\ code = None
    /\ spent = {}
    /\ late = {} /\ overtaken = {}
-----------------------------------------------------------------------------
(* ParStore._sweep_expired.                                                 *)
SweepExpired == Without(par, {uri \in DOMAIN par : now - par[uri].created_at >= ParTTL})

(* POST /oauth/par, once the client is authenticated.                       *)
Push(c) ==
    LET entry == [client |-> c, created_at |-> now] IN
    /\ Len(pushed) < MaxPushes
    /\ pushed' = Append(pushed, entry)
    /\ par' = With(SweepExpired, Len(pushed) + 1, entry)
    /\ NoCode
    /\ UNCHANGED <<now, cookie, tab>>

(* Mutant of Take: the entry stays.                                         *)
TakeKeeps(uri) == par' = SweepExpired

(* ParStore.take: sweep, then pop.                                          *)
Take(uri) == par' = Without(SweepExpired, {uri})

(* The request_uri is known and was pushed by this client; it is consumed   *)
(* either way, and before anything else is looked at.                       *)
Resolved(p) == p.uri \in DOMAIN SweepExpired /\ par[p.uri].client = p.client
-----------------------------------------------------------------------------
(* A client sends the user's browser to /oauth/authorize.                   *)
Visit(t, p) ==
    /\ tab[t].at = "closed"
    /\ tab' = [tab EXCEPT ![t] =
         Sent([params |-> p, first |-> p, since |-> now, asked |-> FALSE], cookie)]
    /\ NoCode
    /\ UNCHANGED <<now, cookie, par, pushed>>

(* The answer of a handler that leaves the session alone: SessionMiddleware *)
(* may send the copy back as it came, unless it is empty.                   *)
Unmodified(t) == cookie' \in {cookie} \cup ({tab[t].sess} \ {Empty})

ForceLogin(p) == p.prompt \cap {"login", "select_account"} # {}

(* Mutant of AuthExpired: an old login is young for ever.                   *)
AuthExpiredNever(s, p) == p.max_age # None /\ s.user = None

(* max_age: no auth_time, or one that is too old.                           *)
AuthExpired(s, p) ==
    p.max_age # None /\ (s.user = None \/ now - s.auth_time >= p.max_age)

NeedsLogin(s, p) == s.user = None \/ ForceLogin(p) \/ AuthExpired(s, p)

NoneMixed(p) == "none" \in p.prompt /\ Cardinality(p.prompt) > 1

(* Mutant of StripReauthParams: nothing is dropped.                         *)
StripNothing(p) == p

(* _strip_reauth_params.                                                    *)
StripReauthParams(p) == [p EXCEPT !.prompt = @ \ {"login"}, !.max_age = None]

(* The pushed request is taken, and the checks of the handler follow.       *)
TakePushed(t) ==
    LET p == tab[t].req.params IN
    /\ tab[t].at = "sent"
    /\ Resolved(p)
    /\ Take(p.uri)
    /\ tab' = [tab EXCEPT ![t].at = "authorize"]
    /\ NoCode
    /\ UNCHANGED <<now, cookie, pushed>>

(* The request_uri is unknown, expired or another client's.                 *)
UnknownUri(t) ==
    LET p == tab[t].req.params IN
    /\ tab[t].at = "sent"
    /\ ~Resolved(p)
    /\ Take(p.uri)
    /\ Unmodified(t)
    /\ tab' = [tab EXCEPT ![t] = Closed]
    /\ NoCode
    /\ UNCHANGED <<now, pushed>>

(* An error shown to the user: a parameter is repeated, which is looked at  *)
(* first of all, or the client, its state, request object, redirect_uri or  *)
(* response_mode is bad.                                                    *)
ErrorPage(t) ==
    /\ tab[t].at \in {"sent", "authorize"}
    /\ Unmodified(t)
    /\ tab' = [tab EXCEPT ![t] = Closed]
    /\ NoCode
    /\ UNCHANGED <<now, par, pushed>>

(* An error delivered to the client through the redirect: a bad grant,      *)
(* response_type, nonce, scope, PKCE, resource, claims or dpop_jkt, or a    *)
(* session whose acr does not satisfy acr_values.                           *)
ErrorRedirect(t) ==
    /\ tab[t].at = "authorize"
    /\ Unmodified(t)
    /\ tab' = [tab EXCEPT ![t] = Closed]
    /\ NoCode
    /\ UNCHANGED <<now, par, pushed>>

(* prompt=none with another value, or with a login needed.                  *)
LoginRequired(t) ==
    LET p == tab[t].req.params IN
    /\ tab[t].at = "authorize"
    /\ NoneMixed(p) \/ ("none" \in p.prompt /\ NeedsLogin(tab[t].sess, p))
    /\ Unmodified(t)
    /\ tab' = [tab EXCEPT ![t] = Closed]
    /\ NoCode
    /\ UNCHANGED <<now, par, pushed>>

(* The request goes into the cookie and the browser to the login page.      *)
AskLogin(t) ==
    LET q == tab[t].req
        p == q.params
    IN  /\ tab[t].at = "authorize"
        /\ "none" \notin p.prompt
        /\ NeedsLogin(tab[t].sess, p)
        /\ cookie' = [tab[t].sess EXCEPT
             !.return_to = [q EXCEPT !.params = StripReauthParams(p), !.asked = TRUE],
             !.return_to_ts = now]
        /\ tab' = [tab EXCEPT ![t] = Page("login", Empty)]
        /\ NoCode
        /\ UNCHANGED <<now, par, pushed>>

(* issue_code and the success response.                                     *)
Grant(t) ==
    LET p == tab[t].req.params IN
    /\ tab[t].at = "authorize"
    /\ ~NoneMixed(p)
    /\ ~NeedsLogin(tab[t].sess, p)
    /\ code' = [req |-> tab[t].req, user |-> tab[t].sess.user,
                auth_time |-> tab[t].sess.auth_time, at |-> now, overtaken |-> t \in overtaken]
    /\ spent' = spent \cup ({p.uri} \ {0})
    /\ Unmodified(t)
    /\ tab' = [tab EXCEPT ![t] = Closed]
    /\ UNCHANGED <<now, par, pushed>>
-----------------------------------------------------------------------------
(* GET /auth/login without a request.                                       *)
OpenLogin(t) ==
    /\ tab[t].at = "closed"
    /\ tab' = [tab EXCEPT ![t] = Page("login", Empty)]
    /\ NoCode
    /\ UNCHANGED <<now, cookie, par, pushed>>

(* The login form, or GET /oauth/logout, is sent with the current cookie.   *)
Send(t, from, to) ==
    /\ tab[t].at = from
    /\ tab' = [tab EXCEPT ![t] = Page(to, cookie)]
    /\ NoCode
    /\ UNCHANGED <<now, cookie, par, pushed>>

(* set_login: what was in the session before is gone.                       *)
SetLogin(u) ==
    [user |-> u, auth_time |-> now, return_to |-> None, return_to_ts |-> 0, social |-> None]

(* POST /auth/login with the right password: the answer redirects to the    *)
(* pending request when that is recent, in whichever tab logs in.           *)
Login(t, u) ==
    LET s == tab[t].sess
        fresh == s.return_to # None /\ now - s.return_to_ts <= ReturnToMaxAge
    IN  /\ tab[t].at = "posted"
        /\ cookie' = SetLogin(u)
        /\ tab' = [tab EXCEPT ![t] =
             IF fresh THEN Redirected(s.return_to) ELSE Closed]
        /\ NoCode
        /\ UNCHANGED <<now, par, pushed>>

(* The browser follows the redirect with the cookie it holds now.           *)
Resume(t) ==
    /\ tab[t].at = "redirected"
    /\ tab' = [tab EXCEPT ![t] = Sent(tab[t].req, cookie)]
    /\ NoCode
    /\ UNCHANGED <<now, cookie, par, pushed>>

(* A login that fails, throttled or with wrong credentials.                 *)
LoginFails(t) ==
    /\ tab[t].at = "posted"
    /\ Unmodified(t)
    /\ tab' = [tab EXCEPT ![t] = Page("login", Empty)]
    /\ NoCode
    /\ UNCHANGED <<now, par, pushed>>

(* GET /oauth/logout purges the session, also when the place to go to       *)
(* afterwards is refused.                                                   *)
Logout(t) ==
    /\ tab[t].at = "logout"
    /\ cookie' = IF tab[t].sess = Empty THEN cookie ELSE Empty
    /\ tab' = [tab EXCEPT ![t] = Closed]
    /\ NoCode
    /\ UNCHANGED <<now, par, pushed>>

(* An id_token_hint that does not verify, or whose audience is no client,   *)
(* ends the logout before the purge.                                        *)
LogoutFails(t) ==
    /\ tab[t].at = "logout"
    /\ Unmodified(t)
    /\ tab' = [tab EXCEPT ![t] = Closed]
    /\ NoCode
    /\ UNCHANGED <<now, par, pushed>>

(* The user leaves the login page.                                          *)
Abandon(t) ==
    /\ tab[t].at = "login"
    /\ tab' = [tab EXCEPT ![t] = Closed]
    /\ NoCode
    /\ UNCHANGED <<now, cookie, par, pushed>>

Tick ==
    /\ now < MaxTime
    /\ now' = now + 1
    /\ NoCode
    /\ UNCHANGED <<cookie, par, pushed, tab>>

FlowNext(visits) ==
    \/ \E c \in Clients : Push(c)
    \/ \E t \in Tabs :
          \/ \E v \in visits : \E uri \in IF v.pushed THEN DOMAIN pushed ELSE {0} :
                Visit(t, [client |-> v.client, uri |-> uri, prompt |-> v.prompt,
                          max_age |-> v.max_age])
          \/ TakePushed(t) \/ UnknownUri(t)
          \/ ErrorPage(t) \/ ErrorRedirect(t) \/ LoginRequired(t) \/ AskLogin(t) \/ Grant(t)
          \/ OpenLogin(t)
          \/ Send(t, "login", "posted")
          \/ \E u \in Locals : Login(t, u)
          \/ LoginFails(t) \/ Resume(t)
          \/ Send(t, "closed", "logout")
          \/ Logout(t) \/ LogoutFails(t)
          \/ Abandon(t)
    \/ Tick

(* A session with no user, or one who logged in at time n or later.         *)
Recent(s, n) == s.user = None \/ s.auth_time >= n

(* A request of this tab is with the server.                                *)
Awaits(x) == x.at \in {"sent", "authorize", "posted", "logout", "social"}

(* A login makes every other request under way late.  A redirect is         *)
(* overtaken when the answer of a late request puts a session back that is  *)
(* older than the request the redirect leads to.                            *)
Observe ==
    /\ late' = {s \in Tabs :
         /\ Awaits(tab[s]) /\ Awaits(tab'[s])
         /\ \E t \in Tabs : tab'[t].at = "redirected" /\ (s \in late \/ tab[t].at # "redirected")}
    /\ overtaken' = {t \in Tabs :
         /\ tab'[t].at \in {"redirected", "sent", "authorize"}
         /\ \/ t \in overtaken
            \/ /\ tab[t].at = "redirected"
               /\ ~Recent(cookie', tab[t].req.since)
               /\ \E s \in late : tab'[s] # tab[s]}

Next == FlowNext(Visits) /\ Observe

Spec == Init /\ [][Next]_vars
-----------------------------------------------------------------------------
(* A request that asked for a new login, or for one no older than max_age,  *)
(* gets a code only from a session that logged in after the request was     *)
(* made or is young enough, although the URL replayed after the login no    *)
(* longer says so, and the cookie is shared with other tabs.  There is one  *)
(* way round it: a request that another tab sent before the login, answered *)
(* while the browser follows the redirect, puts the older session back, and *)
(* the stripped URL is granted on that.                                     *)
ReauthHonoured ==
    code # None =>
        LET q == code.req IN
        /\ ForceLogin(q.first) => code.auth_time >= q.since \/ code.overtaken
        /\ q.first.max_age # None
           => \/ code.auth_time >= q.since \/ code.overtaken
              \/ code.at - code.auth_time < q.first.max_age

(* A pushed request yields at most one code, for the client that pushed it; *)
(* it is taken less than PAR_TTL_SECS after it was pushed.  The handler     *)
(* awaits between the take and the code, and other requests present the     *)
(* same request_uri meanwhile.                                              *)
PushedOnce ==
    [][/\ (code' # None /\ code'.req.params.uri # 0) =>
             LET uri == code'.req.params.uri IN
             uri \notin spent /\ pushed[uri].client = code'.req.params.client
       /\ \A t \in Tabs :
             (tab[t].at = "sent" /\ tab'[t].at = "authorize")
             => now - pushed[tab[t].req.params.uri].created_at < ParTTL]_vars

(* A request that comes back from the login page is not sent there again    *)
(* while the session lasts (_strip_reauth_params, authorize.py:137:         *)
(* "otherwise replaying it after re-authentication would immediately force  *)
(* another re-login").  prompt=select_account, which forces a login and is  *)
(* not stripped, is the exception: it comes back to the login page.         *)
NoLoginLoop ==
    [][\A t \in Tabs :
          (tab[t].at = "authorize" /\ tab[t].req.asked /\ tab'[t].at = "login")
          => tab[t].sess.user = None \/ "select_account" \in tab[t].req.first.prompt]_vars
=============================================================================
