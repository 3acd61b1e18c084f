-------------------------- MODULE AuthorizeProofs ---------------------------
(***************************************************************************)
(* Proofs about AuthorizeFlow and SocialLogin together: every theorem is   *)
(* about SocialSpec, in which password logins, sign-ins through providers, *)
(* logouts and authorization requests of all tabs share the cookie.        *)
(***************************************************************************)
EXTENDS SocialLogin, TLAPS

allVars == <<vars, socialVars>>
-----------------------------------------------------------------------------
(***************************************************************************)
(* Requests and sessions.                                                  *)
(***************************************************************************)

(* A request that has been to the login page by time n: what forced it      *)
(* there is gone from its parameters, but for select_account.               *)
Resumable(q, n) ==
    /\ q \in Request
    /\ q.asked
    /\ q.since <= n
    /\ q.params.max_age = None
    /\ q.params.prompt \subseteq q.first.prompt \ {"login"}

(* A session at time n carries at most such a request.                      *)
Carries(s, n) ==
    /\ s = [user |-> s.user, auth_time |-> s.auth_time, return_to |-> s.return_to,
            return_to_ts |-> s.return_to_ts, social |-> s.social]
    /\ s.auth_time \in Nat
    /\ s.return_to # None => Resumable(s.return_to, n)

(* A request on its way: resumed after a login, or as the client made it.   *)
Underway(q, n) ==
    /\ q \in Request
    /\ q.since <= n
    /\ q.asked => Resumable(q, n)
    /\ ~q.asked => q.params = q.first

Placed(x, n) ==
    /\ x = [at |-> x.at, req |-> x.req, sess |-> x.sess]
    /\ Carries(x.sess, n)
    /\ x.at \in {"sent", "authorize"} => Underway(x.req, n)
    /\ x.at = "redirected" => Resumable(x.req, n)

Sessions ==
    /\ now \in Nat
    /\ DOMAIN pushed \subseteq Nat
    /\ Carries(cookie, now)
    /\ tab = [t \in Tabs |-> tab[t]]
    /\ \A t \in Tabs : Placed(tab[t], now)

TripShape(y) ==
    y = [at |-> y.at, provider |-> y.provider, state |-> y.state, account |-> y.account,
         probe |-> y.probe]

(* A redirect that no late answer overtook: the cookie is no older than the *)
(* request it leads to, nor is any session that was sent since the login;   *)
(* and so the request resumed carries such a session.                       *)
Timely ==
    /\ \A t \in Tabs :
          tab[t].at = "redirected" /\ t \notin overtaken =>
             /\ Recent(cookie, tab[t].req.since)
             /\ \A s \in Tabs : Awaits(tab[s]) /\ s \notin late
                                => Recent(tab[s].sess, tab[t].req.since)
    /\ \A t \in Tabs :
          tab[t].at \in {"sent", "authorize"} /\ tab[t].req.asked /\ t \notin overtaken
          => Recent(tab[t].sess, tab[t].req.since)

(* The handler of a trip works in a tab that does nothing else.             *)
OnTrip ==
    /\ trip = [t \in Tabs |-> trip[t]]
    /\ \A t \in Tabs :
          /\ TripShape(trip[t])
          /\ trip[t].at = "provider" => tab[t].at = "away"
          /\ trip[t].at \notin {"none", "provider"} => tab[t].at = "social"
          /\ trip[t].at \in {"unknown", "unlinked"} => trip[t].account \in Accounts

(* The PAR store holds pushed requests that have yielded no code.           *)
Unspent ==
    /\ pushed \in Seq(Entry)
    /\ spent \subseteq DOMAIN pushed
    /\ \A uri \in DOMAIN par :
          uri \in DOMAIN pushed /\ par[uri] = pushed[uri] /\ uri \notin spent

(* The request a handler has taken belongs to it alone.                     *)
Claimed ==
    /\ \A t \in Tabs :
          LET p == tab[t].req.params IN
          tab[t].at = "authorize" /\ p.uri # 0 =>
             /\ p.uri \in DOMAIN pushed /\ p.uri \notin spent /\ p.uri \notin DOMAIN par
             /\ pushed[p.uri].client = p.client
    /\ \A s, t \in Tabs :
          /\ tab[s].at = "authorize" /\ tab[t].at = "authorize"
          /\ tab[s].req.params.uri = tab[t].req.params.uri /\ tab[t].req.params.uri # 0
          => s = t

(* A row named after an account has its address, and is the only one.       *)
Owned ==
    /\ \A u \in DOMAIN rows :
          /\ rows[u] = [owner |-> rows[u].owner, email |-> rows[u].email,
                        linkable |-> rows[u].linkable]
          /\ rows[u].owner # None => rows[u].email = rows[u].owner.email
    /\ \A u, v \in DOMAIN rows :
          rows[u].owner = rows[v].owner /\ rows[u].owner # None => u = v

(* A breaker at time n: it knows of no probe while closed; probes are one   *)
(* cool-down apart, and the cool-down has begun anew since the last, unless *)
(* that holds the slot.                                                     *)
Sound(b, n) ==
    /\ b \in Breaker
    /\ b.opened_at <= n
    /\ ~b.open => b.probes = <<>> /\ ~b.probe_in_flight
    /\ \A i \in 1..(Len(b.probes) - 1) : b.probes[i + 1] - b.probes[i] >= Cooldown
    /\ b.probes # <<>> =>
          /\ b.probes[Len(b.probes)] <= n
          /\ ~b.probe_in_flight => b.probes[Len(b.probes)] <= b.opened_at

(* Every provider's breaker is sound, and its slot is taken by a probe.     *)
Probing ==
    /\ now \in Nat
    /\ breaker = [p \in Providers |-> breaker[p]]
    /\ \A p \in Providers :
          /\ Sound(breaker[p], now)
          /\ breaker[p].probe_in_flight
             => \E t \in Tabs : trip[t].at = "fetching" /\ trip[t].provider = p /\ trip[t].probe
-----------------------------------------------------------------------------
(* What holds of a session or a tab at a time holds of it later.            *)
LEMMA CarriesLater ==
  ASSUME NEW s, NEW n \in Nat, NEW m \in Nat, n <= m, Carries(s, n)
  PROVE  Carries(s, m)
BY DEF Carries, Resumable, Request

LEMMA PlacedLater ==
  ASSUME NEW x, NEW n \in Nat, NEW m \in Nat, n <= m, Placed(x, n)
  PROVE  Placed(x, m)
<1>1. Carries(x.sess, m)
  BY CarriesLater DEF Placed
<1>2. x.at \in {"sent", "authorize"} => Underway(x.req, m)
  BY DEF Placed, Underway, Resumable, Request
<1>3. x.at = "redirected" => Resumable(x.req, m)
  BY DEF Placed, Resumable, Request
<1> QED BY <1>1, <1>2, <1>3 DEF Placed

(* The sessions a handler answers with.                                     *)
LEMMA EmptyCarries ==
  ASSUME NEW n
  PROVE  Carries(Empty, n)
BY DEF Carries, Empty

LEMMA LoginCarries ==
  ASSUME now \in Nat, NEW u
  PROVE  Carries(SetLogin(u), now) /\ SetLogin(u).auth_time = now
BY DEF Carries, SetLogin

LEMMA UnmodifiedCarries ==
  ASSUME Sessions, NEW t \in Tabs, Unmodified(t)
  PROVE  Carries(cookie', now)
BY DEF Sessions, Placed, Unmodified

(* A tab that is not on its way with a request.                             *)
LEMMA AsidePlaced ==
  ASSUME NEW at, at \notin {"sent", "authorize", "redirected"}, NEW s, NEW n, Carries(s, n)
  PROVE  Placed(Page(at, s), n)
BY DEF Placed, Page

LEMMA ClosedPlaced ==
  ASSUME NEW n
  PROVE  Placed(Closed, n)
BY EmptyCarries DEF Placed, Closed, Page

(* A request that is sent, and the redirect to one.                         *)
LEMMA SentPlaced ==
  ASSUME NEW n, NEW q, Underway(q, n), NEW s, Carries(s, n)
  PROVE  Placed(Sent(q, s), n)
<1>1. /\ Sent(q, s) = [at |-> Sent(q, s).at, req |-> q, sess |-> s]
      /\ Sent(q, s).at \in {"sent", "authorize"}
  BY DEF Sent
<1> HIDE DEF Sent
<1> QED BY <1>1 DEF Placed

LEMMA RedirectedPlaced ==
  ASSUME NEW n, NEW q, Resumable(q, n)
  PROVE  Placed(Redirected(q), n)
BY EmptyCarries DEF Placed, Redirected

(* A step that moves one tab.                                               *)
LEMMA MoveKeeps ==
  ASSUME Sessions, NEW t \in Tabs, NEW x, tab' = [tab EXCEPT ![t] = x], Placed(x, now),
         Carries(cookie', now), UNCHANGED <<now, pushed>>
  PROVE  Sessions'
<1>1. \A s \in Tabs : tab'[s] = IF s = t THEN x ELSE tab[s]
  BY DEF Sessions
<1>2. tab' = [s \in Tabs |-> tab'[s]]
  BY DEF Sessions
<1>3. \A s \in Tabs : Placed(tab'[s], now)
  BY <1>1 DEF Sessions
<1> QED BY <1>2, <1>3 DEF Sessions

(* The request whose request_uri resolves.                                  *)
LEMMA TakenPlace ==
  ASSUME Sessions, NEW t \in Tabs, TakePushed(t)
  PROVE  tab' = [tab EXCEPT ![t] = [at |-> "authorize", req |-> tab[t].req, sess |-> tab[t].sess]]
<1> DEFINE y == tab[t]
           z == [y EXCEPT !.at = "authorize"]
<1>1. tab' = [tab EXCEPT ![t] = z]
  BY Zenon DEF TakePushed
<1>2. y = [at |-> y.at, req |-> y.req, sess |-> y.sess]
  BY DEF Sessions, Placed
<1> HIDE DEF y
<1>3. z = [at |-> "authorize", req |-> y.req, sess |-> y.sess]
  BY <1>2
<1> QED BY Zenon, <1>1, <1>3 DEF y

(* The request that AskLogin puts into the cookie.                          *)
LEMMA AskedResumable ==
  ASSUME Sessions, NEW q, Underway(q, now)
  PROVE  Resumable([q EXCEPT !.params = StripReauthParams(q.params), !.asked = TRUE], now)
<1> DEFINE p == StripReauthParams(q.params)
           r == [q EXCEPT !.params = p, !.asked = TRUE]
<1>1. /\ q \in Request /\ q.params \in Params /\ q.first \in Params
      /\ q.since \in Nat /\ q.since <= now
  BY DEF Underway, Request
<1>2. /\ p \in Params /\ p.max_age = None
      /\ p.prompt = q.params.prompt \ {"login"}
  BY Zenon, <1>1 DEF StripReauthParams, Params
<1>3. q.params.prompt \subseteq q.first.prompt
  <2>1. q.asked => q.params.prompt \subseteq q.first.prompt
    BY DEF Underway, Resumable
  <2>2. ~q.asked => q.params.prompt \subseteq q.first.prompt
    BY DEF Underway
  <2> QED BY <2>1, <2>2
<1> HIDE DEF p
<1>4. /\ r \in Request /\ r.params = p /\ r.first = q.first
      /\ r.asked = TRUE /\ r.since = q.since
  BY Zenon, <1>1, <1>2 DEF Request
<1> HIDE DEF r
<1>5. Resumable(r, now)
  BY <1>1, <1>2, <1>3, <1>4 DEF Resumable
<1> QED BY <1>5 DEF r, p

(* What a login does to the cookie and its tab, by password or otherwise.   *)
Turned(t, u) ==
    /\ cookie' = SetLogin(u)
    /\ \/ tab' = [tab EXCEPT ![t] = Closed]
       \/ /\ tab[t].sess.return_to # None
          /\ tab' = [tab EXCEPT ![t] = Redirected(tab[t].sess.return_to)]

LEMMA LoginKeeps ==
  ASSUME Sessions, NEW t \in Tabs, NEW u, Turned(t, u), UNCHANGED <<now, pushed>>
  PROVE  Sessions'
<1> DEFINE q == tab[t].sess.return_to
<1>1. Carries(tab[t].sess, now) /\ Carries(SetLogin(u), now)
  BY LoginCarries DEF Sessions, Placed
<1>2. CASE tab' = [tab EXCEPT ![t] = Closed]
  BY Zenon, <1>1, <1>2, ClosedPlaced, MoveKeeps DEF Turned
<1>3. CASE q # None /\ tab' = [tab EXCEPT ![t] = Redirected(q)]
  <2>1. Resumable(q, now)
    BY <1>1, <1>3 DEF Carries
  <2> QED BY Zenon, <1>1, <1>3, <2>1, RedirectedPlaced, MoveKeeps DEF Turned
<1> QED BY Zenon, <1>2, <1>3 DEF Turned

(* Sending, answering and logging in with a password.                       *)
LEMMA FlowSessions ==
  ASSUME Sessions, FlowNext(Visits), pushed \in Seq(Entry)
  PROVE  Sessions'
<1>0. now \in Nat /\ Carries(cookie, now) /\ DOMAIN pushed \subseteq Nat
  BY DEF Sessions
<1>1. ASSUME NEW c \in Clients, Push(c)
      PROVE  Sessions'
  <2>1. UNCHANGED <<now, cookie, tab>> /\ pushed' = Append(pushed, [client |-> c, created_at |-> now])
    BY <1>1 DEF Push
  <2>2. DOMAIN pushed' \subseteq Nat
    BY <2>1
  <2> QED BY <2>1, <2>2 DEF Sessions
<1>2. CASE Tick
  <2>1. UNCHANGED <<cookie, tab, pushed>> /\ now' \in Nat /\ now <= now'
    BY <1>0, <1>2 DEF Tick
  <2>2. Carries(cookie', now') /\ \A t \in Tabs : Placed(tab'[t], now')
    BY <1>0, <2>1, CarriesLater, PlacedLater DEF Sessions
  <2> QED BY <2>1, <2>2 DEF Sessions
<1>3. ASSUME NEW t \in Tabs, NEW v \in Visits, NEW uri \in IF v.pushed THEN DOMAIN pushed ELSE {0},
             Visit(t, [client |-> v.client, uri |-> uri, prompt |-> v.prompt,
                       max_age |-> v.max_age])
      PROVE  Sessions'
  <2> DEFINE p == [client |-> v.client, uri |-> uri, prompt |-> v.prompt, max_age |-> v.max_age]
             q == [params |-> p, first |-> p, since |-> now, asked |-> FALSE]
             x == Sent(q, cookie)
  <2>1. p \in Params
    BY <1>0, AuthorizeAssumption DEF Params
  <2>2. tab' = [tab EXCEPT ![t] = x] /\ UNCHANGED <<now, cookie, pushed>>
    BY <1>3 DEF Visit
  <2> HIDE DEF p
  <2>3. q \in Request
    BY <1>0, <2>1 DEF Request
  <2>4. Underway(q, now)
    BY <1>0, <2>3 DEF Underway
  <2> HIDE DEF q
  <2>5. Placed(x, now)
    BY Zenon, <1>0, <2>4, SentPlaced
  <2> HIDE DEF x
  <2> QED BY Zenon, <1>0, <2>2, <2>5, MoveKeeps
<1>4. ASSUME NEW t \in Tabs,
             \/ UnknownUri(t) \/ ErrorPage(t) \/ ErrorRedirect(t)
             \/ LoginRequired(t) \/ Grant(t) \/ LogoutFails(t)
      PROVE  Sessions'
  <2>1. Unmodified(t) /\ tab' = [tab EXCEPT ![t] = Closed] /\ UNCHANGED <<now, pushed>>
    BY Zenon, <1>4 DEF UnknownUri, ErrorPage, ErrorRedirect, LoginRequired, Grant, LogoutFails
  <2> QED BY Zenon, <2>1, UnmodifiedCarries, ClosedPlaced, MoveKeeps
<1>5. ASSUME NEW t \in Tabs, AskLogin(t)
      PROVE  Sessions'
  <2> DEFINE q == tab[t].req
             s == tab[t].sess
             r == [q EXCEPT !.params = StripReauthParams(q.params), !.asked = TRUE]
  <2>1. /\ tab[t].at = "authorize"
        /\ cookie' = [s EXCEPT !.return_to = r, !.return_to_ts = now]
        /\ tab' = [tab EXCEPT ![t] = Page("login", Empty)]
        /\ UNCHANGED <<now, pushed>>
    BY <1>5 DEF AskLogin
  <2>2. Carries(s, now) /\ Underway(q, now)
    BY <2>1 DEF Sessions, Placed
  <2>3. Resumable(r, now)
    BY Zenon, <2>2, AskedResumable
  <2> HIDE DEF s, r
  <2>4. cookie' = [user |-> s.user, auth_time |-> s.auth_time, return_to |-> r,
                   return_to_ts |-> now, social |-> s.social]
    BY Zenon, <2>1, <2>2 DEF Carries
  <2>5. Carries(cookie', now)
    BY <2>2, <2>3, <2>4 DEF Carries
  <2>6. Placed(Page("login", Empty), now)
    BY EmptyCarries, AsidePlaced
  <2> QED BY Zenon, <2>1, <2>5, <2>6, MoveKeeps
<1>6. ASSUME NEW t \in Tabs, NEW at, at \notin {"sent", "authorize", "redirected"},
             NEW s, Carries(s, now),
             tab' = [tab EXCEPT ![t] = Page(at, s)],
             Carries(cookie', now), UNCHANGED <<now, pushed>>
      PROVE  Sessions'
  BY Zenon, <1>6, AsidePlaced, MoveKeeps
<1>7. ASSUME NEW t \in Tabs, OpenLogin(t) \/ LoginFails(t)
      PROVE  Sessions'
  <2>1. /\ tab' = [tab EXCEPT ![t] = Page("login", Empty)]
        /\ cookie' = cookie \/ Unmodified(t)
        /\ UNCHANGED <<now, pushed>>
    BY <1>7 DEF OpenLogin, LoginFails
  <2> QED BY Zenon, <1>0, <1>6, <2>1, UnmodifiedCarries, EmptyCarries
<1>8. ASSUME NEW t \in Tabs, Send(t, "login", "posted") \/ Send(t, "closed", "logout")
      PROVE  Sessions'
  BY Zenon, <1>0, <1>6, <1>8 DEF Send
<1>9. ASSUME NEW t \in Tabs, NEW u, Login(t, u)
      PROVE  Sessions'
  <2>1. Turned(t, u) /\ UNCHANGED <<now, pushed>>
    BY Zenon, <1>9 DEF Login, Turned
  <2> QED BY <2>1, LoginKeeps
<1>10. ASSUME NEW t \in Tabs, Logout(t) \/ Abandon(t)
       PROVE  Sessions'
  <2>1. /\ tab' = [tab EXCEPT ![t] = Closed] /\ cookie' \in {cookie, Empty}
        /\ UNCHANGED <<now, pushed>>
    BY <1>10 DEF Logout, Abandon
  <2> QED BY Zenon, <1>0, <2>1, EmptyCarries, ClosedPlaced, MoveKeeps
<1>11. ASSUME NEW t \in Tabs, TakePushed(t)
       PROVE  Sessions'
  <2> DEFINE x == [at |-> "authorize", req |-> tab[t].req, sess |-> tab[t].sess]
  <2>1. tab' = [tab EXCEPT ![t] = x]
    BY Zenon, <1>11, TakenPlace
  <2>2. tab[t].at = "sent" /\ UNCHANGED <<now, cookie, pushed>>
    BY Zenon, <1>11 DEF TakePushed
  <2>3. Placed(x, now)
    BY <2>2 DEF Sessions, Placed
  <2> HIDE DEF x
  <2> QED BY Zenon, <1>0, <2>1, <2>2, <2>3, MoveKeeps
<1>12. ASSUME NEW t \in Tabs, Resume(t)
       PROVE  Sessions'
  <2>1. /\ tab[t].at = "redirected" /\ UNCHANGED <<now, cookie, pushed>>
        /\ tab' = [tab EXCEPT ![t] = Sent(tab[t].req, cookie)]
    BY Zenon, <1>12 DEF Resume
  <2>2. Underway(tab[t].req, now)
    BY <2>1 DEF Sessions, Placed, Underway, Resumable
  <2> QED BY Zenon, <1>0, <2>1, <2>2, SentPlaced, MoveKeeps
<1> QED
  BY Zenon, <1>1, <1>2, <1>3, <1>4, <1>5, <1>7, <1>8, <1>9, <1>10, <1>11, <1>12 DEF FlowNext

(* A sign-in through a provider is such a login.                            *)
LEMMA SignInTurns ==
  ASSUME NEW t, NEW a, NEW u, SignIn(t, a, u)
  PROVE  Turned(t, u)
BY Zenon DEF SignIn, Turned

LEMMA SignInKeeps ==
  ASSUME Sessions, NEW t \in Tabs, NEW a, NEW u, SignIn(t, a, u), UNCHANGED <<now, pushed>>
  PROVE  Sessions'
BY SignInTurns, LoginKeeps

(* The step of a trip touches its own tab, and the clock stands still.      *)
LEMMA TripSessions ==
  ASSUME Sessions, OnTrip, Trips
  PROVE  Sessions'
<1>0. now \in Nat /\ Carries(cookie, now) /\ \A t \in Tabs : Carries(tab[t].sess, now)
  BY DEF Sessions, Placed
<1>1. ASSUME NEW t \in Tabs, NEW p \in Providers, Follow(t, p)
      PROVE  Sessions'
  <2>1. tab' = [tab EXCEPT ![t] = Page("social", cookie)] /\ UNCHANGED <<now, cookie, pushed>>
    BY <1>1 DEF Follow
  <2> QED BY Zenon, <1>0, <2>1, AsidePlaced, MoveKeeps
<1>2. ASSUME NEW t \in Tabs, Start(t)
      PROVE  Sessions'
  <2> DEFINE s == tab[t].sess
             a == Attempted(trip[t].provider)
  <2>1. /\ trip[t].at = "starting"
        /\ cookie' = [s EXCEPT !.social = a]
        /\ tab' = [tab EXCEPT ![t] = Page("away", Empty)]
        /\ UNCHANGED <<now, pushed>>
    BY <1>2 DEF Start
  <2> HIDE DEF s, a
  <2>2. Carries(s, now)
    BY <1>0 DEF s
  <2>3. cookie' = [user |-> s.user, auth_time |-> s.auth_time, return_to |-> s.return_to,
                   return_to_ts |-> s.return_to_ts, social |-> a]
    BY <2>1, <2>2 DEF Carries
  <2>4. Carries(cookie', now)
    BY <2>2, <2>3 DEF Carries
  <2> QED BY Zenon, <2>1, <2>4, EmptyCarries, AsidePlaced, MoveKeeps
<1>3. ASSUME NEW t \in Tabs, Return(t)
      PROVE  Sessions'
  <2>1. tab' = [tab EXCEPT ![t] = Page("social", cookie)] /\ UNCHANGED <<now, cookie, pushed>>
    BY <1>3 DEF Return
  <2> QED BY Zenon, <1>0, <2>1, AsidePlaced, MoveKeeps
<1>4. ASSUME NEW t \in Tabs, Refuse(t)
      PROVE  Sessions'
  BY Zenon, <1>4, UnmodifiedCarries, ClosedPlaced, MoveKeeps DEF Refuse
<1>5. ASSUME NEW t \in Tabs, CallbackFails(t) \/ BreakerRefuses(t) \/ FetchFails(t)
      PROVE  Sessions'
  BY <1>4, <1>5 DEF CallbackFails, BreakerRefuses, FetchFails
<1>6. ASSUME NEW t \in Tabs, Leave(t) \/ ProvisionFails(t)
      PROVE  Sessions'
  <2>1. tab' = [tab EXCEPT ![t] = Closed] /\ UNCHANGED <<now, cookie, pushed>>
    BY <1>6 DEF Leave, ProvisionFails
  <2> QED BY Zenon, <1>0, <2>1, ClosedPlaced, MoveKeeps
<1>7. CASE UNCHANGED <<now, cookie, pushed, tab>>
  BY <1>7 DEF Sessions
<1>8. ASSUME NEW t \in Tabs, Fetch(t)
      PROVE  Sessions'
  BY <1>7, <1>8 DEF Fetch
<1>9. ASSUME NEW u, Edit(u)
      PROVE  Sessions'
  BY <1>7, <1>9 DEF Edit
<1>10. ASSUME NEW t \in Tabs, NEW a, FetchSucceeds(t, a)
       PROVE  Sessions'
  <2>1. UNCHANGED <<now, pushed>> /\ ((\E u : SignIn(t, a, u)) \/ UNCHANGED <<cookie, tab>>)
    BY Zenon, <1>10 DEF FetchSucceeds
  <2> QED BY <1>7, <2>1, SignInKeeps
<1>11. ASSUME NEW t \in Tabs, Link(t)
       PROVE  Sessions'
  <2>1. UNCHANGED <<now, pushed>>
           /\ ((\E u : SignIn(t, trip[t].account, u)) \/ UNCHANGED <<cookie, tab>>)
    BY Zenon, <1>11 DEF Link
  <2> QED BY <1>7, <2>1, SignInKeeps
<1>12. ASSUME NEW t \in Tabs, Provision(t)
       PROVE  Sessions'
  <2>1. UNCHANGED <<now, pushed>> /\ \E u : SignIn(t, trip[t].account, u)
    BY Zenon, <1>12 DEF Provision
  <2> QED BY <2>1, SignInKeeps
<1> QED
  BY Zenon, <1>1, <1>2, <1>3, <1>5, <1>6, <1>8, <1>9, <1>10, <1>11, <1>12 DEF Trips
-----------------------------------------------------------------------------
(* A step of AuthorizeFlow moves only a tab that is on no trip.             *)
LEMMA FlowTab ==
  ASSUME FlowNext(Visits)
  PROVE  \/ tab' = tab
         \/ \E t \in Tabs : \E x : tab[t].at \notin {"social", "away"} /\ tab' = [tab EXCEPT ![t] = x]
<1>1. ASSUME NEW c, Push(c) PROVE tab' = tab
  BY <1>1 DEF Push
<1>2. ASSUME Tick PROVE tab' = tab
  BY <1>2 DEF Tick
<1>3. ASSUME NEW t \in Tabs, NEW p, Visit(t, p)
      PROVE  \E x : tab[t].at \notin {"social", "away"} /\ tab' = [tab EXCEPT ![t] = x]
  BY ZenonT(40), <1>3 DEF Visit
<1>4. ASSUME NEW t \in Tabs,
             \/ UnknownUri(t) \/ ErrorPage(t) \/ ErrorRedirect(t)
             \/ LoginRequired(t) \/ Grant(t) \/ LogoutFails(t)
      PROVE  \E x : tab[t].at \notin {"social", "away"} /\ tab' = [tab EXCEPT ![t] = x]
  BY <1>4 DEF UnknownUri, ErrorPage, ErrorRedirect, LoginRequired, Grant, LogoutFails
<1>5. ASSUME NEW t \in Tabs, AskLogin(t)
      PROVE  \E x : tab[t].at \notin {"social", "away"} /\ tab' = [tab EXCEPT ![t] = x]
  BY Zenon, <1>5 DEF AskLogin
<1>6. ASSUME NEW t \in Tabs, OpenLogin(t) \/ LoginFails(t) \/ Logout(t) \/ Abandon(t)
      PROVE  \E x : tab[t].at \notin {"social", "away"} /\ tab' = [tab EXCEPT ![t] = x]
  BY <1>6 DEF OpenLogin, LoginFails, Logout, Abandon
<1>7. ASSUME NEW t \in Tabs, Send(t, "login", "posted") \/ Send(t, "closed", "logout")
      PROVE  \E x : tab[t].at \notin {"social", "away"} /\ tab' = [tab EXCEPT ![t] = x]
  BY <1>7 DEF Send
<1>8. ASSUME NEW t \in Tabs, NEW u, Login(t, u)
      PROVE  \E x : tab[t].at \notin {"social", "away"} /\ tab' = [tab EXCEPT ![t] = x]
  BY Zenon, <1>8 DEF Login
<1>9. ASSUME NEW t \in Tabs, TakePushed(t) \/ Resume(t)
      PROVE  \E x : tab[t].at \notin {"social", "away"} /\ tab' = [tab EXCEPT ![t] = x]
  BY <1>9 DEF TakePushed, Resume
<1> QED
  BY Zenon, <1>1, <1>2, <1>3, <1>4, <1>5, <1>6, <1>7, <1>8, <1>9 DEF FlowNext

LEMMA FlowOnTrip ==
  ASSUME Sessions, OnTrip, FlowNext(Visits), UNCHANGED trip
  PROVE  OnTrip'
<1>1. CASE tab' = tab
  BY <1>1 DEF OnTrip
<1>2. ASSUME NEW t \in Tabs, NEW x, tab[t].at \notin {"social", "away"},
             tab' = [tab EXCEPT ![t] = x]
      PROVE  OnTrip'
  <2>1. \A s \in Tabs : s # t => tab'[s] = tab[s]
    BY <1>2 DEF Sessions
  <2>2. trip[t].at = "none"
    BY <1>2 DEF OnTrip
  <2> QED BY <2>1, <2>2 DEF OnTrip
<1> QED BY FlowTab, <1>1, <1>2

(* A step of the trip of one tab.                                           *)
LEMMA OnTripKeeps ==
  ASSUME OnTrip, NEW t \in Tabs, NEW y, trip' = [trip EXCEPT ![t] = y], TripShape(y),
         y.at = "provider" => tab'[t].at = "away",
         y.at \notin {"none", "provider"} => tab'[t].at = "social",
         y.at \in {"unknown", "unlinked"} => y.account \in Accounts,
         \A s \in Tabs : s # t => tab'[s].at = tab[s].at
  PROVE  OnTrip'
<1>1. \A s \in Tabs : trip'[s] = IF s = t THEN y ELSE trip[s]
  BY DEF OnTrip
<1>2. trip' = [s \in Tabs |-> trip'[s]]
  BY DEF OnTrip
<1> QED BY <1>1, <1>2 DEF OnTrip

LEMMA MovedTab ==
  ASSUME Sessions, NEW t \in Tabs, NEW x, tab' = [tab EXCEPT ![t] = x]
  PROVE  tab'[t] = x /\ \A s \in Tabs : s # t => tab'[s].at = tab[s].at
BY DEF Sessions

LEMMA SignInOnTrip ==
  ASSUME Sessions, OnTrip, NEW t \in Tabs, NEW a, NEW u, SignIn(t, a, u)
  PROVE  OnTrip'
<1>1. trip' = [trip EXCEPT ![t] = NoTrip] /\ \E x : tab' = [tab EXCEPT ![t] = x]
  BY Zenon DEF SignIn
<1>2. TripShape(NoTrip) /\ NoTrip.at = "none"
  BY DEF TripShape, NoTrip, Stage
<1> HIDE DEF NoTrip
<1> QED BY Zenon, <1>1, <1>2, MovedTab, OnTripKeeps

LEMMA TripOnTrip ==
  ASSUME Sessions, OnTrip, Trips
  PROVE  OnTrip'
<1>0. TripShape(NoTrip) /\ NoTrip.at = "none"
  BY DEF TripShape, NoTrip, Stage
<1>1. ASSUME NEW t \in Tabs, NEW p \in Providers, Follow(t, p)
      PROVE  OnTrip'
  <2>1. /\ tab' = [tab EXCEPT ![t] = Page("social", cookie)]
        /\ trip' = [trip EXCEPT ![t] = Stage("starting", p)]
    BY <1>1 DEF Follow
  <2>2. TripShape(Stage("starting", p)) /\ Stage("starting", p).at = "starting"
    BY DEF TripShape, Stage
  <2>3. Page("social", cookie).at = "social"
    BY DEF Page
  <2> HIDE DEF Stage, Page
  <2>4. tab'[t].at = "social" /\ \A s \in Tabs : s # t => tab'[s].at = tab[s].at
    BY Zenon, <2>1, <2>3, MovedTab
  <2> QED BY Zenon, <2>1, <2>2, <2>4, OnTripKeeps
<1>2. ASSUME NEW t \in Tabs, Start(t)
      PROVE  OnTrip'
  <2> DEFINE y == trip[t]
             a == Attempted(y.provider)
             x == [y EXCEPT !.at = "provider"]
             z == [x EXCEPT !.state = a.state]
  <2>1. /\ y.at = "starting" /\ trip' = [trip EXCEPT ![t] = z]
        /\ tab' = [tab EXCEPT ![t] = Page("away", Empty)]
    BY Zenon, <1>2 DEF Start
  <2>2. TripShape(y)
    BY DEF OnTrip
  <2>3. tab'[t].at = "away" /\ \A s \in Tabs : s # t => tab'[s].at = tab[s].at
    BY <2>1 DEF Page, Sessions
  <2> HIDE DEF y, a
  <2>4. x = [at |-> "provider", provider |-> y.provider, state |-> y.state, account |-> y.account,
             probe |-> y.probe]
    BY <2>2 DEF TripShape
  <2> HIDE DEF x
  <2>5. TripShape(z) /\ z.at = "provider"
    BY <2>4 DEF TripShape
  <2> HIDE DEF z
  <2> QED BY Zenon, <2>1, <2>2, <2>3, <2>5, OnTripKeeps
<1>3. ASSUME NEW t \in Tabs, NEW at \in {"callback", "unlinked"},
             at = "unlinked" => trip[t].at = "unknown",
             trip' = [trip EXCEPT ![t].at = at], tab'[t].at = "social",
             \A s \in Tabs : s # t => tab'[s].at = tab[s].at
      PROVE  OnTrip'
  <2> DEFINE y == trip[t]
             z == [y EXCEPT !.at = at]
  <2>1. trip' = [trip EXCEPT ![t] = z]
    BY <1>3
  <2>2. TripShape(y) /\ (at = "unlinked" => y.account \in Accounts)
    BY <1>3 DEF OnTrip
  <2> HIDE DEF y
  <2>3. z = [at |-> at, provider |-> y.provider, state |-> y.state, account |-> y.account,
             probe |-> y.probe]
    BY <2>2 DEF TripShape
  <2>4. TripShape(z) /\ z.at = at /\ z.account = y.account
    BY <2>3 DEF TripShape
  <2> HIDE DEF z
  <2> QED BY Zenon, <1>3, <2>1, <2>2, <2>4, OnTripKeeps
<1>4. ASSUME NEW t \in Tabs, Return(t)
      PROVE  OnTrip'
  <2>1. /\ trip' = [trip EXCEPT ![t].at = "callback"]
        /\ tab' = [tab EXCEPT ![t] = Page("social", cookie)]
    BY <1>4 DEF Return
  <2>2. tab'[t].at = "social" /\ \A s \in Tabs : s # t => tab'[s].at = tab[s].at
    BY <2>1 DEF Page, Sessions
  <2> QED BY Zenon, <1>3, <2>1, <2>2
<1>5. ASSUME NEW t \in Tabs, Refuse(t) \/ Leave(t) \/ ProvisionFails(t)
      PROVE  OnTrip'
  <2>1. trip' = [trip EXCEPT ![t] = NoTrip] /\ tab' = [tab EXCEPT ![t] = Closed]
    BY <1>5 DEF Refuse, Leave, ProvisionFails
  <2> QED BY Zenon, <1>0, <2>1, MovedTab, OnTripKeeps
<1>6. ASSUME NEW t \in Tabs, CallbackFails(t) \/ BreakerRefuses(t) \/ FetchFails(t)
      PROVE  OnTrip'
  BY <1>5, <1>6 DEF CallbackFails, BreakerRefuses, FetchFails
<1>7. ASSUME NEW t \in Tabs, Fetch(t)
      PROVE  OnTrip'
  <2> DEFINE y == trip[t]
             b == breaker[y.provider].open
             x == [y EXCEPT !.at = "fetching"]
             z == [x EXCEPT !.probe = b]
  <2>1. y.at = "callback" /\ trip' = [trip EXCEPT ![t] = z] /\ tab' = tab
    BY Zenon, <1>7 DEF Fetch
  <2>2. TripShape(y) /\ tab[t].at = "social"
    BY <2>1 DEF OnTrip
  <2> HIDE DEF y, b
  <2>3. x = [at |-> "fetching", provider |-> y.provider, state |-> y.state, account |-> y.account,
             probe |-> y.probe]
    BY <2>2 DEF TripShape
  <2> HIDE DEF x
  <2>4. TripShape(z) /\ z.at = "fetching"
    BY <2>3 DEF TripShape
  <2> HIDE DEF z
  <2> QED BY Zenon, <2>1, <2>2, <2>4, OnTripKeeps
<1>8. ASSUME NEW t \in Tabs, NEW a \in Accounts, FetchSucceeds(t, a)
      PROVE  OnTrip'
  <2> DEFINE y == trip[t]
             w == [y EXCEPT !.at = "unknown"]
             x == [w EXCEPT !.account = a]
             no == FALSE
             z == [x EXCEPT !.probe = no]
  <2>1. \/ \E u : SignIn(t, a, u)
        \/ y.at = "fetching" /\ trip' = [trip EXCEPT ![t] = z] /\ tab' = tab
    BY Zenon, <1>8 DEF FetchSucceeds
  <2>2. CASE y.at = "fetching" /\ trip' = [trip EXCEPT ![t] = z] /\ tab' = tab
    <3>1. TripShape(y) /\ tab[t].at = "social"
      BY <2>2 DEF OnTrip
    <3> HIDE DEF y
    <3>2. w = [at |-> "unknown", provider |-> y.provider, state |-> y.state,
               account |-> y.account, probe |-> y.probe]
      BY <3>1 DEF TripShape
    <3> HIDE DEF w
    <3>3. x = [at |-> "unknown", provider |-> y.provider, state |-> y.state, account |-> a,
               probe |-> y.probe]
      BY <3>2
    <3> HIDE DEF x, no
    <3>4. TripShape(z) /\ z.at = "unknown" /\ z.account = a
      BY <3>3 DEF TripShape
    <3> HIDE DEF z
    <3> QED BY Zenon, <2>2, <3>1, <3>4, OnTripKeeps
  <2> QED BY <2>1, <2>2, SignInOnTrip
<1>9. ASSUME NEW t \in Tabs, Link(t)
      PROVE  OnTrip'
  <2>1. \/ \E u : SignIn(t, trip[t].account, u)
        \/ /\ trip[t].at = "unknown" /\ trip' = [trip EXCEPT ![t].at = "unlinked"]
           /\ tab' = tab
    BY Zenon, <1>9 DEF Link
  <2>2. trip[t].at = "unknown" => tab[t].at = "social"
    BY Zenon DEF OnTrip
  <2> QED BY <1>3, <2>1, <2>2, SignInOnTrip
<1>10. ASSUME NEW t \in Tabs, Provision(t)
       PROVE  OnTrip'
  <2>1. \E u : SignIn(t, trip[t].account, u)
    BY Zenon, <1>10 DEF Provision
  <2> QED BY <2>1, SignInOnTrip
<1>11. ASSUME NEW u, Edit(u)
       PROVE  OnTrip'
  BY <1>11 DEF Edit, OnTrip
<1> QED
  BY Zenon, <1>1, <1>2, <1>4, <1>5, <1>6, <1>7, <1>8, <1>9, <1>10, <1>11 DEF Trips
-----------------------------------------------------------------------------
(***************************************************************************)
(* Kinds of steps.                                                         *)
(***************************************************************************)

(* The browser moves a tab that waits for no answer.                        *)
Turns(t, x) ==
    /\ cookie' = cookie /\ ~Awaits(tab[t]) /\ x.at # "redirected"
    /\ Awaits(x) => x.sess = cookie
    /\ x.at \in {"sent", "authorize"} =>
          ~x.req.asked \/ (tab[t].at = "redirected" /\ x.req = tab[t].req)
    /\ x.at = "authorize" => x.req.params.uri = 0

(* An answer leaves the cookie, clears it, or puts the tab's session back.  *)
Answers(t, x) ==
    /\ Awaits(tab[t]) /\ x.at \in {"closed", "login", "away"}
    /\ \/ cookie' = cookie
       \/ cookie'.user = None
       \/ /\ cookie'.user = tab[t].sess.user
          /\ cookie'.auth_time = tab[t].sess.auth_time

(* The answer of a login.                                                   *)
LogsIn(t, x) ==
    Awaits(tab[t]) /\ x.at \in {"closed", "redirected"} /\ cookie'.auth_time = now /\ now' = now

Moves(t, x) ==
    tab' = [tab EXCEPT ![t] = x] /\ (Turns(t, x) \/ Answers(t, x) \/ LogsIn(t, x))

Quiet == UNCHANGED <<cookie, tab>>

LEMMA Outcomes ==
  ASSUME NEW t \in Tabs, Awaits(tab[t])
  PROVE  /\ Unmodified(t) => Answers(t, Closed) /\ Answers(t, Page("login", Empty))
         /\ cookie' \in {cookie, Empty} => Answers(t, Closed)
<1>1. Closed.at = "closed" /\ Page("login", Empty).at = "login" /\ Empty.user = None
  BY DEF Closed, Page, Empty
<1> HIDE DEF Closed, Page, Empty
<1>2. Unmodified(t) => \/ cookie' = cookie
                       \/ cookie'.user = tab[t].sess.user /\ cookie'.auth_time = tab[t].sess.auth_time
  BY DEF Unmodified
<1> QED BY <1>1, <1>2 DEF Answers

LEMMA LoginMoves ==
  ASSUME NEW t \in Tabs, Awaits(tab[t]), NEW u, Turned(t, u), now' = now
  PROVE  \E x : Moves(t, x)
<1>1. cookie'.auth_time = now
  BY DEF Turned, SetLogin
<1>2. Closed.at = "closed" /\ \A q : Redirected(q).at = "redirected"
  BY DEF Closed, Page, Redirected
<1> HIDE DEF Closed, Redirected
<1> QED BY Zenon, <1>1, <1>2 DEF Turned, Moves, LogsIn

(* Every step of AuthorizeFlow is one of these.                             *)
LEMMA FlowKinds ==
  ASSUME Sessions, FlowNext(Visits)
  PROVE  \/ \E c \in Clients : Push(c)
         \/ \E t \in Tabs : TakePushed(t) \/ UnknownUri(t) \/ Grant(t)
         \/ /\ NoCode /\ UNCHANGED <<par, pushed>>
            /\ Quiet \/ \E t \in Tabs : \E x : Moves(t, x)
<1>1. ASSUME Tick PROVE NoCode /\ UNCHANGED <<par, pushed>> /\ Quiet
  BY Zenon, <1>1 DEF Tick, Quiet
<1>2. ASSUME NEW t \in Tabs, NEW p, Visit(t, p)
      PROVE  NoCode /\ UNCHANGED <<par, pushed>> /\ \E x : Moves(t, x)
  <2> DEFINE q == [params |-> p, first |-> p, since |-> now, asked |-> FALSE]
             x == Sent(q, cookie)
  <2>1. /\ NoCode /\ UNCHANGED <<par, pushed, cookie>> /\ tab[t].at = "closed"
        /\ tab' = [tab EXCEPT ![t] = x]
    BY Zenon, <1>2 DEF Visit
  <2>2. ~q.asked
    OBVIOUS
  <2> HIDE DEF q
  <2>3. /\ x.at \in {"sent", "authorize"} /\ x.sess = cookie /\ x.req = q
        /\ x.at = "authorize" => x.req.params.uri = 0
    BY DEF Sent
  <2> HIDE DEF x
  <2>4. ~Awaits(tab[t])
    BY <2>1 DEF Awaits
  <2>5. Turns(t, x)
    BY <2>1, <2>2, <2>3, <2>4 DEF Turns
  <2> QED BY Zenon, <2>1, <2>5 DEF Moves
<1>3. ASSUME NEW t \in Tabs,
             \/ ErrorPage(t) \/ ErrorRedirect(t) \/ LoginRequired(t)
             \/ LoginFails(t) \/ LogoutFails(t) \/ Logout(t)
      PROVE  NoCode /\ UNCHANGED <<par, pushed>> /\ \E x : Moves(t, x)
  <2>1. /\ NoCode /\ UNCHANGED <<par, pushed>>
        /\ tab[t].at \in {"sent", "authorize", "posted", "logout"}
        /\ \/ Unmodified(t) /\ tab' = [tab EXCEPT ![t] = Closed]
           \/ Unmodified(t) /\ tab' = [tab EXCEPT ![t] = Page("login", Empty)]
           \/ cookie' \in {cookie, Empty} /\ tab' = [tab EXCEPT ![t] = Closed]
    BY <1>3 DEF ErrorPage, ErrorRedirect, LoginRequired, LoginFails, LogoutFails, Logout
  <2>2. Awaits(tab[t])
    BY <2>1 DEF Awaits
  <2> QED BY Zenon, <2>1, <2>2, Outcomes DEF Moves
<1>4. ASSUME NEW t \in Tabs, AskLogin(t)
      PROVE  NoCode /\ UNCHANGED <<par, pushed>> /\ \E x : Moves(t, x)
  <2> DEFINE s == tab[t].sess
             r == [tab[t].req EXCEPT !.params = StripReauthParams(tab[t].req.params), !.asked = TRUE]
  <2>1. /\ NoCode /\ UNCHANGED <<par, pushed>> /\ tab[t].at = "authorize"
        /\ cookie' = [s EXCEPT !.return_to = r, !.return_to_ts = now]
        /\ tab' = [tab EXCEPT ![t] = Page("login", Empty)]
    BY Zenon, <1>4 DEF AskLogin
  <2>2. s = [user |-> s.user, auth_time |-> s.auth_time, return_to |-> s.return_to,
             return_to_ts |-> s.return_to_ts, social |-> s.social]
    BY Zenon, <1>4 DEF Sessions, Placed, Carries
  <2> HIDE DEF r, s
  <2>3. cookie'.user = s.user /\ cookie'.auth_time = s.auth_time
    BY <2>1, <2>2
  <2>4. Page("login", Empty).at = "login" /\ Awaits(tab[t])
    BY <2>1 DEF Page, Awaits
  <2>5. Answers(t, Page("login", Empty))
    BY Zenon, <2>3, <2>4 DEF Answers, s
  <2> QED BY Zenon, <2>1, <2>5 DEF Moves
<1>5. ASSUME NEW t \in Tabs, OpenLogin(t) \/ Abandon(t)
      PROVE  NoCode /\ UNCHANGED <<par, pushed>> /\ \E x : Moves(t, x)
  <2>1. /\ NoCode /\ UNCHANGED <<par, pushed, cookie>> /\ tab[t].at \in {"closed", "login"}
        /\ \/ tab' = [tab EXCEPT ![t] = Closed]
           \/ tab' = [tab EXCEPT ![t] = Page("login", Empty)]
    BY <1>5 DEF OpenLogin, Abandon
  <2>2. Closed.at = "closed" /\ Page("login", Empty).at = "login"
    BY DEF Closed, Page
  <2> HIDE DEF Closed, Page
  <2>3. Turns(t, Closed) /\ Turns(t, Page("login", Empty))
    BY <2>1, <2>2 DEF Turns, Awaits
  <2> QED BY Zenon, <2>1, <2>3 DEF Moves
<1>6. ASSUME NEW t \in Tabs, Send(t, "login", "posted") \/ Send(t, "closed", "logout")
      PROVE  NoCode /\ UNCHANGED <<par, pushed>> /\ \E x : Moves(t, x)
  <2>1. /\ NoCode /\ UNCHANGED <<par, pushed, cookie>> /\ tab[t].at \in {"closed", "login"}
        /\ \/ tab' = [tab EXCEPT ![t] = Page("posted", cookie)]
           \/ tab' = [tab EXCEPT ![t] = Page("logout", cookie)]
    BY <1>6 DEF Send
  <2>2. \A at : Page(at, cookie).at = at /\ Page(at, cookie).sess = cookie
    BY DEF Page
  <2> HIDE DEF Page
  <2>3. Turns(t, Page("posted", cookie)) /\ Turns(t, Page("logout", cookie))
    BY <2>1, <2>2 DEF Turns, Awaits
  <2> QED BY Zenon, <2>1, <2>3 DEF Moves
<1>7. ASSUME NEW t \in Tabs, NEW u, Login(t, u)
      PROVE  NoCode /\ UNCHANGED <<par, pushed>> /\ \E x : Moves(t, x)
  <2>1. NoCode /\ UNCHANGED <<now, par, pushed>> /\ tab[t].at = "posted" /\ Turned(t, u)
    BY Zenon, <1>7 DEF Login, Turned
  <2>2. Awaits(tab[t])
    BY <2>1 DEF Awaits
  <2> QED BY Zenon, <2>1, <2>2, LoginMoves
<1>8. ASSUME NEW t \in Tabs, Resume(t)
      PROVE  NoCode /\ UNCHANGED <<par, pushed>> /\ \E x : Moves(t, x)
  <2> DEFINE q == tab[t].req
             x == Sent(q, cookie)
  <2>1. /\ NoCode /\ UNCHANGED <<par, pushed, cookie>> /\ tab[t].at = "redirected"
        /\ tab' = [tab EXCEPT ![t] = x]
    BY Zenon, <1>8 DEF Resume
  <2> HIDE DEF q
  <2>2. /\ x.at \in {"sent", "authorize"} /\ x.sess = cookie /\ x.req = q
        /\ x.at = "authorize" => x.req.params.uri = 0
    BY DEF Sent
  <2> HIDE DEF x
  <2>3. ~Awaits(tab[t])
    BY <2>1 DEF Awaits
  <2>4. Turns(t, x)
    BY <2>1, <2>2, <2>3 DEF Turns, q
  <2> QED BY Zenon, <2>1, <2>4 DEF Moves
<1> QED
  BY Zenon, <1>1, <1>2, <1>3, <1>4, <1>5, <1>6, <1>7, <1>8 DEF FlowNext

(* A trip leaves the PAR store and the clock alone, and issues no code.     *)
LEMMA TripCodes ==
  ASSUME Trips
  PROVE  NoCode /\ UNCHANGED <<now, par, pushed>>
<1>1. ASSUME NEW t, NEW p, Follow(t, p) PROVE NoCode /\ UNCHANGED <<now, par, pushed>>
  BY Zenon, <1>1 DEF Follow, NoSignIn
<1>2. ASSUME NEW t, Start(t) \/ Return(t) \/ Leave(t) \/ ProvisionFails(t)
      PROVE  NoCode /\ UNCHANGED <<now, par, pushed>>
  BY Zenon, <1>2 DEF Start, Return, Leave, ProvisionFails, NoSignIn
<1>3. ASSUME NEW t, CallbackFails(t) \/ BreakerRefuses(t) \/ FetchFails(t) \/ Fetch(t)
      PROVE  NoCode /\ UNCHANGED <<now, par, pushed>>
  BY Zenon, <1>3 DEF CallbackFails, BreakerRefuses, FetchFails, Fetch, Refuse, NoSignIn
<1>4. ASSUME NEW t, NEW a, FetchSucceeds(t, a) PROVE NoCode /\ UNCHANGED <<now, par, pushed>>
  BY Zenon, <1>4 DEF FetchSucceeds, SignIn, NoSignIn
<1>5. ASSUME NEW t, Link(t) PROVE NoCode /\ UNCHANGED <<now, par, pushed>>
  BY Zenon, <1>5 DEF Link, SignIn, NoSignIn
<1>6. ASSUME NEW t, Provision(t) PROVE NoCode /\ UNCHANGED <<now, par, pushed>>
  BY Zenon, <1>6 DEF Provision, SignIn, NoSignIn
<1>7. ASSUME NEW u, Edit(u) PROVE NoCode /\ UNCHANGED <<now, par, pushed>>
  BY Zenon, <1>7 DEF Edit, NoSignIn
<1> QED BY Zenon, <1>1, <1>2, <1>3, <1>4, <1>5, <1>6, <1>7 DEF Trips

LEMMA TripKinds ==
  ASSUME Sessions, OnTrip, Trips
  PROVE  Quiet \/ \E t \in Tabs : \E x : Moves(t, x)
<1>0. now' = now
  BY TripCodes
<1>1. ASSUME NEW t \in Tabs, trip[t].at \notin {"none", "provider"}
      PROVE  Awaits(tab[t])
  BY <1>1 DEF OnTrip, Awaits
<1>2. ASSUME NEW t \in Tabs, NEW p, Follow(t, p)
      PROVE  Moves(t, Page("social", cookie))
  BY <1>2 DEF Follow, Moves, Turns, Awaits, Page
<1>3. ASSUME NEW t \in Tabs, Start(t)
      PROVE  Moves(t, Page("away", Empty))
  <2> DEFINE s == tab[t].sess
             a == Attempted(trip[t].provider)
  <2>1. /\ trip[t].at = "starting" /\ cookie' = [s EXCEPT !.social = a]
        /\ tab' = [tab EXCEPT ![t] = Page("away", Empty)]
    BY Zenon, <1>3 DEF Start
  <2>2. s = [user |-> s.user, auth_time |-> s.auth_time, return_to |-> s.return_to,
             return_to_ts |-> s.return_to_ts, social |-> s.social]
    BY Zenon DEF Sessions, Placed, Carries
  <2> HIDE DEF s, a
  <2>3. cookie'.user = s.user /\ cookie'.auth_time = s.auth_time
    BY <2>1, <2>2
  <2>4. Awaits(tab[t]) /\ Page("away", Empty).at = "away"
    BY <1>1, <2>1 DEF Page
  <2> QED BY Zenon, <2>1, <2>3, <2>4 DEF Moves, Answers, s
<1>4. ASSUME NEW t \in Tabs, Return(t)
      PROVE  Moves(t, Page("social", cookie))
  <2>1. tab[t].at = "away"
    BY <1>4 DEF Return, OnTrip
  <2> QED BY <1>4, <2>1 DEF Return, Moves, Turns, Awaits, Page
<1>5. ASSUME NEW t \in Tabs, Leave(t)
      PROVE  Moves(t, Closed)
  <2>1. tab[t].at = "away"
    BY <1>5 DEF Leave, OnTrip
  <2> QED BY <1>5, <2>1 DEF Leave, Moves, Turns, Awaits, Closed, Page
<1>6. ASSUME NEW t \in Tabs, CallbackFails(t) \/ BreakerRefuses(t) \/ FetchFails(t)
      PROVE  Moves(t, Closed)
  <2>1. /\ trip[t].at \notin {"none", "provider"}
        /\ Unmodified(t) /\ tab' = [tab EXCEPT ![t] = Closed]
    BY <1>6 DEF CallbackFails, BreakerRefuses, FetchFails, Refuse
  <2> QED BY Zenon, <1>1, <2>1, Outcomes DEF Moves
<1>7. ASSUME NEW t \in Tabs, ProvisionFails(t)
      PROVE  Moves(t, Closed)
  <2>1. /\ trip[t].at = "unlinked" /\ cookie' = cookie
        /\ tab' = [tab EXCEPT ![t] = Closed]
    BY Zenon, <1>7 DEF ProvisionFails
  <2>2. Awaits(tab[t])
    BY <1>1, <2>1
  <2>3. Answers(t, Closed)
    BY <2>1, <2>2, Outcomes
  <2> QED BY Zenon, <2>1, <2>3 DEF Moves
<1>8. ASSUME NEW t \in Tabs, NEW a, NEW u, SignIn(t, a, u), trip[t].at \notin {"none", "provider"}
      PROVE  \E x : Moves(t, x)
  BY Zenon, <1>0, <1>1, <1>8, SignInTurns, LoginMoves
<1>9. ASSUME NEW t \in Tabs, NEW a, FetchSucceeds(t, a)
      PROVE  Quiet \/ \E x : Moves(t, x)
  <2>1. trip[t].at = "fetching" /\ (UNCHANGED <<cookie, tab>> \/ \E u : SignIn(t, a, u))
    BY Zenon, <1>9 DEF FetchSucceeds
  <2> QED BY <1>8, <2>1 DEF Quiet
<1>10. ASSUME NEW t \in Tabs, Link(t)
       PROVE  Quiet \/ \E x : Moves(t, x)
  <2>1. /\ trip[t].at = "unknown"
        /\ UNCHANGED <<cookie, tab>> \/ \E u : SignIn(t, trip[t].account, u)
    BY Zenon, <1>10 DEF Link
  <2> QED BY <1>8, <2>1 DEF Quiet
<1>11. ASSUME NEW t \in Tabs, Provision(t)
       PROVE  \E x : Moves(t, x)
  <2>1. trip[t].at = "unlinked" /\ \E u : SignIn(t, trip[t].account, u)
    BY Zenon, <1>11 DEF Provision
  <2> QED BY <1>8, <2>1
<1>12. ASSUME NEW t, Fetch(t) PROVE Quiet
  BY Zenon, <1>12 DEF Fetch, Quiet
<1>13. ASSUME NEW u, Edit(u) PROVE Quiet
  BY Zenon, <1>13 DEF Edit, Quiet
<1> QED
  BY Zenon, <1>2, <1>3, <1>4, <1>5, <1>6, <1>7, <1>9, <1>10, <1>11, <1>12, <1>13 DEF Trips
-----------------------------------------------------------------------------
(***************************************************************************)
(* Late answers.                                                           *)
(***************************************************************************)

(* What the observations say of a redirect that has not been overtaken.     *)
LEMMA NotOvertaken ==
  ASSUME Observe, NEW r \in Tabs, tab'[r].at = "redirected", r \notin overtaken'
  PROVE  /\ r \notin overtaken
         /\ \A s \in Tabs : Awaits(tab[s]) /\ Awaits(tab'[s]) /\ s \notin late'
                            => s \notin late /\ tab[r].at = "redirected"
         /\ tab[r].at = "redirected" /\ ~Recent(cookie', tab[r].req.since)
            => \A s \in late : tab'[s] = tab[s]
<1>1. \A s \in Tabs : Awaits(tab[s]) /\ Awaits(tab'[s]) /\ s \notin late'
                      => s \notin late /\ tab[r].at = "redirected"
  BY Zenon DEF Observe
<1>2. /\ r \notin overtaken
      /\ tab[r].at = "redirected" /\ ~Recent(cookie', tab[r].req.since)
         => \A s \in late : tab'[s] = tab[s]
  <2> HIDE DEF Recent
  <2>1. overtaken' = {t \in Tabs :
         /\ tab'[t].at \in {"redirected", "sent", "authorize"}
         /\ \/ t \in overtaken
            \/ /\ tab[t].at = "redirected"
               /\ ~Recent(cookie', tab[t].req.since)
               /\ \E s \in late : tab'[s] # tab[s]}
    BY Zenon DEF Observe
  <2> QED BY <2>1
<1> QED BY Zenon, <1>1, <1>2

LEMMA StillOvertaken ==
  ASSUME Observe, NEW r \in Tabs, tab'[r].at \in {"sent", "authorize"}, r \notin overtaken'
  PROVE  r \notin overtaken
BY DEF Observe

(* A step that moves no tab, or only a pushed request to its checks.        *)
LEMMA QuietTimely ==
  ASSUME Timely, Observe, cookie' = cookie,
         \A s \in Tabs : /\ tab'[s].req = tab[s].req /\ tab'[s].sess = tab[s].sess
                         /\ \/ tab'[s].at = tab[s].at
                            \/ tab[s].at = "sent" /\ tab'[s].at = "authorize"
  PROVE  Timely'
<1>1. \A s \in Tabs : /\ Awaits(tab'[s]) => Awaits(tab[s])
                      /\ tab'[s].at = "redirected" => tab[s].at = "redirected"
                      /\ tab'[s].at \in {"sent", "authorize"} => tab[s].at \in {"sent", "authorize"}
  BY DEF Awaits
<1>2. ASSUME NEW r \in Tabs, tab'[r].at = "redirected", r \notin overtaken'
      PROVE  /\ Recent(cookie', tab'[r].req.since)
             /\ \A s \in Tabs : Awaits(tab'[s]) /\ s \notin late'
                                => Recent(tab'[s].sess, tab'[r].req.since)
  <2>1. r \notin overtaken /\ tab[r].at = "redirected"
    BY Zenon, <1>1, <1>2, NotOvertaken
  <2>2. \A s \in Tabs : Awaits(tab'[s]) /\ s \notin late' => Awaits(tab[s]) /\ s \notin late
    BY Zenon, <1>1, <1>2, NotOvertaken
  <2> QED BY Zenon, <2>1, <2>2 DEF Timely
<1>3. ASSUME NEW r \in Tabs, tab'[r].at \in {"sent", "authorize"}, tab'[r].req.asked,
             r \notin overtaken'
      PROVE  Recent(tab'[r].sess, tab'[r].req.since)
  <2>1. r \notin overtaken
    BY Zenon, <1>3, StillOvertaken
  <2> QED BY Zenon, <1>1, <1>3, <2>1 DEF Timely
<1> QED BY Zenon, <1>2, <1>3 DEF Timely

LEMMA MoveTimely ==
  ASSUME Sessions, Sessions', Timely, Observe, NEW t \in Tabs, NEW x, Moves(t, x)
  PROVE  Timely'
<1>0. /\ tab'[t] = x /\ \A s \in Tabs : s # t => tab'[s] = tab[s]
      /\ Turns(t, x) \/ Answers(t, x) \/ LogsIn(t, x)
  BY DEF Sessions, Moves
<1>1. ASSUME NEW r \in Tabs, r # t, tab'[r].at = "redirected", r \notin overtaken'
      PROVE  /\ Recent(cookie', tab'[r].req.since)
             /\ \A s \in Tabs : Awaits(tab'[s]) /\ s \notin late'
                                => Recent(tab'[s].sess, tab'[r].req.since)
  <2> DEFINE n == tab[r].req.since
  <2>1. /\ tab'[r] = tab[r] /\ tab[r].at = "redirected" /\ r \notin overtaken
        /\ Recent(cookie, n)
    BY Zenon, <1>0, <1>1, NotOvertaken DEF Timely
  <2>2. n \in Nat /\ n <= now
    BY <2>1 DEF Sessions, Placed, Resumable, Request
  <2> HIDE DEF n
  <2>3. Recent(cookie', n)
    <3>1. CASE cookie' = cookie
      BY <2>1, <3>1
    <3>2. CASE cookie'.user = None
      BY <3>2 DEF Recent
    <3>3. CASE /\ Answers(t, x) /\ cookie'.user = tab[t].sess.user
               /\ cookie'.auth_time = tab[t].sess.auth_time
      <4>1. Awaits(tab[t]) /\ ~Awaits(x)
        BY <3>3 DEF Answers, Awaits
      <4>2. CASE t \notin late
        <5>1. Recent(tab[t].sess, n)
          BY Zenon, <2>1, <4>1, <4>2 DEF Timely, n
        <5> QED BY <3>3, <5>1 DEF Recent
      <4>3. CASE t \in late
        <5>1. tab'[t] # tab[t]
          BY <1>0, <4>1
        <5> QED BY Zenon, <1>1, <2>1, <4>3, <5>1, NotOvertaken DEF n
      <4> QED BY <4>2, <4>3
    <3>4. CASE LogsIn(t, x)
      BY <2>2, <3>4 DEF LogsIn, Recent, Sessions
    <3> QED BY Zenon, <1>0, <3>1, <3>2, <3>3, <3>4 DEF Turns, Answers
  <2>4. ASSUME NEW s \in Tabs, Awaits(tab'[s]), s \notin late'
        PROVE  Recent(tab'[s].sess, n)
    <3>1. CASE s # t
      <4>1. s \notin late /\ tab'[s] = tab[s]
        BY Zenon, <1>0, <1>1, <2>4, <3>1, NotOvertaken
      <4> QED BY Zenon, <2>1, <2>4, <4>1 DEF Timely, n
    <3>2. CASE s = t
      <4>1. cookie' = cookie /\ tab'[s].sess = cookie
        BY <1>0, <2>4, <3>2 DEF Turns, Answers, LogsIn, Awaits
      <4> QED BY <2>1, <4>1
    <3> QED BY <3>1, <3>2
  <2> QED BY Zenon, <2>1, <2>3, <2>4 DEF n
<1>2. ASSUME tab'[t].at = "redirected", t \notin overtaken'
      PROVE  /\ Recent(cookie', tab'[t].req.since)
             /\ \A s \in Tabs : Awaits(tab'[s]) /\ s \notin late'
                                => Recent(tab'[s].sess, tab'[t].req.since)
  <2>1. LogsIn(t, x) /\ tab[t].at # "redirected"
    BY <1>0, <1>2 DEF Turns, Answers, LogsIn, Awaits
  <2>2. tab'[t].req.since \in Nat /\ tab'[t].req.since <= now
    BY <1>2, <2>1 DEF Sessions, Placed, Resumable, Request, LogsIn
  <2>3. Recent(cookie', tab'[t].req.since)
    BY <2>1, <2>2 DEF LogsIn, Recent, Sessions
  <2>4. ~Awaits(tab'[t])
    BY <1>2 DEF Awaits
  <2>5. \A s \in Tabs : Awaits(tab'[s]) => s \in late'
    BY Zenon, <1>0, <1>2, <2>1, <2>4, NotOvertaken
  <2> QED BY Zenon, <2>3, <2>5
<1>3. ASSUME NEW r \in Tabs, tab'[r].at \in {"sent", "authorize"}, tab'[r].req.asked,
             r \notin overtaken'
      PROVE  Recent(tab'[r].sess, tab'[r].req.since)
  <2>1. r \notin overtaken
    BY Zenon, <1>3, StillOvertaken
  <2>2. CASE r # t
    BY Zenon, <1>0, <1>3, <2>1, <2>2 DEF Timely
  <2>3. CASE r = t
    <3>1. Turns(t, x)
      BY <1>0, <1>3, <2>3 DEF Answers, LogsIn
    <3>2. tab[t].at = "redirected" /\ tab'[t].req = tab[t].req /\ tab'[t].sess = cookie
      BY <1>0, <1>3, <2>3, <3>1 DEF Turns, Awaits
    <3> QED BY Zenon, <2>1, <2>3, <3>2 DEF Timely
  <2> QED BY <2>2, <2>3
<1> QED BY Zenon, <1>1, <1>2, <1>3 DEF Timely

(* A step of AuthorizeFlow, as the observations see it.                     *)
LEMMA FlowTimely ==
  ASSUME Sessions, Sessions', Timely, Observe, FlowNext(Visits)
  PROVE  Timely'
<1>1. ASSUME Quiet PROVE Timely'
  BY <1>1, QuietTimely DEF Quiet
<1>2. ASSUME NEW c, Push(c) PROVE Quiet
  BY Zenon, <1>2 DEF Push, Quiet
<1>3. ASSUME NEW t \in Tabs, TakePushed(t) PROVE Timely'
  <2> DEFINE x == [at |-> "authorize", req |-> tab[t].req, sess |-> tab[t].sess]
  <2>1. tab' = [tab EXCEPT ![t] = x]
    BY Zenon, <1>3, TakenPlace
  <2>2. tab[t].at = "sent" /\ cookie' = cookie
    BY Zenon, <1>3 DEF TakePushed
  <2>3. x.at = "authorize" /\ x.req = tab[t].req /\ x.sess = tab[t].sess
    OBVIOUS
  <2> HIDE DEF x
  <2>4. tab'[t] = x /\ \A s \in Tabs : s # t => tab'[s] = tab[s]
    BY Zenon, <2>1 DEF Sessions
  <2> QED BY Zenon, <2>2, <2>3, <2>4, QuietTimely
<1>4. ASSUME NEW t \in Tabs, UnknownUri(t) \/ Grant(t) PROVE Moves(t, Closed)
  <2>1. tab[t].at \in {"sent", "authorize"} /\ Unmodified(t) /\ tab' = [tab EXCEPT ![t] = Closed]
    BY <1>4 DEF UnknownUri, Grant
  <2>2. Awaits(tab[t])
    BY <2>1 DEF Awaits
  <2> QED BY Zenon, <2>1, <2>2, Outcomes DEF Moves
<1> QED BY Zenon, <1>1, <1>2, <1>3, <1>4, FlowKinds, MoveTimely
-----------------------------------------------------------------------------
(***************************************************************************)
(* Codes.                                                                  *)
(***************************************************************************)

(* Only Grant issues a code.                                                *)
LEMMA FlowCodes ==
  ASSUME Sessions, FlowNext(Visits)
  PROVE  NoCode \/ \E t \in Tabs : Grant(t)
BY Zenon, FlowKinds DEF Push, TakePushed, UnknownUri

(* The code that Grant issues honours the request as the client made it.    *)
LEMMA GrantHonours ==
  ASSUME Sessions, Timely, NEW t \in Tabs, Grant(t)
  PROVE  ReauthHonoured'
<1> DEFINE q == tab[t].req
           s == tab[t].sess
           o == t \in overtaken
<1>1. /\ code' = [req |-> q, user |-> s.user, auth_time |-> s.auth_time, at |-> now, overtaken |-> o]
      /\ tab[t].at = "authorize" /\ ~NeedsLogin(s, q.params)
  BY Zenon DEF Grant
<1>2. Underway(q, now) /\ s.auth_time \in Nat /\ now \in Nat
  BY Zenon, <1>1 DEF Sessions, Placed, Carries
<1>3. ~ForceLogin(q.params) /\ ~AuthExpired(s, q.params) /\ s.user # None
  BY <1>1 DEF NeedsLogin
<1>4. /\ q \in Request
      /\ q.asked => s.auth_time >= q.since \/ o
      /\ ~q.asked => q.params = q.first
  <2>1. q.asked /\ ~o => Recent(s, q.since)
    BY Zenon, <1>1 DEF Timely
  <2> QED BY <1>2, <1>3, <2>1 DEF Underway, Recent
<1> HIDE DEF q, s, o
<1>5. /\ code'.req = q /\ code'.auth_time = s.auth_time /\ code'.at = now
      /\ code'.overtaken = o
  BY <1>1
<1>6. CASE q.asked
  BY Zenon, <1>4, <1>5, <1>6 DEF ReauthHonoured
<1>7. CASE ~q.asked
  <2>1. ~ForceLogin(q.first)
    BY <1>3, <1>4, <1>7
  <2>2. q.first.max_age # None => now - s.auth_time < q.first.max_age
    <3>1. q.first.max_age \in Nat \cup {None}
      BY <1>4, <1>7 DEF Request, Params
    <3> QED BY <1>2, <1>3, <1>4, <1>7, <3>1 DEF AuthExpired
  <2> QED BY Zenon, <1>5, <2>1, <2>2 DEF ReauthHonoured
<1> QED BY Zenon, <1>6, <1>7

LEMMA NoCodeHonours ==
  ASSUME NoCode
  PROVE  ReauthHonoured'
BY DEF NoCode, ReauthHonoured

(* The PAR store.                                                           *)
LEMMA Swept ==
  /\ DOMAIN SweepExpired = {uri \in DOMAIN par : ~(now - par[uri].created_at >= ParTTL)}
  /\ \A uri \in DOMAIN SweepExpired : SweepExpired[uri] = par[uri]
BY DEF SweepExpired, Without

LEMMA TakeKeepsUnspent ==
  ASSUME Unspent, NEW uri, Take(uri), NoCode, pushed' = pushed
  PROVE  Unspent' /\ DOMAIN par' \subseteq DOMAIN par \ {uri}
<1>1. par' = Without(SweepExpired, {uri})
  BY DEF Take
<1> HIDE DEF SweepExpired
<1>2. DOMAIN par' = DOMAIN SweepExpired \ {uri} /\ \A u \in DOMAIN par' : par'[u] = SweepExpired[u]
  BY <1>1 DEF Without
<1>3. DOMAIN par' \subseteq DOMAIN par \ {uri} /\ \A u \in DOMAIN par' : par'[u] = par[u]
  BY <1>2, Swept
<1> QED BY <1>3 DEF Unspent, NoCode

(* The pushed request that TakePushed finds.                                *)
LEMMA TakenFound ==
  ASSUME Unspent, Sessions, NEW t \in Tabs, TakePushed(t)
  PROVE  LET p == tab[t].req.params IN
         /\ p.uri \in DOMAIN par /\ p.uri \in DOMAIN pushed /\ p.uri \notin spent
         /\ pushed[p.uri].client = p.client
         /\ now - pushed[p.uri].created_at < ParTTL
<1> DEFINE p == tab[t].req.params
<1>1. p.uri \in DOMAIN SweepExpired /\ par[p.uri].client = p.client
  BY Zenon DEF TakePushed, Resolved
<1> HIDE DEF p
<1>2. p.uri \in DOMAIN par /\ ~(now - par[p.uri].created_at >= ParTTL)
  BY <1>1, Swept
<1>3. p.uri \in DOMAIN pushed /\ par[p.uri] = pushed[p.uri] /\ p.uri \notin spent
  BY <1>2 DEF Unspent
<1>4. now \in Nat /\ ParTTL \in Nat
  BY AuthorizeAssumption DEF Sessions
<1>5. pushed[p.uri] \in Entry
  BY <1>3 DEF Unspent
<1>6. pushed[p.uri].created_at \in Nat
  BY <1>5 DEF Entry
<1>7. now - pushed[p.uri].created_at < ParTTL
  BY <1>2, <1>3, <1>4, <1>6
<1> QED BY Zenon, <1>1, <1>2, <1>3, <1>7 DEF p

(* A step that claims nothing, and spends nothing that is not let go.       *)
LEMMA MoveClaimed ==
  ASSUME Sessions, Claimed, NEW t \in Tabs, NEW x, tab' = [tab EXCEPT ![t] = x],
         x.at = "authorize" => x.req.params.uri = 0,
         DOMAIN par' \subseteq DOMAIN par, pushed' = pushed,
         spent' \subseteq spent \cup
            (IF tab[t].at = "authorize" THEN {tab[t].req.params.uri} \ {0} ELSE {})
  PROVE  Claimed'
<1>1. tab'[t] = x /\ \A s \in Tabs : s # t => tab'[s] = tab[s]
  BY DEF Sessions
<1>2. ASSUME NEW s \in Tabs, tab'[s].at = "authorize", tab'[s].req.params.uri # 0
      PROVE  s # t /\ tab'[s] = tab[s]
  BY <1>1, <1>2
<1>3. ASSUME NEW s \in Tabs, tab'[s].at = "authorize", tab'[s].req.params.uri # 0
      PROVE  tab'[s].req.params.uri \notin spent'
  <2>1. s # t /\ tab'[s] = tab[s]
    BY <1>2, <1>3
  <2>2. tab[s].req.params.uri \notin spent
    BY <1>3, <2>1 DEF Claimed
  <2>3. tab[t].at = "authorize" => tab[s].req.params.uri # tab[t].req.params.uri
    BY Zenon, <1>3, <2>1 DEF Claimed
  <2> QED BY <2>1, <2>2, <2>3
<1>4. ASSUME NEW s \in Tabs, tab'[s].at = "authorize", tab'[s].req.params.uri # 0
      PROVE  LET d == tab'[s].req.params IN
             /\ d.uri \in DOMAIN pushed' /\ d.uri \notin spent' /\ d.uri \notin DOMAIN par'
             /\ pushed'[d.uri].client = d.client
  BY <1>2, <1>3, <1>4 DEF Claimed
<1>5. ASSUME NEW r \in Tabs, NEW s \in Tabs, tab'[r].at = "authorize", tab'[s].at = "authorize",
             tab'[r].req.params.uri = tab'[s].req.params.uri, tab'[s].req.params.uri # 0
      PROVE  r = s
  BY Zenon, <1>2, <1>5 DEF Claimed
<1> QED BY Zenon, <1>4, <1>5 DEF Claimed

LEMMA TakenClaimed ==
  ASSUME Sessions, Unspent, Claimed, NEW t \in Tabs, TakePushed(t)
  PROVE  Unspent' /\ Claimed'
<1> DEFINE p == tab[t].req.params
           x == [at |-> "authorize", req |-> tab[t].req, sess |-> tab[t].sess]
<1>1. tab' = [tab EXCEPT ![t] = x]
  BY Zenon, TakenPlace
<1>2. Take(p.uri) /\ NoCode /\ pushed' = pushed /\ spent' = spent
  BY Zenon DEF TakePushed, NoCode
<1>3. x.at = "authorize" /\ x.req.params = p
  OBVIOUS
<1>4. /\ p.uri \in DOMAIN par /\ p.uri \in DOMAIN pushed /\ p.uri \notin spent
      /\ pushed[p.uri].client = p.client
  BY Zenon, TakenFound
<1> HIDE DEF p, x
<1>5. Unspent' /\ DOMAIN par' \subseteq DOMAIN par \ {p.uri}
  BY Zenon, <1>2, TakeKeepsUnspent
<1>6. tab'[t] = x /\ \A s \in Tabs : s # t => tab'[s] = tab[s]
  BY Zenon, <1>1 DEF Sessions
<1>7. \A s \in Tabs : tab[s].at = "authorize" /\ tab[s].req.params.uri # 0
                      => tab[s].req.params.uri # p.uri
  BY Zenon, <1>4 DEF Claimed
<1>8. ASSUME NEW s \in Tabs, tab'[s].at = "authorize", tab'[s].req.params.uri # 0
      PROVE  LET d == tab'[s].req.params IN
             /\ d.uri \in DOMAIN pushed' /\ d.uri \notin spent' /\ d.uri \notin DOMAIN par'
             /\ pushed'[d.uri].client = d.client
  <2>1. CASE s = t
    BY Zenon, <1>2, <1>3, <1>4, <1>5, <1>6, <2>1
  <2>2. CASE s # t
    <3>1. tab'[s] = tab[s]
      BY Zenon, <1>6, <2>2
    <3> QED BY Zenon, <1>2, <1>5, <1>8, <3>1 DEF Claimed
  <2> QED BY <2>1, <2>2
<1>9. ASSUME NEW r \in Tabs, NEW s \in Tabs, tab'[r].at = "authorize", tab'[s].at = "authorize",
             tab'[r].req.params.uri = tab'[s].req.params.uri, tab'[s].req.params.uri # 0
      PROVE  r = s
  BY Zenon, <1>3, <1>6, <1>7, <1>9 DEF Claimed
<1> QED BY Zenon, <1>5, <1>8, <1>9 DEF Claimed

LEMMA PushedClaimed ==
  ASSUME Sessions, Unspent, Claimed, NEW c \in Clients, Push(c)
  PROVE  Unspent' /\ Claimed'
<1> DEFINE entry == [client |-> c, created_at |-> now]
           n == Len(pushed) + 1
<1>1. /\ pushed' = Append(pushed, entry) /\ par' = With(SweepExpired, n, entry)
      /\ spent' = spent /\ tab' = tab
  BY DEF Push, NoCode
<1>2. entry \in Entry /\ pushed \in Seq(Entry) /\ n \in Nat
  BY DEF Entry, Sessions, Unspent
<1> HIDE DEF entry
<1>3. /\ pushed' \in Seq(Entry) /\ DOMAIN pushed' = DOMAIN pushed \cup {n}
      /\ pushed'[n] = entry /\ n \notin DOMAIN pushed
      /\ \A u \in DOMAIN pushed : pushed'[u] = pushed[u]
  BY <1>1, <1>2
<1> HIDE DEF n, SweepExpired
<1>4. /\ DOMAIN par' = DOMAIN SweepExpired \cup {n} /\ par'[n] = entry
      /\ \A u \in DOMAIN SweepExpired \ {n} : par'[u] = SweepExpired[u]
  BY <1>1 DEF With
<1>5. DOMAIN SweepExpired \subseteq DOMAIN pushed
  BY Swept DEF Unspent
<1>6. Unspent'
  BY <1>1, <1>3, <1>4, <1>5, Swept DEF Unspent
<1>7. DOMAIN par' \subseteq DOMAIN par \cup {n}
  BY <1>4, Swept
<1>8. Claimed'
  BY Zenon, <1>1, <1>3, <1>7 DEF Claimed
<1> QED BY <1>6, <1>8

(* What Grant finds, and leaves.                                            *)
LEMMA GrantSpends ==
  ASSUME Unspent, Claimed, Sessions, NEW t \in Tabs, Grant(t)
  PROVE  /\ Unspent' /\ Claimed'
         /\ code'.req.params.uri # 0 =>
              /\ code'.req.params.uri \notin spent
              /\ pushed[code'.req.params.uri].client = code'.req.params.client
<1> DEFINE p == tab[t].req.params
<1>1. /\ code'.req.params = p /\ spent' = spent \cup ({p.uri} \ {0}) /\ UNCHANGED <<par, pushed>>
      /\ tab[t].at = "authorize" /\ tab' = [tab EXCEPT ![t] = Closed]
  BY Zenon DEF Grant
<1>2. p.uri # 0 => /\ p.uri \in DOMAIN pushed /\ p.uri \notin spent /\ p.uri \notin DOMAIN par
                   /\ pushed[p.uri].client = p.client
  BY Zenon, <1>1 DEF Claimed
<1>3. Closed.at # "authorize"
  BY DEF Closed, Page
<1> HIDE DEF Closed
<1>4. Claimed'
  BY Zenon, <1>1, <1>3, MoveClaimed
<1> HIDE DEF p
<1>5. Unspent'
  BY <1>1, <1>2 DEF Unspent
<1> QED BY Zenon, <1>1, <1>2, <1>4, <1>5

LEMMA ClaimedStep ==
  ASSUME Unspent, Claimed, Sessions, OnTrip, FlowNext(Visits) \/ Trips
  PROVE  Unspent' /\ Claimed'
<1>1. ASSUME NoCode, UNCHANGED <<par, pushed>>, Quiet
      PROVE  Unspent' /\ Claimed'
  BY Zenon, <1>1 DEF NoCode, Quiet, Unspent, Claimed
<1>2. ASSUME NoCode, UNCHANGED <<par, pushed>>, NEW t \in Tabs, NEW x, Moves(t, x)
      PROVE  Unspent' /\ Claimed'
  <2>1. spent' = spent /\ tab' = [tab EXCEPT ![t] = x]
    BY Zenon, <1>2 DEF NoCode, Moves
  <2>2. x.at = "authorize" => x.req.params.uri = 0
    BY <1>2 DEF Moves, Turns, Answers, LogsIn
  <2>3. Claimed'
    BY <1>2, <2>1, <2>2, MoveClaimed
  <2> QED BY <1>2, <2>1, <2>3 DEF Unspent
<1>3. ASSUME NEW t \in Tabs, UnknownUri(t)
      PROVE  Unspent' /\ Claimed'
  <2>1. /\ Take(tab[t].req.params.uri) /\ NoCode /\ pushed' = pushed /\ spent' = spent
        /\ tab' = [tab EXCEPT ![t] = Closed]
    BY Zenon, <1>3 DEF UnknownUri, NoCode
  <2>2. Unspent' /\ DOMAIN par' \subseteq DOMAIN par
    BY <2>1, TakeKeepsUnspent
  <2>3. Closed.at # "authorize"
    BY DEF Closed, Page
  <2> HIDE DEF Closed
  <2> QED BY <2>1, <2>2, <2>3, MoveClaimed
<1>4. CASE FlowNext(Visits)
  BY Zenon, <1>1, <1>2, <1>3, <1>4, FlowKinds, PushedClaimed, TakenClaimed, GrantSpends
<1>5. CASE Trips
  BY Zenon, <1>1, <1>2, <1>5, TripKinds, TripCodes
<1> QED BY <1>4, <1>5

(* Only TakePushed brings a request with a request_uri to its checks.       *)
LEMMA TakenOnly ==
  ASSUME Sessions, OnTrip, FlowNext(Visits) \/ Trips,
         NEW t \in Tabs, tab[t].at = "sent", tab'[t].at = "authorize"
  PROVE  TakePushed(t)
<1>1. ~Quiet
  BY DEF Quiet
<1>2. ASSUME NEW s \in Tabs, NEW x, Moves(s, x) PROVE FALSE
  <2>1. tab'[s] = x /\ \A r \in Tabs : r # s => tab'[r] = tab[r]
    BY <1>2 DEF Moves, Sessions
  <2>2. s = t
    BY Zenon, <2>1
  <2>3. Awaits(tab[t])
    BY DEF Awaits
  <2> QED BY <1>2, <2>1, <2>2, <2>3 DEF Moves, Turns, Answers, LogsIn
<1>3. ASSUME NEW c, Push(c) PROVE FALSE
  BY <1>3 DEF Push
<1>4. ASSUME NEW s \in Tabs, UnknownUri(s) \/ Grant(s) PROVE FALSE
  <2>1. tab' = [tab EXCEPT ![s] = Closed]
    BY Zenon, <1>4 DEF UnknownUri, Grant
  <2>2. tab'[s] = Closed /\ \A r \in Tabs : r # s => tab'[r] = tab[r]
    BY Zenon, <2>1 DEF Sessions
  <2>3. Closed.at = "closed"
    BY DEF Closed, Page
  <2> QED BY <2>2, <2>3
<1>5. ASSUME NEW s \in Tabs, TakePushed(s) PROVE TakePushed(t)
  <2>1. \A r \in Tabs : r # s => tab'[r] = tab[r]
    BY Zenon, <1>5, TakenPlace DEF Sessions
  <2>2. s = t
    BY Zenon, <2>1
  <2> QED BY <1>5, <2>2
<1> QED BY Zenon, <1>1, <1>2, <1>3, <1>4, <1>5, FlowKinds, TripKinds

(* The way from an authorization request to the login page is AskLogin.     *)
LEMMA LoginPageAsked ==
  ASSUME Sessions, OnTrip, FlowNext(Visits) \/ Trips,
         NEW t \in Tabs, tab[t].at = "authorize", tab'[t].at = "login"
  PROVE  AskLogin(t)
<1>0. tab' # tab
  OBVIOUS
<1>1. ASSUME NEW s \in Tabs, NEW x, tab' = [tab EXCEPT ![s] = x]
      PROVE  s = t /\ x.at = "login"
  BY <1>1 DEF Sessions
<1>2. ASSUME NEW s \in Tabs, TakePushed(s) \/ Resume(s)
      PROVE  FALSE
  <2>1. tab[s].at # "authorize" /\ \E x : tab' = [tab EXCEPT ![s] = x]
    BY <1>2 DEF TakePushed, Resume
  <2> QED BY Zenon, <1>1, <2>1
<1>3. ASSUME NEW s \in Tabs, NEW p, Visit(s, p)
      PROVE  FALSE
  <2>1. tab[s].at # "authorize" /\ \E x : tab' = [tab EXCEPT ![s] = x]
    BY Zenon, <1>3 DEF Visit
  <2> QED BY Zenon, <1>1, <2>1
<1>4. ASSUME NEW s \in Tabs, tab' = [tab EXCEPT ![s] = Closed]
      PROVE  FALSE
  BY <1>1, <1>4 DEF Closed, Page
<1>5. ASSUME NEW s \in Tabs,
             \/ UnknownUri(s) \/ ErrorPage(s) \/ ErrorRedirect(s)
             \/ LoginRequired(s) \/ Grant(s) \/ LogoutFails(s)
      PROVE  FALSE
  BY Zenon, <1>4, <1>5 DEF UnknownUri, ErrorPage, ErrorRedirect, LoginRequired, Grant, LogoutFails
<1>6. ASSUME NEW s \in Tabs, Logout(s) \/ Abandon(s) \/ Refuse(s) \/ Leave(s) \/ ProvisionFails(s)
      PROVE  FALSE
  BY Zenon, <1>4, <1>6 DEF Logout, Abandon, Refuse, Leave, ProvisionFails
<1>7. ASSUME NEW s \in Tabs, NEW x, tab' = [tab EXCEPT ![s] = x], tab[s].at # "authorize"
      PROVE  FALSE
  BY Zenon, <1>1, <1>7
<1>8. ASSUME NEW s \in Tabs, OpenLogin(s) \/ LoginFails(s)
      PROVE  FALSE
  BY Zenon, <1>7, <1>8 DEF OpenLogin, LoginFails
<1>9. ASSUME NEW s \in Tabs, Send(s, "login", "posted") \/ Send(s, "closed", "logout")
      PROVE  FALSE
  BY Zenon, <1>7, <1>9 DEF Send
<1>10. ASSUME NEW s \in Tabs, NEW u, Login(s, u)
       PROVE  FALSE
  BY Zenon, <1>7, <1>10 DEF Login
<1>11. ASSUME NEW s \in Tabs, AskLogin(s)
       PROVE  AskLogin(t)
  <2>1. s = t
    BY <1>1, <1>11 DEF AskLogin
  <2> QED BY <1>11, <2>1
<1>12. CASE FlowNext(Visits)
  <2>1. ASSUME NEW c, Push(c) PROVE FALSE
    BY <1>0, <2>1 DEF Push
  <2>2. ASSUME Tick PROVE FALSE
    BY <1>0, <2>2 DEF Tick
  <2> QED
    BY Zenon, <1>2, <1>3, <1>5, <1>6, <1>8, <1>9, <1>10, <1>11, <1>12, <2>1, <2>2 DEF FlowNext
<1>13. CASE Trips
  <2>1. ASSUME NEW s \in Tabs, NEW a, NEW u, SignIn(s, a, u),
               trip[s].at \notin {"none", "provider"}
        PROVE  FALSE
    <3>1. tab[s].at = "social"
      BY Zenon, <2>1 DEF OnTrip
    <3>2. \E x : tab' = [tab EXCEPT ![s] = x]
      BY Zenon, <2>1 DEF SignIn
    <3> QED BY Zenon, <1>7, <3>1, <3>2
  <2>2. ASSUME NEW s \in Tabs, NEW p, Follow(s, p) PROVE FALSE
    BY <1>7, <2>2 DEF Follow
  <2>3. ASSUME NEW s \in Tabs, Start(s) \/ Return(s) PROVE FALSE
    <3>1. trip[s].at \in {"starting", "provider"} /\ \E x : tab' = [tab EXCEPT ![s] = x]
      BY <2>3 DEF Start, Return
    <3>2. tab[s].at # "authorize"
      BY <3>1 DEF OnTrip
    <3> QED BY Zenon, <1>7, <3>1, <3>2
  <2>4. ASSUME NEW s \in Tabs, CallbackFails(s) \/ BreakerRefuses(s) \/ FetchFails(s) PROVE FALSE
    BY Zenon, <1>6, <2>4 DEF CallbackFails, BreakerRefuses, FetchFails
  <2>5. ASSUME NEW s \in Tabs, Fetch(s) PROVE FALSE
    BY Zenon, <1>0, <2>5 DEF Fetch
  <2>6. ASSUME NEW u, Edit(u) PROVE FALSE
    BY Zenon, <1>0, <2>6 DEF Edit
  <2>7. ASSUME NEW s \in Tabs, NEW a, FetchSucceeds(s, a) PROVE FALSE
    <3>1. trip[s].at = "fetching" /\ (tab' = tab \/ \E u : SignIn(s, a, u))
      BY Zenon, <2>7 DEF FetchSucceeds
    <3> QED BY <1>0, <2>1, <3>1
  <2>8. ASSUME NEW s \in Tabs, Link(s) PROVE FALSE
    <3>1. trip[s].at = "unknown" /\ (tab' = tab \/ \E u : SignIn(s, trip[s].account, u))
      BY Zenon, <2>8 DEF Link
    <3> QED BY <1>0, <2>1, <3>1
  <2>9. ASSUME NEW s \in Tabs, Provision(s) PROVE FALSE
    <3>1. trip[s].at = "unlinked" /\ \E u : SignIn(s, trip[s].account, u)
      BY Zenon, <2>9 DEF Provision
    <3> QED BY <2>1, <3>1
  <2> QED
    BY Zenon, <1>6, <1>13, <2>2, <2>3, <2>4, <2>5, <2>6, <2>7, <2>8, <2>9 DEF Trips
<1> QED BY <1>12, <1>13

(* The inductive invariant of the requests, the sessions and the codes.     *)
FlowInv == Sessions /\ OnTrip /\ Timely /\ Unspent /\ Claimed /\ ReauthHonoured

LEMMA FlowInvInit == Init /\ SocialInit => FlowInv
<1> SUFFICES ASSUME Init, SocialInit PROVE FlowInv
  OBVIOUS
<1>1. Sessions
  BY EmptyCarries, ClosedPlaced DEF Init, Sessions
<1>2. OnTrip
  BY Zenon DEF SocialInit, OnTrip, NoTrip, Stage, TripShape
<1>3. Unspent
  BY DEF Init, Unspent
<1>4. ReauthHonoured
  BY DEF Init, ReauthHonoured
<1>5. \A t \in Tabs : tab[t].at = "closed"
  BY DEF Init, Closed, Page
<1>6. Timely /\ Claimed
  BY <1>5 DEF Timely, Claimed
<1> QED BY <1>1, <1>2, <1>3, <1>4, <1>6 DEF FlowInv

LEMMA SocialSteps ==
  ASSUME SocialNext(Visits)
  PROVE  /\ Trips \/ (FlowNext(Visits) /\ signed' = None /\ UNCHANGED <<trip, rows, breaker>>)
         /\ Observe
BY DEF SocialNext

LEMMA FlowInvStep ==
  ASSUME FlowInv, [SocialNext(Visits)]_allVars
  PROVE  FlowInv'
<1>0. Sessions /\ OnTrip /\ Timely /\ Unspent /\ Claimed /\ pushed \in Seq(Entry)
  BY DEF FlowInv, Unspent
<1>1. CASE UNCHANGED allVars
  <2>1. Sessions' /\ OnTrip' /\ Unspent' /\ ReauthHonoured'
    BY <1>1 DEF allVars, vars, socialVars, FlowInv, Sessions, OnTrip, Unspent, ReauthHonoured
  <2>2. Timely' /\ Claimed'
    BY Zenon, <1>0, <1>1 DEF allVars, vars, observed, Timely, Claimed
  <2> QED BY <2>1, <2>2 DEF FlowInv
<1>2. CASE Trips /\ Observe
  <2>1. Sessions' /\ OnTrip' /\ Unspent' /\ Claimed' /\ ReauthHonoured'
    BY <1>0, <1>2, TripSessions, TripOnTrip, ClaimedStep, TripCodes, NoCodeHonours
  <2>2. Quiet => Timely'
    BY <1>0, <1>2, QuietTimely DEF Quiet
  <2>3. Timely'
    BY Zenon, <1>0, <1>2, <2>1, <2>2, TripKinds, MoveTimely
  <2> QED BY <2>1, <2>3 DEF FlowInv
<1>3. CASE /\ FlowNext(Visits) /\ signed' = None /\ UNCHANGED <<trip, rows, breaker>>
           /\ Observe
  <2>1. ReauthHonoured'
    BY <1>0, <1>3, FlowCodes, GrantHonours, NoCodeHonours
  <2>2. Sessions' /\ OnTrip' /\ Unspent' /\ Claimed'
    BY <1>0, <1>3, FlowSessions, FlowOnTrip, ClaimedStep
  <2>3. Timely'
    BY Zenon, <1>0, <1>3, <2>2, FlowTimely
  <2> QED BY <2>1, <2>2, <2>3 DEF FlowInv
<1> QED BY <1>1, <1>2, <1>3, SocialSteps

(* prompt=login and max_age are honoured for every number of tabs, clients, *)
(* users and providers, every kind of request and every lifetime, whichever *)
(* tab the login happens in and however its user signs in; the only code on *)
(* an older login is one whose redirect was overtaken by the late answer of *)
(* a request sent before the login.                                         *)
THEOREM ReauthAlwaysHonoured == SocialSpec => []ReauthHonoured
<1>1. FlowInv /\ [SocialNext(Visits)]_allVars => FlowInv'
  BY FlowInvStep
<1>2. FlowInv => ReauthHonoured
  BY DEF FlowInv
<1> QED BY FlowInvInit, <1>1, <1>2, PTL DEF SocialSpec, allVars

(* A pushed request yields one code at most, to the client that pushed it,  *)
(* and is taken in time, whatever other tabs and clients present meanwhile. *)
THEOREM PushedAtMostOnce == SocialSpec => PushedOnce
<1>1. FlowInv /\ [SocialNext(Visits)]_allVars => FlowInv'
  BY FlowInvStep
<1> DEFINE Code1 == (code' # None /\ code'.req.params.uri # 0) =>
                       LET uri == code'.req.params.uri IN
                       uri \notin spent /\ pushed[uri].client = code'.req.params.client
           Take1 == \A t \in Tabs :
                       (tab[t].at = "sent" /\ tab'[t].at = "authorize")
                       => now - pushed[tab[t].req.params.uri].created_at < ParTTL
<1>2. ASSUME FlowInv, [SocialNext(Visits)]_allVars
      PROVE  [Code1 /\ Take1]_vars
  <2>0. Unspent /\ Claimed /\ Sessions /\ OnTrip
    BY <1>2 DEF FlowInv
  <2>1. CASE UNCHANGED vars
    BY <2>1
  <2>2. CASE SocialNext(Visits)
    <3>1. FlowNext(Visits) \/ Trips
      BY <2>2, SocialSteps
    <3>2. code' = None \/ \E t \in Tabs : Grant(t)
      BY <2>0, <3>1, TripCodes, FlowCodes DEF NoCode
    <3>3. Code1
      BY Zenon, <2>0, <3>2, GrantSpends
    <3>4. Take1
      BY Zenon, <2>0, <3>1, TakenOnly, TakenFound
    <3> QED BY <3>3, <3>4
  <2> QED BY <1>2, <2>1, <2>2 DEF allVars
<1> QED BY FlowInvInit, <1>1, <1>2, PTL DEF SocialSpec, allVars, PushedOnce

(* A request that was at the login page and has a session is not sent there *)
(* again, but for select_account.                                           *)
THEOREM NeverLoopsAtLogin == SocialSpec => NoLoginLoop
<1>1. FlowInv /\ [SocialNext(Visits)]_allVars => FlowInv'
  BY FlowInvStep
<1>2. ASSUME FlowInv, [SocialNext(Visits)]_allVars
      PROVE  [\A t \in Tabs :
                (tab[t].at = "authorize" /\ tab[t].req.asked /\ tab'[t].at = "login")
                => tab[t].sess.user = None
                   \/ "select_account" \in tab[t].req.first.prompt]_vars
  <2> SUFFICES ASSUME SocialNext(Visits), NEW t \in Tabs,
                      tab[t].at = "authorize", tab[t].req.asked, tab'[t].at = "login"
               PROVE  \/ tab[t].sess.user = None
                      \/ "select_account" \in tab[t].req.first.prompt
    BY Zenon, <1>2 DEF allVars
  <2>1. AskLogin(t)
    BY Zenon, <1>2, SocialSteps, LoginPageAsked DEF FlowInv
  <2> DEFINE q == tab[t].req
  <2>2. NeedsLogin(tab[t].sess, q.params)
    BY Zenon, <2>1 DEF AskLogin
  <2>3. q.params.max_age = None /\ q.params.prompt \subseteq q.first.prompt \ {"login"}
    BY Zenon, <1>2, <2>1 DEF FlowInv, Sessions, Placed, Underway, Resumable
  <2> QED BY Zenon, <2>2, <2>3 DEF NeedsLogin, AuthExpired, ForceLogin
<1> QED BY FlowInvInit, <1>1, <1>2, PTL DEF SocialSpec, allVars, NoLoginLoop
-----------------------------------------------------------------------------
(***************************************************************************)
(* Rows.                                                                   *)
(***************************************************************************)

(* The rows of an account are one at most.                                  *)
LEMMA OwnIsOne ==
  ASSUME Owned, NEW a \in Accounts, NEW u \in Own(a)
  PROVE  Own(a) = {u}
BY SocialAssumption DEF Owned, Own

(* _link_by_verified_email finds the only row with the address, so that of  *)
(* the account if that has been created meanwhile.                          *)
LEMMA CandidateAlone ==
  ASSUME Owned, NEW a \in Accounts, NEW u \in Candidates(a)
  PROVE  /\ LinkByEmail /\ a.provider \in Verifying
         /\ {v \in DOMAIN rows : rows[v].email = a.email} = {u}
         /\ rows[u].linkable
         /\ Own(a) \subseteq {u}
<1> DEFINE same == {v \in DOMAIN rows : rows[v].email = a.email}
<1>1. /\ LinkByEmail /\ a.provider \in Verifying
      /\ same = {u} /\ rows[u].linkable
  BY Zenon DEF Candidates
<1>2. Own(a) \subseteq same
  BY Zenon, SocialAssumption DEF Owned, Own
<1> QED BY <1>1, <1>2

(* The row of a new account.                                                *)
LEMMA ProvisionOwned ==
  ASSUME Owned, NEW a \in Accounts, Own(a) = {}, NEW u,
         rows' = With(rows, u, [owner |-> a, email |-> a.email, linkable |-> TRUE])
  PROVE  Owned' /\ {v \in DOMAIN rows' : rows'[v].owner = a} = {u}
<1>1. /\ DOMAIN rows' = DOMAIN rows \cup {u}
      /\ rows'[u] = [owner |-> a, email |-> a.email, linkable |-> TRUE]
      /\ \A v \in DOMAIN rows \ {u} : rows'[v] = rows[v]
  BY DEF With
<1>2. /\ rows'[u].owner = a /\ rows'[u].email = a.email
      /\ rows'[u] = [owner |-> rows'[u].owner, email |-> rows'[u].email,
                     linkable |-> rows'[u].linkable]
  BY <1>1
<1>3. \A v \in DOMAIN rows : rows[v].owner # a
  BY DEF Own
<1>4. \A v \in DOMAIN rows' : rows'[v].owner = a => v = u
  BY Zenon, <1>1, <1>3
<1>5. \A v, w \in DOMAIN rows' :
        rows'[v].owner = rows'[w].owner /\ rows'[v].owner # None => v = w
  <2> SUFFICES ASSUME NEW v \in DOMAIN rows', NEW w \in DOMAIN rows',
                      rows'[v].owner = rows'[w].owner, rows'[v].owner # None
               PROVE  v = w
    BY Zenon
  <2>1. CASE rows'[v].owner = a
    BY Zenon, <1>4, <2>1
  <2>2. CASE rows'[v].owner # a
    <3>1. /\ v \in DOMAIN rows /\ rows'[v] = rows[v]
          /\ w \in DOMAIN rows /\ rows'[w] = rows[w]
      BY Zenon, <1>1, <1>2, <2>2
    <3> QED BY <3>1 DEF Owned
  <2> QED BY <2>1, <2>2
<1>6. \A v \in DOMAIN rows' :
        /\ rows'[v] = [owner |-> rows'[v].owner, email |-> rows'[v].email,
                       linkable |-> rows'[v].linkable]
        /\ rows'[v].owner # None => rows'[v].email = rows'[v].owner.email
  BY ZenonT(60), <1>1, <1>2 DEF Owned
<1> QED BY ZenonT(40), <1>1, <1>2, <1>4, <1>5, <1>6 DEF Owned

LEMMA EditOwned ==
  ASSUME Owned, NEW u \in DOMAIN rows, Edit(u)
  PROVE  Owned' /\ signed' = None
<1> DEFINE y == rows[u]
           b == ~y.linkable
           z == [y EXCEPT !.linkable = b]
<1>1. rows' = [rows EXCEPT ![u] = z] /\ signed' = None
  BY DEF Edit, NoSignIn
<1>2. y = [owner |-> y.owner, email |-> y.email, linkable |-> y.linkable]
  BY DEF Owned
<1>3. z = [owner |-> y.owner, email |-> y.email, linkable |-> b]
  <2> HIDE DEF y, b
  <2> QED BY <1>2
<1>4. z.owner = y.owner /\ z.email = y.email
      /\ z = [owner |-> z.owner, email |-> z.email, linkable |-> z.linkable]
  <2> HIDE DEF y, b, z
  <2> QED BY <1>3
<1> HIDE DEF z
<1>5. DOMAIN rows' = DOMAIN rows /\ \A v \in DOMAIN rows : rows'[v] = IF v = u THEN z ELSE rows[v]
  BY <1>1
<1>6. \A v \in DOMAIN rows : rows'[v].owner = rows[v].owner /\ rows'[v].email = rows[v].email
  BY <1>4, <1>5
<1>7. \A v \in DOMAIN rows : rows'[v] = [owner |-> rows'[v].owner, email |-> rows'[v].email,
                                         linkable |-> rows'[v].linkable]
  BY <1>4, <1>5 DEF Owned
<1> QED BY <1>1, <1>5, <1>6, <1>7 DEF Owned

(* The step that OwnAccount allows.                                         *)
SignsInto ==
    signed' # None =>
        LET a == signed'.account
            u == signed'.user
            own == {v \in DOMAIN rows' : rows'[v].owner = a}
        IN  \/ own = {u}
            \/ /\ own = {}
               /\ LinkByEmail /\ a.provider \in Verifying
               /\ rows[u].linkable
               /\ {v \in DOMAIN rows : rows[v].email = a.email} = {u}

LEMMA TripOwned ==
  ASSUME Owned, OnTrip, Trips
  PROVE  Owned' /\ SignsInto
<1>0. ASSUME rows' = rows PROVE Owned'
  BY <1>0 DEF Owned
<1>1. ASSUME rows' = rows, signed' = None PROVE Owned' /\ SignsInto
  BY <1>0, <1>1 DEF SignsInto
<1>2. ASSUME NEW t, NEW p, Follow(t, p) PROVE rows' = rows /\ signed' = None
  BY Zenon, <1>2 DEF Follow, NoSignIn
<1>3. ASSUME NEW t, Start(t) \/ Return(t) \/ Leave(t) \/ ProvisionFails(t)
      PROVE  rows' = rows /\ signed' = None
  BY Zenon, <1>3 DEF Start, Return, Leave, ProvisionFails, NoSignIn
<1>4. ASSUME NEW t, CallbackFails(t) \/ BreakerRefuses(t) \/ FetchFails(t) \/ Fetch(t)
      PROVE  rows' = rows /\ signed' = None
  BY Zenon, <1>4 DEF CallbackFails, BreakerRefuses, FetchFails, Fetch, Refuse, NoSignIn
<1>5. ASSUME NEW u \in DOMAIN rows, Edit(u) PROVE Owned' /\ SignsInto
  BY <1>5, EditOwned DEF SignsInto
<1>6. ASSUME NEW t \in Tabs, NEW a \in Accounts, FetchSucceeds(t, a)
      PROVE  Owned' /\ SignsInto
  <2>1. rows' = rows /\ (signed' = None \/ \E u \in Own(a) : SignIn(t, a, u))
    BY Zenon, <1>6 DEF FetchSucceeds, NoSignIn
  <2>2. ASSUME NEW u \in Own(a), SignIn(t, a, u) PROVE SignsInto
    <3>1. signed' = [account |-> a, user |-> u] /\ {v \in DOMAIN rows : rows[v].owner = a} = {u}
      BY <2>2, OwnIsOne DEF SignIn, Own
    <3> QED BY Zenon, <2>1, <3>1 DEF SignsInto
  <2> QED BY <1>0, <1>1, <2>1, <2>2
<1>7. ASSUME NEW t \in Tabs, Link(t) PROVE Owned' /\ SignsInto
  <2> DEFINE a == trip[t].account
  <2>1. /\ rows' = rows /\ trip[t].at = "unknown"
        /\ signed' = None \/ \E u \in Candidates(a) : SignIn(t, a, u)
    BY Zenon, <1>7 DEF Link, NoSignIn
  <2>2. a \in Accounts
    BY Zenon, <2>1 DEF OnTrip
  <2> HIDE DEF a
  <2>3. ASSUME NEW u \in Candidates(a), SignIn(t, a, u) PROVE SignsInto
    <3>1. signed' = [account |-> a, user |-> u]
      BY Zenon, <2>3 DEF SignIn
    <3>2. Own(a) = {} \/ Own(a) = {u}
      BY <2>2, CandidateAlone
    <3> QED BY <2>1, <2>2, <3>1, <3>2, CandidateAlone DEF SignsInto, Own
  <2> QED BY <1>0, <1>1, <2>1, <2>3
<1>8. ASSUME NEW t \in Tabs, Provision(t) PROVE Owned' /\ SignsInto
  <2> DEFINE a == trip[t].account
             u == CHOOSE v \in Users : v \notin DOMAIN rows
  <2>1. /\ trip[t].at = "unlinked" /\ Own(a) = {}
        /\ rows' = With(rows, u, [owner |-> a, email |-> a.email, linkable |-> TRUE])
        /\ SignIn(t, a, u)
    BY Zenon, <1>8 DEF Provision
  <2>2. a \in Accounts
    BY Zenon, <2>1 DEF OnTrip
  <2> HIDE DEF a, u
  <2>3. Owned' /\ {v \in DOMAIN rows' : rows'[v].owner = a} = {u}
    BY Zenon, <2>1, <2>2, ProvisionOwned
  <2>4. signed' = [account |-> a, user |-> u]
    BY <2>1 DEF SignIn
  <2> QED BY Zenon, <2>3, <2>4 DEF SignsInto
<1> QED BY Zenon, <1>1, <1>2, <1>3, <1>4, <1>5, <1>6, <1>7, <1>8 DEF Trips

LEMMA OwnedInit == SocialInit => Owned
<1> SUFFICES ASSUME SocialInit PROVE Owned
  OBVIOUS
<1>1. /\ DOMAIN rows = Locals
      /\ \A u \in Locals : rows[u] \in [owner : {None}, email : Emails, linkable : BOOLEAN]
  BY DEF SocialInit
<1> QED BY <1>1, SocialAssumption DEF Owned

(* However callbacks, look-ups by address, saves and an administrator's     *)
(* edits interleave, and for every set of providers, accounts and rows, a   *)
(* sign-in ends in the row of the account, or in the only row that has its  *)
(* address when linking is allowed.                                         *)
THEOREM SignsIntoOwnAccount == SocialSpec => OwnAccount
<1> DEFINE RowInv == FlowInv /\ Owned
<1>1. Init /\ SocialInit => RowInv
  BY FlowInvInit, OwnedInit
<1>2. ASSUME RowInv, [SocialNext(Visits)]_allVars
      PROVE  RowInv' /\ [SignsInto]_allVars
  <2>1. FlowInv'
    BY Zenon, <1>2, FlowInvStep
  <2>2. CASE UNCHANGED allVars
    BY Zenon, <1>2, <2>1, <2>2 DEF allVars, socialVars, Owned
  <2>3. CASE Trips
    BY Zenon, <1>2, <2>1, <2>3, TripOwned DEF FlowInv
  <2>4. CASE signed' = None /\ rows' = rows
    BY Zenon, <1>2, <2>1, <2>4 DEF SignsInto, Owned
  <2> QED BY <1>2, <2>2, <2>3, <2>4, SocialSteps
<1> HIDE DEF RowInv
<1> QED BY <1>1, <1>2, PTL DEF SocialSpec, allVars, OwnAccount, SignsInto
-----------------------------------------------------------------------------
(***************************************************************************)
(* Breakers.                                                               *)
(***************************************************************************)

LEMMA HealthySound ==
  ASSUME NEW n \in Nat
  PROVE  Sound(Healthy, n) /\ ~Healthy.probe_in_flight
<1>1. Healthy \in Breaker
  BY DEF Healthy, Breaker
<1>2. /\ Healthy.opened_at = 0 /\ Healthy.probes = <<>> /\ ~Healthy.probe_in_flight
      /\ Len(Healthy.probes) = 0
  BY DEF Healthy
<1> HIDE DEF Healthy
<1> QED BY <1>1, <1>2 DEF Sound

LEMMA SoundLater ==
  ASSUME NEW b, NEW n \in Nat, NEW m \in Nat, n <= m, Sound(b, n)
  PROVE  Sound(b, m)
<1>1. b.opened_at \in Nat /\ (b.probes # <<>> => b.probes[Len(b.probes)] \in Nat)
  BY DEF Sound, Breaker
<1> QED BY <1>1 DEF Sound

(* What is older than an opening is further away than the opening is.       *)
LEMMA Further ==
  ASSUME NEW n \in Nat, NEW o \in Nat, NEW x \in Nat, NEW k \in Nat, n - o >= k, x <= o
  PROVE  n - x >= k
OBVIOUS

(* allow while open: the cool-down has passed since the last failure, and   *)
(* so since the last probe.                                                 *)
LEMMA AdmitSound ==
  ASSUME NEW n \in Nat, NEW b, Sound(b, n), Allows(b, n)
  PROVE  Sound(Admit(b, n), n)
<1>1. CASE ~b.open
  BY <1>1 DEF Admit
<1>2. CASE b.open
  <2> DEFINE s == b.probes
             d == Append(s, n)
             c == Admit(b, n)
  <2>1. b \in Breaker /\ s \in Seq(Nat) /\ b.opened_at \in Nat
    BY DEF Sound, Breaker
  <2>2. c = [b EXCEPT !.probe_in_flight = TRUE, !.probes = d] /\ d \in Seq(Nat)
    BY <1>2, <2>1 DEF Admit
  <2>3. n - b.opened_at >= Cooldown /\ ~b.probe_in_flight
    BY <1>2 DEF Allows, CooldownElapsed
  <2> HIDE DEF c, d
  <2>4. /\ c.open = b.open /\ c.opened_at = b.opened_at /\ c.probe_in_flight
        /\ c.probes = d /\ c \in Breaker
    BY Zenon, <2>1, <2>2 DEF Breaker
  <2>5. /\ Len(c.probes) = Len(s) + 1 /\ c.probes[Len(s) + 1] = n /\ Len(s) \in Nat
        /\ \A i \in 1..Len(s) : c.probes[i] = s[i] /\ s[i] \in Nat
        /\ c.probes # <<>>
    BY <2>1, <2>4 DEF d
  <2>6. ASSUME NEW i \in 1..(Len(c.probes) - 1)
        PROVE  c.probes[i + 1] - c.probes[i] >= Cooldown
    <3>1. CASE i = Len(s)
      <4>1. s # <<>>
        BY <2>5, <3>1
      <4>2. s[i] <= b.opened_at /\ s[i] \in Nat
        BY <2>3, <2>5, <3>1, <4>1 DEF Sound
      <4>3. c.probes[i + 1] = n /\ c.probes[i] = s[i]
        BY <2>5, <3>1
      <4>4. Cooldown \in Nat
        BY Zenon, SocialAssumption
      <4>5. n - s[i] >= Cooldown
        BY Zenon, <2>1, <2>3, <4>2, <4>4, Further
      <4> QED BY Zenon, <4>3, <4>5
    <3>2. CASE i # Len(s)
      <4>1. i \in 1..(Len(s) - 1) /\ i \in 1..Len(s) /\ i + 1 \in 1..Len(s)
        BY <2>5, <3>2
      <4> QED BY Zenon, <2>5, <4>1 DEF Sound
    <3> QED BY <3>1, <3>2
  <2>7. Sound(c, n)
    BY <1>2, <2>4, <2>5, <2>6 DEF Sound
  <2> QED BY Zenon, <2>7 DEF c
<1> QED BY <1>1, <1>2

(* record_failure frees the slot and starts the cool-down, whoever fails.   *)
LEMMA FailureSound ==
  ASSUME NEW n \in Nat, NEW b, Sound(b, n)
  PROVE  Sound(RecordFailure(b, n), n) /\ ~RecordFailure(b, n).probe_in_flight
<1> DEFINE c == RecordFailure(b, n)
<1>0. b \in Breaker /\ b.failures \in Nat
  BY DEF Sound, Breaker
<1>1. CASE b.open
  <2>1. c = [b EXCEPT !.opened_at = n, !.probe_in_flight = FALSE]
    BY <1>1 DEF RecordFailure
  <2> HIDE DEF c
  <2>2. /\ c.open = b.open /\ c.opened_at = n /\ ~c.probe_in_flight
        /\ c.probes = b.probes /\ c \in Breaker
    BY Zenon, <1>0, <2>1 DEF Breaker
  <2>3. Sound(c, n) /\ ~c.probe_in_flight
    BY <1>1, <2>2 DEF Sound
  <2> QED BY <2>3 DEF c
<1>2. CASE ~b.open /\ b.failures + 1 >= FailureThreshold
  <2>1. c = [b EXCEPT !.open = TRUE, !.opened_at = n, !.failures = 0]
    BY <1>2 DEF RecordFailure
  <2> HIDE DEF c
  <2>2. /\ c.open = TRUE /\ c.opened_at = n /\ c.probe_in_flight = b.probe_in_flight
        /\ c.probes = b.probes /\ c \in Breaker
    BY Zenon, <1>0, <2>1 DEF Breaker
  <2>3. Sound(c, n) /\ ~c.probe_in_flight
    BY <1>2, <2>2 DEF Sound
  <2> QED BY <2>3 DEF c
<1>3. CASE ~b.open /\ ~(b.failures + 1 >= FailureThreshold)
  <2>1. c = [b EXCEPT !.failures = b.failures + 1]
    BY <1>3 DEF RecordFailure
  <2> HIDE DEF c
  <2>2. /\ c.open = b.open /\ c.opened_at = b.opened_at /\ c.probe_in_flight = b.probe_in_flight
        /\ c.probes = b.probes /\ c \in Breaker
    BY <1>0, <2>1 DEF Breaker
  <2>3. Sound(c, n) /\ ~c.probe_in_flight
    BY Zenon, <1>3, <2>2 DEF Sound
  <2> QED BY <2>3 DEF c
<1> QED BY Zenon, <1>1, <1>2, <1>3

(* A step of one trip: a slot is held by the probe that held it, or by this *)
(* trip.                                                                    *)
LEMMA ProbingKeeps ==
  ASSUME Probing, NEW t \in Tabs, \A s \in Tabs : s # t => trip'[s] = trip[s], now' = now,
         breaker' = [q \in Providers |-> breaker'[q]],
         \A q \in Providers : Sound(breaker'[q], now),
         \A q \in Providers : breaker'[q].probe_in_flight =>
            \/ /\ breaker[q].probe_in_flight
               /\ ~(trip[t].at = "fetching" /\ trip[t].provider = q)
            \/ trip'[t].at = "fetching" /\ trip'[t].provider = q /\ trip'[t].probe
  PROVE  Probing'
<1>1. ASSUME NEW q \in Providers, breaker'[q].probe_in_flight
      PROVE  \E s \in Tabs : trip'[s].at = "fetching" /\ trip'[s].provider = q /\ trip'[s].probe
  <2>1. CASE trip'[t].at = "fetching" /\ trip'[t].provider = q /\ trip'[t].probe
    BY Zenon, <2>1
  <2>2. CASE /\ breaker[q].probe_in_flight
             /\ ~(trip[t].at = "fetching" /\ trip[t].provider = q)
    <3>1. PICK s \in Tabs : trip[s].at = "fetching" /\ trip[s].provider = q /\ trip[s].probe
      BY Zenon, <2>2 DEF Probing
    <3> QED BY Zenon, <2>2, <3>1
  <2> QED BY Zenon, <1>1, <2>1, <2>2
<1> QED BY Zenon, <1>1 DEF Probing

(* The end of a fetch, whose breaker hears of it.                           *)
LEMMA ReportProbing ==
  ASSUME Probing, NEW t \in Tabs, \A s \in Tabs : s # t => trip'[s] = trip[s], now' = now,
         NEW c, breaker' = [breaker EXCEPT ![trip[t].provider] = c],
         Sound(c, now), ~c.probe_in_flight
  PROVE  Probing'
<1>1. /\ breaker' = [q \in Providers |-> breaker'[q]]
      /\ \A q \in Providers : breaker'[q] = IF q = trip[t].provider THEN c ELSE breaker[q]
  BY DEF Probing
<1>2. \A q \in Providers : Sound(breaker'[q], now)
  BY <1>1 DEF Probing
<1>3. \A q \in Providers : breaker'[q].probe_in_flight
        => breaker[q].probe_in_flight /\ trip[t].provider # q
  BY <1>1
<1> QED BY ZenonT(40), <1>1, <1>2, <1>3, ProbingKeeps

LEMMA TripProbing ==
  ASSUME Probing, OnTrip, Trips
  PROVE  Probing'
<1>0. now \in Nat /\ now' = now /\ \A q \in Providers : Sound(breaker[q], now)
  BY TripCodes DEF Probing
<1>1. ASSUME NEW t \in Tabs, NEW y, trip' = [trip EXCEPT ![t] = y]
      PROVE  trip'[t] = y /\ \A s \in Tabs : s # t => trip'[s] = trip[s]
  BY <1>1 DEF OnTrip
<1>2. ASSUME NEW t \in Tabs, NEW y, trip' = [trip EXCEPT ![t] = y],
             trip[t].at # "fetching", breaker' = breaker
      PROVE  Probing'
  <2>1. \A s \in Tabs : s # t => trip'[s] = trip[s]
    BY <1>1, <1>2
  <2> QED BY <1>0, <1>2, <2>1, ProbingKeeps DEF Probing
<1>3. ASSUME NEW t \in Tabs, NEW p, Follow(t, p) PROVE Probing'
  <2>1. trip[t].at = "none"
    BY <1>3 DEF Follow, OnTrip
  <2> QED BY Zenon, <1>2, <1>3, <2>1 DEF Follow
<1>4. ASSUME NEW t \in Tabs, Start(t) \/ Return(t) PROVE Probing'
  <2>1. trip[t].at # "fetching" /\ breaker' = breaker /\ \E y : trip' = [trip EXCEPT ![t] = y]
    BY <1>4 DEF Start, Return
  <2> QED BY Zenon, <1>2, <2>1
<1>5. ASSUME NEW t \in Tabs, Leave(t) \/ ProvisionFails(t) \/ CallbackFails(t) \/ BreakerRefuses(t)
      PROVE  Probing'
  <2>1. trip[t].at # "fetching" /\ breaker' = breaker /\ \E y : trip' = [trip EXCEPT ![t] = y]
    BY <1>5 DEF Leave, ProvisionFails, CallbackFails, BreakerRefuses, Refuse
  <2> QED BY Zenon, <1>2, <2>1
<1>6. ASSUME NEW t \in Tabs, Fetch(t) PROVE Probing'
  <2> DEFINE y == trip[t]
             p == y.provider
             b == breaker[p]
             c == Admit(b, now)
             o == b.open
             x == [y EXCEPT !.at = "fetching"]
             z == [x EXCEPT !.probe = o]
  <2>1. /\ y.at = "callback" /\ Allows(b, now)
        /\ breaker' = [breaker EXCEPT ![p] = c]
        /\ trip' = [trip EXCEPT ![t] = z]
    BY Zenon, <1>6 DEF Fetch
  <2>2. TripShape(y)
    BY DEF OnTrip
  <2>3. z.at = "fetching" /\ z.provider = p /\ z.probe = o
    <3> HIDE DEF y, o
    <3>1. x = [at |-> "fetching", provider |-> y.provider, state |-> y.state,
               account |-> y.account, probe |-> y.probe]
      BY <2>2 DEF TripShape
    <3> HIDE DEF x
    <3> QED BY <3>1
  <2> HIDE DEF z
  <2>4. trip'[t] = z /\ \A s \in Tabs : s # t => trip'[s] = trip[s]
    BY Zenon, <1>1, <2>1
  <2>5. /\ breaker' = [q \in Providers |-> breaker'[q]]
        /\ \A q \in Providers : breaker'[q] = IF q = p THEN c ELSE breaker[q]
    BY <2>1 DEF Probing
  <2>6. p \in Providers => Sound(b, now) /\ Sound(c, now)
    BY <1>0, <2>1, AdmitSound
  <2>7. \A q \in Providers : Sound(breaker'[q], now)
    BY <1>0, <2>5, <2>6
  <2>8. p \in Providers /\ c.probe_in_flight => o
    <3> SUFFICES ASSUME p \in Providers, ~b.open PROVE ~c.probe_in_flight
      OBVIOUS
    <3>1. c = b
      BY Zenon DEF Admit
    <3> QED BY Zenon, <2>6, <3>1 DEF Sound
  <2>9. \A q \in Providers : breaker'[q].probe_in_flight =>
            \/ breaker[q].probe_in_flight
            \/ trip'[t].at = "fetching" /\ trip'[t].provider = q /\ trip'[t].probe
    <3> HIDE DEF p, c, o
    <3> QED BY Zenon, <2>3, <2>4, <2>5, <2>8
  <2> QED BY ZenonT(40), <1>0, <2>1, <2>4, <2>5, <2>7, <2>9, ProbingKeeps
<1>7. ASSUME NEW t \in Tabs, FetchFails(t) PROVE Probing'
  <2> DEFINE p == trip[t].provider
             c == RecordFailure(breaker[p], now)
  <2>1. breaker' = [breaker EXCEPT ![p] = c] /\ trip' = [trip EXCEPT ![t] = NoTrip]
    BY Zenon, <1>7 DEF FetchFails, Refuse
  <2>2. \A s \in Tabs : s # t => trip'[s] = trip[s]
    BY Zenon, <1>1, <2>1
  <2>3. CASE p \in Providers
    BY ZenonT(40), <1>0, <2>1, <2>2, <2>3, FailureSound, ReportProbing
  <2>4. CASE p \notin Providers
    <3>1. breaker' = breaker
      BY <2>1, <2>4 DEF Probing
    <3>2. \A q \in Providers : trip[t].provider # q
      BY Zenon, <2>4
    <3> QED BY <1>0, <2>2, <3>1, <3>2, ProbingKeeps DEF Probing
  <2> QED BY Zenon, <2>3, <2>4
<1>8. ASSUME NEW t \in Tabs, NEW a \in Accounts, FetchSucceeds(t, a) PROVE Probing'
  <2>1. /\ breaker' = [breaker EXCEPT ![trip[t].provider] = Healthy]
        /\ \E y : trip' = [trip EXCEPT ![t] = y]
    <3>1. /\ a.provider = trip[t].provider
          /\ breaker' = [breaker EXCEPT ![a.provider] = RecordSuccess(@)]
          /\ \/ \E u : SignIn(t, a, u)
             \/ \E y : trip' = [trip EXCEPT ![t] = y]
      BY Zenon, <1>8 DEF FetchSucceeds
    <3> QED BY <3>1 DEF SignIn, RecordSuccess
  <2>2. \A s \in Tabs : s # t => trip'[s] = trip[s]
    BY <1>1, <2>1
  <2> QED BY Zenon, <1>0, <2>1, <2>2, HealthySound, ReportProbing
<1>9. ASSUME NEW t \in Tabs, Link(t) \/ Provision(t) PROVE Probing'
  <2>1. /\ trip[t].at # "fetching" /\ breaker' = breaker
        /\ \/ \E a, u : SignIn(t, a, u)
           \/ \E y : trip' = [trip EXCEPT ![t] = y]
    BY <1>9 DEF Link, Provision
  <2>2. \E y : trip' = [trip EXCEPT ![t] = y]
    BY <2>1 DEF SignIn
  <2> QED BY Zenon, <1>2, <2>1, <2>2
<1>10. ASSUME NEW u, Edit(u) PROVE Probing'
  BY <1>10 DEF Edit, Probing
<1> QED
  BY Zenon, <1>3, <1>4, <1>5, <1>6, <1>7, <1>8, <1>9, <1>10 DEF Trips

(* Time only moves forward.                                                 *)
LEMMA FlowTime ==
  ASSUME FlowNext(Visits)
  PROVE  now' = now \/ now' = now + 1
<1>1. ASSUME NEW c, Push(c) PROVE now' = now
  BY Zenon, <1>1 DEF Push
<1>2. ASSUME Tick PROVE now' = now + 1
  BY Zenon, <1>2 DEF Tick
<1>3. ASSUME NEW t, NEW p, Visit(t, p) PROVE now' = now
  BY Zenon, <1>3 DEF Visit
<1>4. ASSUME NEW t,
             \/ TakePushed(t) \/ UnknownUri(t) \/ Resume(t)
             \/ ErrorPage(t) \/ ErrorRedirect(t) \/ LoginRequired(t) \/ AskLogin(t) \/ Grant(t)
      PROVE  now' = now
  BY Zenon, <1>4 DEF TakePushed, UnknownUri, Resume, ErrorPage, ErrorRedirect, LoginRequired, AskLogin, Grant
<1>5. ASSUME NEW t, OpenLogin(t) \/ LoginFails(t) \/ Logout(t) \/ LogoutFails(t) \/ Abandon(t)
      PROVE  now' = now
  BY Zenon, <1>5 DEF OpenLogin, LoginFails, Logout, LogoutFails, Abandon
<1>6. ASSUME NEW t, Send(t, "login", "posted") \/ Send(t, "closed", "logout") PROVE now' = now
  BY Zenon, <1>6 DEF Send
<1>7. ASSUME NEW t, NEW u, Login(t, u) PROVE now' = now
  BY Zenon, <1>7 DEF Login
<1> QED BY Zenon, <1>1, <1>2, <1>3, <1>4, <1>5, <1>6, <1>7 DEF FlowNext

LEMMA ProbingInit == Init /\ SocialInit => Probing
<1> SUFFICES ASSUME Init, SocialInit PROVE Probing
  OBVIOUS
<1>1. now = 0 /\ breaker = [p \in Providers |-> Healthy]
  BY DEF Init, SocialInit
<1>2. Sound(Healthy, 0) /\ ~Healthy.probe_in_flight
  BY HealthySound
<1> HIDE DEF Healthy
<1> QED BY Zenon, <1>1, <1>2 DEF Probing

(* For every number of tabs and providers, every threshold and every        *)
(* cool-down: probes of an open breaker are a cool-down apart in spite of   *)
(* the late answers of earlier fetches, and a slot that is taken is taken   *)
(* by a fetch that will report.                                             *)
THEOREM ProbesAreSpaced == SocialSpec => []OneProbePerCooldown
<1> DEFINE ProbeInv == FlowInv /\ Probing
<1>1. Init /\ SocialInit => ProbeInv
  BY Zenon, FlowInvInit, ProbingInit
<1>2. ASSUME ProbeInv, [SocialNext(Visits)]_allVars
      PROVE  ProbeInv'
  <2>1. FlowInv'
    BY <1>2, FlowInvStep
  <2>2. CASE UNCHANGED allVars
    BY Zenon, <1>2, <2>1, <2>2 DEF allVars, vars, socialVars, Probing
  <2>3. CASE Trips
    BY Zenon, <1>2, <2>1, <2>3, TripProbing DEF FlowInv
  <2>4. CASE FlowNext(Visits) /\ UNCHANGED <<trip, breaker>>
    <3>1. now \in Nat /\ now' \in Nat /\ now <= now'
      BY <1>2, <2>4, FlowTime DEF Probing
    <3>2. \A p \in Providers : Sound(breaker[p], now')
      BY Zenon, <1>2, <3>1, SoundLater DEF Probing
    <3>3. Probing'
      BY Zenon, <1>2, <2>4, <3>1, <3>2 DEF Probing
    <3> QED BY Zenon, <2>1, <3>3
  <2> QED BY Zenon, <1>2, <2>2, <2>3, <2>4, SocialSteps
<1>3. ProbeInv => OneProbePerCooldown
  BY DEF Probing, Sound, OneProbePerCooldown
<1> HIDE DEF ProbeInv
<1> QED BY <1>1, <1>2, <1>3, PTL DEF SocialSpec, allVars
=============================================================================
