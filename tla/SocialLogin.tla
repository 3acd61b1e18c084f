---------------------------- MODULE SocialLogin -----------------------------
(***************************************************************************)
(* GET /auth/login/{provider} and GET /auth/callback/{provider}, beside    *)
(* the password login and on the same session cookie as AuthorizeFlow.     *)
(*                                                                         *)
(* A tab on a trip is at "social" while its request for the provider's     *)
(* page, or the callback, is with the server, and "away" while the user is *)
(* at the provider.  What the callback awaits first, the token exchange,   *)
(* changes nothing here, so it is one step with the breaker's decision;    *)
(* the report to the breaker is one step with the look-up it precedes.     *)
(***************************************************************************)
EXTENDS AuthorizeFlow

CONSTANTS
    Providers,    \* the providers that are configured
    Pkce,         \* those whose ProviderConfig says pkce
    Verifying,    \* those that vouch for the address (email_verified)
    Accounts,     \* the accounts at the providers
    Emails,       \* addresses, as _fold_email leaves them
    LinkByEmail,  \* config.social_link_by_verified_email
    FailureThreshold, Cooldown

INSTANCE SocialBreaker

ASSUME SocialAssumption ==
    /\ Pkce \subseteq Providers /\ Verifying \subseteq Providers
    /\ Accounts \subseteq [provider : Providers, email : Emails]
    /\ LinkByEmail \in BOOLEAN
    /\ None \notin Accounts
    /\ FailureThreshold \in Nat /\ Cooldown \in Nat

VARIABLES
    trip,     \* each tab on its way through a provider
    rows,     \* the users table
    breaker,  \* app.state.social_breakers
    signed    \* observation: the social sign-in the last step made

socialVars == <<trip, rows, breaker, signed>>

(* owner: the account the username "provider:id" names, None for a local    *)
(* name.  linkable: enabled, neither an admin nor one by admin_emails.      *)
Row == [owner : Accounts \cup {None}, email : Emails, linkable : BOOLEAN]

Trip ==
    [at       : {"none", "starting", "provider", "callback", "fetching", "unknown", "unlinked"},
     provider : Providers \cup {None},
     state    : Nat,
     account  : Accounts \cup {None},
     probe    : BOOLEAN]

Stage(at, p) == [at |-> at, provider |-> p, state |-> 0, account |-> None, probe |-> FALSE]

NoTrip == Stage("none", None)

SocialTypeOK ==
    /\ trip \in [Tabs -> Trip]
    /\ DOMAIN rows \subseteq Users
    /\ \A u \in DOMAIN rows : rows[u] \in Row
    /\ breaker \in [Providers -> Breaker]

(* The local users exist, with any address and standing.                    *)
SocialInit ==
    /\ trip = [t \in Tabs |-> NoTrip]
    /\ rows \in [Locals -> [owner : {None}, email : Emails, linkable : BOOLEAN]]
    /\ breaker = [p \in Providers |-> Healthy]
    /\ signed = None

NoSignIn == signed' = None /\ NoCode
-----------------------------------------------------------------------------
(* The link on the login page is followed with the current cookie.          *)
Follow(t, p) ==
    /\ tab[t].at = "login"
    /\ tab' = [tab EXCEPT ![t] = Page("social", cookie)]
    /\ trip' = [trip EXCEPT ![t] = Stage("starting", p)]
    /\ NoSignIn
    /\ UNCHANGED <<now, cookie, par, pushed, rows, breaker>>

(* The states some cookie or some page still holds.                         *)
Held ==
    {trip[t].state : t \in Tabs}
    \cup {s.social.state : s \in {r \in {cookie} \cup {tab[t].sess : t \in Tabs} : r.social # None}}

(* secrets.token_urlsafe: a state nobody holds.  One that nobody holds any  *)
(* more can be presented by nobody, so its number is used again.            *)
NewState == CHOOSE n \in 1..(2 * Cardinality(Tabs) + 2) :
                n \notin Held /\ \A k \in 1..(n - 1) : k \in Held

(* What social_login leaves in the session.                                 *)
Attempted(p) ==
    [state |-> NewState, provider |-> p, verifier |-> IF p \in Pkce THEN NewState ELSE 0]

(* social_login: the attempt goes into the cookie and the browser to the    *)
(* provider.                                                                *)
Start(t) ==
    LET attempt == Attempted(trip[t].provider) IN
    /\ trip[t].at = "starting"
    /\ cookie' = [tab[t].sess EXCEPT !.social = attempt]
    /\ tab' = [tab EXCEPT ![t] = Page("away", Empty)]
    /\ trip' = [trip EXCEPT ![t].at = "provider", ![t].state = attempt.state]
    /\ NoSignIn
    /\ UNCHANGED <<now, par, pushed, rows, breaker>>

(* The provider sends the browser back with the state it was given.         *)
Return(t) ==
    /\ trip[t].at = "provider"
    /\ tab' = [tab EXCEPT ![t] = Page("social", cookie)]
    /\ trip' = [trip EXCEPT ![t].at = "callback"]
    /\ NoSignIn
    /\ UNCHANGED <<now, cookie, par, pushed, rows, breaker>>

(* The user leaves the provider's page.                                     *)
Leave(t) ==
    /\ trip[t].at = "provider"
    /\ tab' = [tab EXCEPT ![t] = Closed]
    /\ trip' = [trip EXCEPT ![t] = NoTrip]
    /\ NoSignIn
    /\ UNCHANGED <<now, cookie, par, pushed, rows, breaker>>
-----------------------------------------------------------------------------
(* The callback's session holds the attempt its URL belongs to.             *)
Matches(t) ==
    LET attempt == tab[t].sess.social IN
    /\ attempt # None
    /\ attempt.state = trip[t].state
    /\ attempt.provider = trip[t].provider
    /\ trip[t].provider \in Pkce => attempt.verifier # 0

(* An error page; the handler has not touched the session.                  *)
Refuse(t) ==
    /\ Unmodified(t)
    /\ tab' = [tab EXCEPT ![t] = Closed]
    /\ trip' = [trip EXCEPT ![t] = NoTrip]
    /\ NoSignIn
    /\ UNCHANGED <<now, par, pushed, rows>>

(* Another attempt's session, no code, or a token exchange that fails.      *)
CallbackFails(t) ==
    /\ trip[t].at = "callback"
    /\ Refuse(t)
    /\ UNCHANGED breaker

BreakerRefuses(t) ==
    /\ trip[t].at = "callback"
    /\ Matches(t)
    /\ ~Allows(breaker[trip[t].provider], now)
    /\ Refuse(t)
    /\ UNCHANGED breaker

(* The token exchange is done and allow() says yes.                         *)
Fetch(t) ==
    LET p == trip[t].provider IN
    /\ trip[t].at = "callback"
    /\ Matches(t)
    /\ Allows(breaker[p], now)
    /\ breaker' = [breaker EXCEPT ![p] = Admit(@, now)]
    /\ trip' = [trip EXCEPT ![t].at = "fetching", ![t].probe = breaker[p].open]
    /\ NoSignIn
    /\ UNCHANGED <<now, cookie, par, pushed, tab, rows>>

FetchFails(t) ==
    /\ trip[t].at = "fetching"
    /\ breaker' = [breaker EXCEPT ![trip[t].provider] = RecordFailure(@, now)]
    /\ Refuse(t)
-----------------------------------------------------------------------------
(* set_login, and a redirect to the pending request, however old.           *)
SignIn(t, a, u) ==
    LET s == tab[t].sess IN
    /\ cookie' = SetLogin(u)
    /\ tab' = [tab EXCEPT ![t] =
         IF s.return_to # None THEN Redirected(s.return_to) ELSE Closed]
    /\ trip' = [trip EXCEPT ![t] = NoTrip]
    /\ signed' = [account |-> a, user |-> u]
    /\ NoCode

Own(a) == {u \in DOMAIN rows : rows[u].owner = a}

(* fetch_userinfo answers with an account of the provider; its own row is   *)
(* looked up.                                                               *)
FetchSucceeds(t, a) ==
    /\ trip[t].at = "fetching"
    /\ a.provider = trip[t].provider
    /\ breaker' = [breaker EXCEPT ![a.provider] = RecordSuccess(@)]
    /\ \/ \E u \in Own(a) : SignIn(t, a, u)
       \/ /\ Own(a) = {}
          /\ trip' = [trip EXCEPT ![t] = [@ EXCEPT !.at = "unknown", !.account = a, !.probe = FALSE]]
          /\ NoSignIn
          /\ UNCHANGED <<cookie, tab>>
    /\ UNCHANGED <<now, par, pushed, rows>>

(* Mutant of Candidates: any of several rows will do.                       *)
CandidatesAny(a) ==
    LET same == {u \in DOMAIN rows : rows[u].email = a.email} IN
    {u \in same : LinkByEmail /\ a.provider \in Verifying /\ rows[u].linkable}

(* _link_by_verified_email: the row to sign in to, if there is one.         *)
Candidates(a) ==
    LET same == {u \in DOMAIN rows : rows[u].email = a.email} IN
    {u \in same : /\ LinkByEmail /\ a.provider \in Verifying
                  /\ same = {u}
                  /\ rows[u].linkable}

Link(t) ==
    LET a == trip[t].account IN
    /\ trip[t].at = "unknown"
    /\ \/ \E u \in Candidates(a) : SignIn(t, a, u)
       \/ /\ Candidates(a) = {}
          /\ trip' = [trip EXCEPT ![t].at = "unlinked"]
          /\ NoSignIn
          /\ UNCHANGED <<cookie, tab>>
    /\ UNCHANGED <<now, par, pushed, rows, breaker>>

(* The placeholder password is hashed and the new row saved; Users bounds   *)
(* the rows.                                                                *)
Provision(t) ==
    LET a == trip[t].account
        u == CHOOSE v \in Users : v \notin DOMAIN rows
    IN  /\ trip[t].at = "unlinked"
        /\ Own(a) = {}
        /\ ~(Users \subseteq DOMAIN rows)
        /\ rows' = With(rows, u, [owner |-> a, email |-> a.email, linkable |-> TRUE])
        /\ SignIn(t, a, u)
        /\ UNCHANGED <<now, par, pushed, breaker>>

(* The username was taken meanwhile: save_user raises, and the 500 answer   *)
(* carries no cookie.                                                       *)
ProvisionFails(t) ==
    /\ trip[t].at = "unlinked"
    /\ Own(trip[t].account) # {}
    /\ tab' = [tab EXCEPT ![t] = Closed]
    /\ trip' = [trip EXCEPT ![t] = NoTrip]
    /\ NoSignIn
    /\ UNCHANGED <<now, cookie, par, pushed, rows, breaker>>

(* An administrator enables, disables, promotes or demotes a user.          *)
Edit(u) ==
    /\ rows' = [rows EXCEPT ![u].linkable = ~@]
    /\ NoSignIn
    /\ UNCHANGED <<now, cookie, par, pushed, tab, trip, breaker>>

Trips ==
    \/ \E t \in Tabs :
          \/ \E p \in Providers : Follow(t, p)
          \/ Start(t) \/ Return(t) \/ Leave(t)
          \/ CallbackFails(t) \/ BreakerRefuses(t) \/ Fetch(t) \/ FetchFails(t)
          \/ \E a \in Accounts : FetchSucceeds(t, a)
          \/ Link(t) \/ Provision(t) \/ ProvisionFails(t)
    \/ \E u \in DOMAIN rows : Edit(u)

SocialNext(visits) ==
    /\ \/ FlowNext(visits) /\ signed' = None /\ UNCHANGED <<trip, rows, breaker>>
       \/ Trips
    /\ Observe

SocialSpec == Init /\ SocialInit /\ [][SocialNext(Visits)]_<<vars, socialVars>>
-----------------------------------------------------------------------------
(* Whoever signs in through a provider gets the row named after that        *)
(* account when there is one, and there is never a second; without one, a   *)
(* local row only if linking is on, the provider vouches for the address,   *)
(* no other row has it, and the row is linkable at that moment.  Between    *)
(* the look-up, the search by address and the save, other callbacks create  *)
(* rows and administrators change them.                                     *)
OwnAccount ==
    [][signed' # None =>
          LET a == signed'.account
              u == signed'.user
              own == {v \in DOMAIN rows' : rows'[v].owner = a}
          IN  \/ own = {u}
              \/ /\ own = {}
                 /\ LinkByEmail /\ a.provider \in Verifying
                 /\ rows[u].linkable
                 /\ {v \in DOMAIN rows : rows[v].email = a.email} = {u}]_<<vars, socialVars>>

(* While a breaker is open it lets fetches through one cool-down apart      *)
(* ("HalfOpen (after a 30s cooldown, admits exactly one probe)",            *)
(* social.py:422), whatever late answers of earlier fetches do to its       *)
(* fields; and its probe slot is never left taken with no probe running,    *)
(* which would refuse every later sign-in.                                  *)
OneProbePerCooldown ==
    \A p \in Providers :
        LET b == breaker[p] IN
        /\ \A i \in 1..(Len(b.probes) - 1) : b.probes[i + 1] - b.probes[i] >= Cooldown
        /\ b.probe_in_flight
           => \E t \in Tabs : trip[t].at = "fetching" /\ trip[t].provider = p /\ trip[t].probe
=============================================================================
