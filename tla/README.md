# Verification of python-oauth2-server

TLA+ models of the authorization server in `src/src/oauth2_server/`, checked by
TLC on small instances and, for the core, proved by TLAPS for every value of the
constants. Paths below are relative to `src/src/oauth2_server/` unless they say
otherwise. `PROJECT.json` maps every definition to the lines it models and lists
the runs, the mutants that show that each property can fail, the hazards and the
theorems.

## The system

One asyncio process (`README.md:15` of the repository requires one worker and one
replica) serves OAuth 2 and OpenID Connect. A handler runs without interruption from one
`await` to the next; in between, any other request may run. Every method of
`storage/sql.py` is one transaction. Beside the database there are in-memory stores on
`app.state` (pushed requests, DPoP proofs, assertion ids, rate limits, device polls,
circuit breakers, remote keys, the event bus, signing keys) whose methods never await
and are lost at a restart, and the session, which lives in a signed cookie only.

| Part | State | Operations | Hard behaviour | Module |
|---|---|---|---|---|
| Token endpoint, revocation | `authorization_codes`, `tokens` | six grants, revoke, admin revocations | a request writes what it read several awaits ago; crash between two statements | `TokenStore`, `TokenEndpoint` |
| Device flow | `device_authorizations`, `DevicePollTracker` | authorize, verify, poll, claim, expire | two polls, two users, forgotten back-off | `DeviceFlow` |
| Authorization endpoint, PAR, login, logout | session cookie, `ParStore` | authorize, push, login, logout | late answers overwrite the cookie; replay after login | `AuthorizeFlow` |
| Social login | session cookie, `users`, a `SocialCircuitBreaker` for each provider | start, callback, link, provision | the callback awaits several times on a cookie and rows that others change; late answers move the breaker | `SocialLogin`, `SocialBreaker` |
| Resilience middleware | breaker, limiter | admit, succeed, fail | probes that end in another period; leaked slots | `Resilience` |
| DPoP | `DpopReplayStore`, `DpopNonceIssuer` | validate, issue and verify nonces | window edges, restart | `DpopProof` |
| Assertions (RFC 7523), request objects | `JtiReplayGuard`, `JwksCache` | client authentication, jwt-bearer, key fetches | clamped lifetime, full store; fetches that overtake one another; restart | `AssertionGuard`, `JwksCache`, `ClientAssertion` |
| Rate limits | buckets, windows | check, reset, sweep | sweep, rounding, window edges, attempts in flight | `TokenBucket` (refines `Bucket`), `LoginThrottle` |
| Signing keys | `KeySet` | seed, rotate, prune, sign, verify, JWKS | tokens in flight across rotations and restarts | `SigningKeys` |
| Clients, users, denylist, introspection, userinfo | `clients`, `users`, `denylist`, `tokens` | the admin API, registration, authentication, provisioning, lookups, logout with a hint | overlapping whole-row edits, cascades that are a second statement, provisioning races | `Accounts` |
| Event bus, audit trail | tasks, `IdempotencyStore`, ring of recent events, `audit_log` | publish, fan out, ingest, audit | a crash between the change and its report; plugins that raise; full stores | `EventBus` |

The parts meet in the database and in the token endpoint: `AuthorizeFlow` and
`DeviceFlow` end in a code or an approved device, `TokenEndpoint` begins with one;
`DpopProof`, `ClientAssertion` and `TokenBucket` stand in front of a grant and appear
in `TokenEndpoint` as its outcome; `Accounts` decides who may use it, and what any of
them has changed is reported through `EventBus`. Three modules are compositions:
`ClientAssertion` puts the key cache in front of the replay guard, `SocialLogin` adds
the providers to `AuthorizeFlow` on one cookie, and `Limits` runs the two limiters on one
clock. `TokenStore` is the shared table, `Maps` the two dictionary operations all in-memory
stores share, and `Clock` the time that limiters, replay stores,
the device flow, the signing keys and the event bus read.

## How the models correspond to the code

An action is one storage statement together with the straight-line code after it,
up to the next `await`; its guard is the conditions on that path. A request is a
slot with a program counter and what the coroutine remembers. A refusal that
changes nothing ends the request. Variables marked *observation* in the modules are
read by properties only.

* **TokenStore / TokenEndpoint.** `tokens` is a sequence of rows; an index stands
  for the random id and both token values. `ReadCode`, `ClaimCode`, `SaveIssued`
  are the three statements of the code grant, `ReadRefresh`, `RotateOld`,
  `SaveIssued` those of a refresh; `ReadSubject` and `RedeemAssertion` start an
  exchange and a jwt-bearer grant. `Crash` drops all requests and keeps the tables.
  Scopes and audiences are sets, the DPoP or certificate binding is one value, and
  the `act` chain is a sequence. Signature and parameter checks are outcomes.
* **DeviceFlow.** `VerifyRead` and then `Approve` or `Deny`; `PollToken`, `Claim`,
  `SaveIssued`. The tracker's `observe` is `Observe`, with its sweep and slow_down
  arithmetic.
* **AuthorizeFlow.** A browser with several tabs. A request carries a copy of the
  cookie and its answer may put that copy back (`Unmodified`): whether the session
  middleware sends an unchanged session again is left open. A request with a `request_uri`
  is "sent" until the handler takes it from the PAR store (`TakePushed`, `UnknownUri`), and
  at "authorize" from there, or from the start without one, to its answer: the store is
  asked before the first await, the code is issued after several. A login answers with a
  redirect; the browser follows it later, with the cookie it has then (`Resume`).
  `StripReauthParams`, `AuthExpired`, `ForceLogin` and `Take` are the functions of that name
  in the code. `late` and `overtaken` are observations: the requests sent before a login
  whose redirect is still to be followed, and the redirects that the answer of one of them
  overtook.
  A logout purges the session (`Logout`) unless its hint is bad (`LogoutFails`).
* **SocialLogin, SocialBreaker.** A tab on a trip is at "social" while a request of the trip is
  with the server, and "away" at the provider: `Start` puts state and
  verifier into the cookie, `Return` is the callback with the cookie of that moment, and
  `Matches` compares them; then the fetch of the profile under the breaker (`Fetch`,
  `FetchSucceeds`, `FetchFails`, `BreakerRefuses`), the look-up, `Link` and `Provision`,
  each after an await. A profile is an account with an address. The breaker's methods are
  functions of its fields.
* **Resilience.** Admission is one step and the accounting after the handler another,
  because neither lock is held over an await. `trips` and `period` are observations
  that tell half-open periods apart.
* **DpopProof, AssertionGuard.** Validation has no await in it and is one step. The
  wall clock and the monotonic clock are one clock.
* **JwksCache, ClientAssertion.** One url. `fetch` is a cache hit, or a request that reads
  the document (at some moment between its start and its end) and a `Store` that overwrites
  whatever is there by then. A request that has its keys is judged in the same step, as no
  await follows. That a request ends within `FetchTime` is an assumption about the remote
  server: the code's timeout is per phase of a request.
* **TokenBucket, LoginThrottle.** Exact arithmetic in units of 1/(window · grain)
  tokens; rounding of floats is left out. `Bucket` is what a limiter promises: a
  level per key that fills with time and is never forgotten.
* **SigningKeys.** Key material is a number, and a signature verifies with exactly
  the material it was made with. A kid is the algorithm with the second of the
  rotation. The keyset is a set: its list order is the order of the material, since a
  generated key is appended with the next number, and the first match of a scan is the one
  with the least (`FirstOf`). Rotation and pruning are one step, as in the handler. Token expiry is
  checked apart from the signature and left out. `encode_introspection_jwt` is not
  modelled.
* **Accounts.** A row has the columns a property tells apart and `rest` for all the
  others. An UPDATE is `Merge(row, set)`: a PUT sets every column, from the row it
  read merged with its body, and the other edits set one. A cascade is a step of its
  own that may fail. Both databases are covered: SQLite does not enforce the foreign
  keys of `tokens`, Postgres does (`enforced`). `jwks` and `jwks_uri` say whether the
  column is empty; all methods that need no keys are "secret". A denylist
  entry has a kind and stands for the address, client or user whose value it holds; a
  jwt-bearer grant looks up the username and then the e-mail address, a step each, and
  `open` is the set of entries whose lookup failed. Administrators may always act, so the
  admin guard is left out. Revocations in `TokenEndpoint` and the passing of
  time are one step here, `Wither`; a logout with a good hint, which revokes all the
  user's tokens, is `HintedLogout`.
* **EventBus.** `Commit` is a handler's own storage call, `Emit`, `WriteAudit` and
  `PushAudit` what it does next. A published event is a task, and tasks run in order and
  in one step each (`FanOut`), since no plugin's `emit` awaits. A server without a bus
  behaves as one whose filter drops every event, and takes none at its ingest endpoint.

Nothing models `CancelledError` at shutdown. Restarts are in `TokenEndpoint`, `DeviceFlow`,
`DpopProof`, `AssertionGuard`, `ClientAssertion`, `EventBus` and `SigningKeys`; that the
other in-memory stores are lost then is documented by the repository.

## What the runs check

Each run is `tlc -config <run>.cfg <module>`. State counts are distinct states.

| Run | Module | Properties | Bounds, and why they are enough | States |
|---|---|---|---|---|
| `token_family` | MCTokenEndpoint | CodeRedeemedOnce, FamilyConfinedToConsent, RotatedOutIsRevoked, NothingRevived, AnsweredEventually | two overlapping requests on one code, three tokens: a redemption, a refresh and a race on either, with crashes; two scopes, a resource and a key so that narrowing shows | 155k |
| `token_grants` | MCTokenEndpoint | OneLivePerFamily, BurnedFamilyStaysDead, ExchangeNeverAmplifies | one request at a time, every grant but the device code's, two clients, three tokens: what holds without overlap | 303k |
| `refresh_race` | MCTokenEndpoint | ReuseRevokesFamily, **violated** | two refreshes with one token; see *Findings* | |
| `device_flow` | MCDeviceFlow | DeviceRedeemedOnce, IssuedToApprover, PollsBackOff | one device, two users, two clients, two requests; the clock passes the code's expiry and twice the tracker's TTL | 254k |
| `resilience` | MCResilience | SlotsReturned, ProbesBounded, Recovers | five requests on two probe slots and four permits, six failures: enough for probes of three periods to overlap | 186k |
| `dpop` | MCDpopProof | ProofUsedOnce, NonceWindow | two jtis, three acceptances, a clock of more than two windows, one restart | 142k |
| `client_assertion` | MCClientAssertion | BearerUsedOnce, ClientUsesSpaced, WithdrawnKeysDie, SettledKeysFound | one jti of each kind for a guard of one entry, so it is full; expiries beyond the clamp; one key that comes and goes, two fetches that overlap, a restart; the clock passes the longest lifetime of a cached key plus a fetch | 980k |
| `authorize` | MCAuthorizeFlow | ReauthHonoured, OneProbePerCooldown, NoLoginLoop, PushedOnce, OwnAccount | two tabs. A behaviour is about one of four subjects: passwords with every kind of request, two clients and a pushed request; which row a sign-in leads to, with two providers and accounts that share a local user's address; a provider whose breaker a single failure opens, over two cool-downs; requests resumed after either kind of login | 1.3M |
| `limits` | MCLimits | RateBounded, RetryHonest, NeverForgets (refinement of `Bucket`), LoginsBounded, BlockEarned | two independent limiters, one of them in each behaviour. Buckets: two keys, a limit of two in three seconds so that retry times round; a clock longer than twice the window, after which buckets are swept. Logins: two addresses, two usernames, two attempts a window, four attempts over a window's end | 621k |
| `signing_keys` | MCSigningKeys | InFlightVerifies, RetiredStayRetired, OneSigner | three rotations with graces 0, 1 and 3, two tokens, a restart | 1.8M |
| `accounts` | MCAccounts | DisableRevokes, EditsKeepUsable, IssuedWhileAllowed, AnswersLive | a user, a client, three requests of which two overlap: a grant and a disabling, and one more edit, lookup or grant between or after them; two tokens; denylist entries of all five kinds | 378k |
| `event_bus` | MCEventBus | DeliveredOnce, DuplicatesCaught, ReportedEventually | two handlers, two idempotency keys for a store of two, three events for a ring of two and a logger of one: every store overflows; one crash | 248k |

The type invariant of each module (`TypeOK`, or `KeysTypeOK`, `BusTypeOK` and so on)
documents its state, and most proofs use it; it holds in the module's run when it is
added to the configuration. Deadlock is not checked: a run ends where its bounds end.
Symmetry is used only in runs without liveness.

**What they show.** A code, a device code, a DPoP proof and a jwt-bearer assertion
work once whatever overlaps; a family never outgrows the consent it began with; no
request is stuck and no revoked row returns. The limiter's permits and the breaker's
slots are always given back. A client assertion that lives longer than
`MAX_JTI_TTL_SECS` works once per that time, not once. Limits hold across sweeps and
window edges: an address makes fewer than twice its attempts in any window's length.
Re-authentication is honoured although its parameters are stripped from the replayed
URL, unless the redirect of the login is overtaken (see *Findings*). A token verifies for the whole grace of its key. Overlapping edits leave a client
usable, a disabled account gets no token by a request that began afterwards, and no
endpoint vouches for a token that was dead when it was asked. A sign-in through a provider
leads to the account's own row or to one it may be linked to at that moment, and a failing
provider is probed once a cool-down. A withdrawn remote key is dead, and a new one found,
after the longest cache lifetime and one fetch. What a handler has changed is reported
once, in order, whatever plugin or audit write fails, unless the process dies first.

**Fairness.** `token_family`: weak fairness of each request's steps, since the event
loop resumes every ready coroutine and storage calls return or raise. `resilience`:
weak fairness of the clock, of admission (requests keep coming) and of the handlers'
returning; `MaxFaults` makes failures stop, which is the hypothesis of `Recovers`.
`event_bus`: weak fairness of each request's next report and of the loop's running the
tasks it was given; `MaxCrashes` bounds the crashes, and what a crash loses is excepted by
name (`lost`). All other runs check safety only.

## Findings

`refresh_race`: the refresh branch tests `revoked` on the row it read
(`routes/token.py:631`) and revokes it with an UPDATE whose row count it ignores
(line 712). Two refreshes with one token that both read first both succeed, and the
family is not revoked, although the comment at line 632 says "reuse of a rotated
refresh token revokes the whole token family". The other grants use a conditional
UPDATE (`ClaimCode`, `Claim`).

Known behaviours that no run states as a violation. They are in the models unless the
item says otherwise, and where a property would meet one it excepts it by name:

* A denial of a device code can be overwritten by an approval that had passed the same
  check before (`routes/device.py:166-175`), and vice versa.
* `prompt=select_account` forces a login (`routes/authorize.py:477`) but is not stripped
  from the replayed request (line 145), so the login repeats, which the docstring at
  line 137 means to prevent. The run makes such requests; `NoLoginLoop` excepts them.
* A login answers with a redirect to the stripped URL, and the browser follows it with the
  cookie it holds by then. If another tab's request, sent before the login, is answered in
  between and its answer carries the session, the older session is back, and the stripped
  URL is granted on a login older than the request that asked for a new one.
  `ReauthHonoured` excepts a code whose redirect was overtaken so (`overtaken`); without the
  exception the run `authorize` finds the behaviour.
* A code replayed between the claim and the save of its first redemption revokes a
  family that is still empty, and `POST /oauth/revoke` misses a refresh that is between its
  UPDATE and its INSERT, so `BurnedFamilyStaysDead` needs requests one at a time.
* A probe that ends in a later half-open period gives back a slot that is not its own:
  fewer than `success_threshold` probes run above `half_open_max_probes`.
* Two rotations of an algorithm within one second share a kid, and `KeySet.find` returns
  the older key: tokens of the newer one do not verify until the older's grace ends.
  `InFlightVerifies` excludes such a kid.
* A restart keeps the configured keys only; what a rotated-in key signed no longer verifies.
* A PUT on a user or client writes back every column it read, and so undoes a disabling,
  a role, a password or a secret that was changed in between.
* A request that has passed its checks when an account is disabled saves its token after
  the cascade; `DisableRevokes` excludes these. Codes and device rows are redeemed
  without looking at the user again (`docs/PHASE2-BACKLOG.md:254-257` documents that a
  session outlives its user's disabling).
* Deleting a client has no cascade. On Postgres a foreign key keeps a client that has tokens;
  on SQLite (`storage/sql.py:178`) its tokens stay as they are, and userinfo, which does not
  look for the client, accepts them. `DisableRevokes` is about disabled accounts and deleted
  users.
* A denylist entry of the kind `user_id` is stored and stops nothing (`middleware.py:27`).
* `POST /connect/register` takes an empty `jwks` object as key material and stores none,
  while the admin API applies its rules to what is stored; `EditsKeepUsable` is therefore
  about edits.
* An ingested event is pushed to the ring by the handler and once more by the bus
  (`routes/events.py`); `DeliveredOnce` states it so.
* A full idempotency store is emptied, so a duplicate may pass once `max_entries` acceptances,
  the first of the two among them, have filled it; `DuplicatesCaught` states when.
* A slow answer may overwrite a newer key set in the cache, and an unknown kid triggers no
  refetch: a new key is refused until the entry expires. `SettledKeysFound` is what remains
  for an owner who publishes ahead.
* A pushed request is consumed before the login (`docs/PHASE2-BACKLOG.md:227`), and its
  lifetime counts when it is taken, not when the code is issued.

Comments that the code has outgrown. They say what can happen or what is not done, so the
evidence against them is a property that holds, not one that is violated:

* `routes/token.py:650-652`: "a refresh can rebind `aud` to any valid resource". The check
  below it (lines 669-677) refuses a resource that is not among the old token's audiences;
  `FamilyConfinedToConsent` shows that the audience never widens. (An opaque token has no
  audience claim, and is not checked.)
* `routes/wellknown.py:238-241`: the JWKS fallback is for a keyset in which "the seeded
  rs256-initial key was rotated out and pruned" and no RS256 key is left.
  `routes/logout.py:70-76` says that this never happens, and `OneSigner` agrees with it: a
  rotation adds its key before it prunes.
* `routes/admin/denylist.py:11-12`: no kind but `ip` is "enforced anywhere". `client_id`,
  `username` and `email` entries are looked up (`middleware.py:22-27`,
  `services/jwt_bearer_grant.py:211`), and a token request they stand against all the time
  saves nothing (`IssuedWhileAllowed`).
* `routes/login.py:11-12`: both rate-limit keys are recorded "on *every* attempt". The handler
  checks the address first and stops there when it is over its limit, as its own comment at
  lines 112-115 says; `LoginThrottle` models the handler, and `BlockEarned` relies on it.

## What is proved

TLAPS proves these for all values of the constants that satisfy the modules' `ASSUME`s
(any numbers of clients, requests, tokens, keys, jtis; any limits and lifetimes).

| Module | Theorem | Argument |
|---|---|---|
| TokenEndpointProofs | TypeCorrect, RedeemedAtMostOnce, ConfinedToConsent, ReplacedIsRevoked, NeverRevived | `IInv`: every token saved, *and every token a request is about to save*, is `Justified` (its code used, its predecessor revoked, its family's consent covers it), and no two of them redeem one code. The properties alone say nothing of what is pending, so they are not inductive. `RowsGrow` and `CodesGrow` say how a step may change the tables, and `JustifiedStable` that what was justified stays so; each action then only has to answer for its own request. |
| TokenEndpointProofs | ExchangeAmplifiesNothing, AloneOneLivePerFamily, AloneBurnedStaysDead | `DelegationInv`: what an exchange is about to save already satisfies the property against the subject row it read, and rows keep what they say. The other two are about requests that do not overlap, `Spec /\ []Alone => []...`, since `refresh_race` refutes them otherwise: `FamilyInv` says that the only request in flight holds the only live row of its family, or that there is none (`Entitled`), and that a burned family has none and gets none. |
| LoadProofs | SlotsAlwaysReturned, CountersBelowThresholds, LateProbesBounded (`Resilience`) | the first two are inductive together with `TypeOK`; the breaker's operations are lemmas about one record (`Fine`). For the last, `Overrun` balances the probes of the current period against slots taken and successes counted. |
| LoadProofs | RateIsBounded, SweepingIsInvisible, RetryTimesAreHonest (`TokenBucket`) | `Balanced`: what a key used plus what is left never exceeds a full bucket plus what was gained since. The second theorem is the refinement of `Bucket`, with the level at the present moment as the mapping; a swept bucket was full. For the third, `Promised`: until the key is used again, its level is what it was at the refusal plus the gain since. |
| LoginThrottleProofs | LoginsAlwaysBounded, BlocksAreEarned | `ThrottleInv`, by `Ledger`, ties each window's counter to the attempts counted in it, and says where earlier attempts of the same key lie: before the window, and at most `MaxAttempts` of them less than a window before its start. The bounds follow by counting over two adjoining windows. |
| ExpiryProofs | CodeYieldsOneToken, OnlyApproversGetTokens, PollsAlwaysBackOff (`DeviceFlow`) | between its claim and its save a request holds a device that is marked used, has no token and is held by no other request (`Exclusive`); the user a request carries was read from a row that an approval wrote (`Vouched`). For the action property, `Tracked`: the tracker's entry is the device's history, and there is none only for a client that stayed away for `EntryTTL`. |
| ExpiryProofs | InFlightAlwaysVerifies, RetiredAlwaysStayRetired, AlwaysOneSigner (`SigningKeys`) | `KeyInv`: a material belongs to one key (`Numbered`); a key that is not current expires at the deadline its rotation announced (`Announced`); an algorithm in use has exactly one current key (`Signers`); a token names the algorithm and the kid of the key that made it, which outlives that key (`Names`); and what this process signed with is in the keyset until its grace is over (`KeyHeld`). A decoder that finds an active key under the token's kid has then found the right one, and one that finds none falls back to keys of other material; the fallback to the configured PEM is not reached, since an active RS256 key is there whenever a PEM is configured. |
| BusProofs | AlwaysDeliveredOnce (`EventBus`) | `DeliveryInv`: the tasks still to run are the end of what was published (`Queued`); an id belongs to one event, and what a request has yet to report is neither published nor in the ring (`Stamped`); the ring was given each event as often as the bus and an ingest gave it (`Carried`). Lemmas say what `Last`, `Newest`, `Push` and `Occurrences` do when an element is appended. |
| BusProofs | AlwaysDuplicatesCaught (`EventBus`) | `StoreInv`: what the store holds are acceptances (`Backed`), and an acceptance of the last ttl is in it, or `MaxEntries` acceptances since that one's ttl began are counted already (`Remembered`, `Crowded`). When the store is emptied, its entries, all of distinct keys and not expired, are the acceptances that have to be counted. |
| AuthorizeProofs | ReauthAlwaysHonoured, NeverLoopsAtLogin, PushedAtMostOnce | about `SocialSpec`, all logins together. `Sessions`: every copy of the cookie, wherever it is, carries a request that is stripped (`Resumable`) or none, and a request under way that was at the login page is stripped too (`Underway`). `Timely`: a redirect that was not overtaken finds a cookie no older than its request, every request that could still spoil that is in `late`, and a resumed request has such a cookie. `OnTrip`: a tab on its way through a provider does nothing else, so a late callback touches no request. `Unspent`: what the PAR store holds was pushed and has yielded nothing; `Claimed`: what a request under way has taken is its alone, unspent and out of the store. `FlowKinds` and `TripKinds` sort the actions by what they do to the tabs and the cookie, so that each invariant is shown once for a kind of step. |
| AuthorizeProofs | SignsIntoOwnAccount, ProbesAreSpaced | `Owned`: a row named after an account is the only one and has its address, so the single row that `Candidates` finds is the account's own if that was created meanwhile. `Probing`: the last probe of an open breaker is no later than the start of the cool-down, unless it holds the slot, and then it is a fetch that is running. |
| ReplayProofs | ProofAcceptedOnce, NoncesLiveOneToTwoLifetimes (`DpopProof`) | an accepted proof that would still pass the iat check is in the store, beyond the last instant at which it would (`FreshHeld`). Needs `ReplayTTL > 2 * Skew`, which the constants of `services/dpop.py` satisfy. For nonces, `Stamped`: the bucket of a nonce is that of the time it was issued. |
| ReplayProofs | BearerRedeemedOnce, ClientUsesAreSpaced (`AssertionGuard`) | the same for the guard, with the clamp: an assertion is held until it expires or `MaxTTL` after its use (`Held`), and only those that fit are redeemed by the grant (`BearerFits`). |
| ReplayProofs | CompositionKeepsGuard, WithdrawnKeysAlwaysDie, SettledKeysAlwaysFound (`ClientAssertion`) | `CacheInv`: a key set differs from the published one only in keys that changed after its request started, so an answer on its way is at most `FetchTime` behind and an entry at most `MaxCacheTTL` more. The first theorem, `AuthSpec => Spec`, is the refinement of the guard alone; with it the two theorems about the guard hold behind the cache (BearerRedeemedOnceBehindCache, ClientUsesAreSpacedBehindCache). |
| AccountsProofs | DisablingAlwaysRevokes, EditsAlwaysKeepUsable, AnswersAlwaysLive, IssuedOnlyWhileAllowed | `IInv` says of each request what its later steps rely on: a cascade still to come is aimed at the account that was switched off (`Aimed`), what a question found dead is still dead (`Honest`), an UPDATE still to come carries a usable row whole or none of its key columns (`Whole`). For the last theorem, `Clear`: of what stood against a request ever since it began, only that is left which it has yet to look for or whose own lookup failed. `Keeps` and `Moves` say what any step may do to the tokens and to the requests, and are proved once for each action; the four properties follow from them. |

Assumptions, beyond types and the distinctness of `None`: `ReplayTTL > 2 * Skew` (DPoP),
`MinCacheTTL <= MaxCacheTTL` and a positive `MaxCacheTTL` (key cache). Each is an `ASSUME` of
the module that declares the constants, and TLC evaluates it in that module's run.

`ExpiryProofs` holds the proofs of two components that share the clock and nothing else;
each of its theorems assumes the specification of one of them.

Only model-checked are the liveness properties (`AnsweredEventually`, `Recovers`,
`ReportedEventually`), since this prover handles neither fairness nor ENABLED, and
`ReuseRevokesFamily`, which is refuted. What is said of sequences and of cardinalities is
proved without induction over data, from what one step appends, drops or adds. All proofs
are about the models: time is exact, signatures are ideal, and an action is atomic where
the code has no await.

## Not modelled

* **MongoDB storage.** A second backend behind the same interface. Its claims are the same
  compare-and-set on one document as the SQL statements that are modelled. One statement
  differs: `delete_user` leaves the user's tokens alone.
* **Parameter checks** (`services/limits.py`, `rar.py`, `resource.py`, `claims_request.py`),
  the merging of a request object's claims and the parsing of mTLS headers: pure functions
  of one request. They appear as refusals of the handlers that call them.
* **Answers:** id_token claims, RAR and the JWT form of introspection are computed from
  rows that are modelled and change nothing.
* **Logout notifications.** Front-channel pages and back-channel posts change no state of
  the server, and their failures are ignored.
* **Schema migrations.** They run before the first request is served: on Postgres in one
  transaction under an advisory lock, on SQLite by the one process there is. There is no
  interleaving to check, and what the statements do to old data is the SQL itself.
* **Administration shell, paged lists:** read-only views. The audit write is in `EventBus`.
* **Configuration, wiring, telemetry, metrics and health:** values read once at start, and
  counters that nothing else reads.
* **The conformance client** is no part of the server.
* **Cryptography and floating-point rounding:** a signature verifies with the key it was
  made with; arithmetic on time is exact.
