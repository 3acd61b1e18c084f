----------------------------- MODULE DeviceFlow -----------------------------
(***************************************************************************)
(* The device grant (RFC 8628): POST /oauth/device_authorization, POST     *)
(* /oauth/device/verify, the device_code branch of POST /oauth/token, the  *)
(* admin's expire, and the in-process DevicePollTracker behind slow_down.  *)
(*                                                                         *)
(* An action is one storage statement with the code after it up to the     *)
(* next await.  The wall clock and the monotonic clock are one clock.      *)
(***************************************************************************)
EXTENDS Clock, Sequences, Maps

CONSTANTS
    Clients, Users, None,
    Requests,     \* slots for requests in flight
    ExpiresIn,    \* _EXPIRES_IN of routes/device.py
    Interval,     \* _INTERVAL of routes/device.py
    Step,         \* SLOW_DOWN_STEP_SECS
    EntryTTL,     \* ENTRY_TTL_SECS
    MaxTime,      \* bound: the clock stops here
    MaxDevices,   \* bound: device authorizations started
    MaxSlowDowns  \* bound: slow_down answers for one code

ASSUME DeviceAssumption ==
    /\ None \notin Clients \cup Users
    /\ {ExpiresIn, Interval, Step, EntryTTL, MaxTime, MaxDevices, MaxSlowDowns} \subseteq Nat
    /\ Interval > 0

VARIABLES
    devices,  \* the device_authorizations table; an index is both codes of a row
    polls,    \* DevicePollTracker._entries
    req,      \* the requests in flight, with what they remember
    issued,   \* the tokens saved by the device_code branch
    said,     \* observation: the decisions users made, <<device, user or None>>
    seen      \* observation: each device's last poll and its violations so far

vars == <<now, devices, polls, req, issued, said, seen>>

Device ==
    [client     : Clients,
     user       : Users \cup {None},
     expires_at : Int,
     approved   : BOOLEAN,
     denied     : BOOLEAN,
     used       : BOOLEAN]

Poll == [last_poll : Nat, interval : Nat, expiry : Nat]

Request == [pc : {"idle", "approve", "deny", "claim", "save"}, device : Nat, user : Users \cup {None}]

Idle == [pc |-> "idle", device |-> 0, user |-> None]

TypeOK ==
    /\ now \in Nat
    /\ devices \in Seq(Device)
    /\ DOMAIN polls \subseteq DOMAIN devices
    /\ \A d \in DOMAIN polls : polls[d] \in Poll
    /\ req \in [Requests -> Request]
    /\ issued \in Seq([device : Nat, user : Users \cup {None}])
    /\ said \subseteq Nat \X (Users \cup {None})
    /\ DOMAIN seen \subseteq DOMAIN devices
    /\ \A d \in DOMAIN seen : seen[d] \in [last : Nat, violations : Nat]

Init ==
    /\ now = 0
    /\ devices = <<>>
    /\ polls = <<>>
    /\ req = [r \in Requests |-> Idle]
    /\ issued = <<>>
    /\ said = {}
    /\ seen = <<>>

Goto(r, pc, d, u) == req' = [req EXCEPT ![r] = [pc |-> pc, device |-> d, user |-> u]]

Finish(r) == req' = [req EXCEPT ![r] = Idle]
-----------------------------------------------------------------------------
(* POST /oauth/device_authorization, once the client is authenticated and   *)
(* its scope checked.                                                       *)
DeviceAuthorization(c) ==
    /\ Len(devices) < MaxDevices
    /\ devices' = Append(devices,
         [client |-> c, user |-> None, expires_at |-> now + ExpiresIn,
          approved |-> FALSE, denied |-> FALSE, used |-> FALSE])
    /\ UNCHANGED <<now, polls, req, issued, said, seen>>

(* POST /oauth/device/verify: get_device_authorization_by_user_code and the *)
(* check that the code is still undecided and unexpired.                    *)
Undecided(dev) == ~dev.used /\ ~dev.approved /\ ~dev.denied /\ dev.expires_at > now

VerifyRead(r, d, u, action) ==
    /\ req[r].pc = "idle"
    /\ Undecided(devices[d])
    /\ Goto(r, action, d, u)
    /\ UNCHANGED <<now, devices, polls, issued, said, seen>>

(* approve_device_authorization: no WHERE on the flags.                     *)
Approve(r) ==
    LET d == req[r].device IN
    /\ req[r].pc = "approve"
    /\ devices' = [devices EXCEPT ![d].approved = TRUE, ![d].denied = FALSE,
                                  ![d].user = req[r].user]
    /\ said' = said \cup {<<d, req[r].user>>}
    /\ Finish(r)
    /\ UNCHANGED <<now, polls, issued, seen>>

(* deny_device_authorization: no WHERE on the flags, user_id left alone.    *)
Deny(r) ==
    LET d == req[r].device IN
    /\ req[r].pc = "deny"
    /\ devices' = [devices EXCEPT ![d].denied = TRUE, ![d].approved = FALSE]
    /\ said' = said \cup {<<d, None>>}
    /\ Finish(r)
    /\ UNCHANGED <<now, polls, issued, seen>>

(* POST /admin/api/device/{device_code}/expire.                             *)
ExpireDevice(d) ==
    /\ devices' = [devices EXCEPT ![d].expires_at = now - 1]
    /\ UNCHANGED <<now, polls, req, issued, said, seen>>
-----------------------------------------------------------------------------
(* DevicePollTracker.                                                       *)

ExpiryOf(t) == t + EntryTTL

SweepExpired == Without(polls, {d \in DOMAIN polls : polls[d].expiry <= now})

(* Mutant of TooSoon: the interval is not looked at after a violation.      *)
TooSoonForgiving(entries, d) ==
    d \in DOMAIN entries /\ now - entries[d].last_poll < Interval

(* observe would answer with a longer interval: slow_down.                  *)
TooSoon(entries, d) ==
    d \in DOMAIN entries /\ now - entries[d].last_poll < entries[d].interval

(* observe: sweep, then record this poll.                                   *)
Observe(d) ==
    LET kept    == SweepExpired
        before  == IF d \in DOMAIN kept THEN kept[d].interval ELSE Interval
        penalty == IF TooSoon(kept, d) THEN Step ELSE 0
    IN  polls' = With(kept, d, [last_poll |-> now, interval |-> before + penalty,
                                expiry |-> ExpiryOf(now)])

(* The history PollsBackOff is about: polls less than EntryTTL apart.       *)
Witness(d) ==
    LET recent == d \in DOMAIN seen /\ now - seen[d].last < EntryTTL
        before == IF recent THEN seen[d].violations ELSE 0
        soon   == TooSoon(SweepExpired, d)
    IN  /\ soon => before < MaxSlowDowns
        /\ seen' = With(seen, d, [last |-> now, violations |-> before + IF soon THEN 1 ELSE 0])
-----------------------------------------------------------------------------
(* Mutant of Redeemable: a pending device redeems.                          *)
RedeemablePending(dev) == dev.expires_at > now /\ ~dev.denied /\ ~dev.used

(* None of expired_token, access_denied, invalid_grant and                  *)
(* authorization_pending.                                                   *)
Redeemable(dev) == dev.expires_at > now /\ ~dev.denied /\ ~dev.used /\ dev.approved

(* The device_code branch of POST /oauth/token: the row is read, the poll   *)
(* observed, and the row as read decides; `valid` is the check of the       *)
(* resource parameter, the last before the claim.                           *)
PollToken(r, c, d, valid) ==
    LET dev == devices[d]
        ready == ~TooSoon(SweepExpired, d) /\ Redeemable(dev) /\ valid
    IN  /\ req[r].pc = "idle"
        /\ dev.client = c
        /\ Observe(d)
        /\ Witness(d)
        /\ \/ ~ready /\ UNCHANGED req
           \/ ready /\ Goto(r, "claim", d, dev.user)
        /\ UNCHANGED <<now, devices, issued, said>>

(* Mutant of Claim: the row count is not looked at.                         *)
ClaimBlind(r) ==
    LET d == req[r].device IN
    /\ req[r].pc = "claim"
    /\ devices' = [devices EXCEPT ![d].used = TRUE]
    /\ Goto(r, "save", d, req[r].user)
    /\ polls' = Without(polls, {d})
    /\ seen' = Without(seen, {d})
    /\ UNCHANGED <<now, issued, said>>

(* mark_device_authorization_used: UPDATE ... WHERE used = FALSE; the       *)
(* winner forgets the poll history.                                         *)
Claim(r) ==
    LET d == req[r].device IN
    /\ req[r].pc = "claim"
    /\ \/ /\ devices[d].used
          /\ Finish(r)
          /\ UNCHANGED <<devices, polls, seen>>
       \/ /\ ~devices[d].used
          /\ devices' = [devices EXCEPT ![d].used = TRUE]
          /\ Goto(r, "save", d, req[r].user)
          /\ polls' = Without(polls, {d})
          /\ seen' = Without(seen, {d})
    /\ UNCHANGED <<now, issued, said>>

(* TokenService.issue for the user the row named when it was read.          *)
SaveIssued(r) ==
    /\ req[r].pc = "save"
    /\ issued' = Append(issued, [device |-> req[r].device, user |-> req[r].user])
    /\ Finish(r)
    /\ UNCHANGED <<now, devices, polls, said, seen>>
-----------------------------------------------------------------------------
(* The process restarts: requests and the tracker are in memory.            *)
Crash ==
    /\ \E r \in Requests : req[r].pc # "idle"
    /\ req' = [r \in Requests |-> Idle]
    /\ polls' = <<>>
    /\ seen' = <<>>
    /\ UNCHANGED <<now, devices, issued, said>>

Tick ==
    /\ Passes(MaxTime)
    /\ UNCHANGED <<devices, polls, req, issued, said, seen>>

Next ==
    \/ \E c \in Clients : DeviceAuthorization(c)
    \/ \E r \in Requests, d \in DOMAIN devices :
          \/ \E u \in Users, action \in {"approve", "deny"} : VerifyRead(r, d, u, action)
          \/ \E c \in Clients, valid \in BOOLEAN : PollToken(r, c, d, valid)
    \/ \E r \in Requests : Approve(r) \/ Deny(r) \/ Claim(r) \/ SaveIssued(r)
    \/ \E d \in DOMAIN devices : ExpireDevice(d)
    \/ Crash
    \/ Tick

Spec == Init /\ [][Next]_vars
-----------------------------------------------------------------------------
(* A device code yields at most one token, however its polls interleave:    *)
(* mark_device_authorization_used is the compare-and-set that decides.      *)
DeviceRedeemedOnce ==
    \A i, j \in DOMAIN issued : issued[i].device = issued[j].device => i = j

(* A token is issued only to a user who approved that very device code, in  *)
(* spite of approvals and denials that overtake each other between the      *)
(* check in device_verify and its UPDATE.                                   *)
IssuedToApprover ==
    \A i \in DOMAIN issued :
        issued[i].user # None /\ <<issued[i].device, issued[i].user>> \in said

(* slow_down: until the code is redeemed or the process restarts, a poll    *)
(* gets past observe only after the interval that all earlier violations    *)
(* add up to, counted from the latest poll of any kind; a swept entry       *)
(* forgives only a client that stayed away for EntryTTL.                    *)
PollsBackOff ==
    [][\A d \in DOMAIN seen \cap DOMAIN seen' :
          (seen'[d].violations = seen[d].violations /\ seen'[d].last > seen[d].last)
          => \/ seen'[d].last - seen[d].last >= Interval + Step * seen[d].violations
             \/ seen'[d].last - seen[d].last >= EntryTTL]_vars
=============================================================================
