---------------------------- MODULE ExpiryProofs ----------------------------
(***************************************************************************)
(* Proofs about what runs out while somebody still holds it: the device    *)
(* code a device polls with (DeviceFlow) and the key a token in flight was *)
(* signed with (SigningKeys).  For any number of devices, users, clients   *)
(* and requests, and for every grace, rotation, restart and reseed.        *)
(***************************************************************************)
EXTENDS DeviceFlow, SigningKeys, TLAPS

(***************************************************************************)
(* The device grant: a device code is redeemed at most once, and for a     *)
(* user who approved it.                                                   *)
(*                                                                         *)
(* Neither statement is inductive.  A request between its claim and its    *)
(* save holds a device that must be marked used and have no token yet, and *)
(* be held by no other request (Exclusive); and the user a request carries *)
(* was read from a row that an approval wrote (Vouched).                   *)
(***************************************************************************)

DeviceToken == [device : Nat, user : Users \cup {None}]

Typed ==
    /\ now \in Nat
    /\ devices \in Seq(Device)
    /\ req \in [Requests -> Request]
    /\ issued \in Seq(DeviceToken)
    /\ \A r \in Requests : req[r].pc # "idle" => req[r].device \in DOMAIN devices

(* Whoever stands as the user of a device once approved it.                 *)
Vouched ==
    /\ \A d \in DOMAIN devices :
          devices[d].approved => devices[d].user # None /\ <<d, devices[d].user>> \in said
    /\ \A r \in Requests :
          /\ req[r].pc = "approve" => req[r].user \in Users
          /\ req[r].pc \in {"claim", "save"} =>
                req[r].user # None /\ <<req[r].device, req[r].user>> \in said
    /\ IssuedToApprover

(* A device has at most one token, saved or about to be, and is used then.  *)
Exclusive ==
    /\ \A i \in DOMAIN issued : issued[i].device \in DOMAIN devices /\ devices[issued[i].device].used
    /\ \A r \in Requests :
          req[r].pc = "save" =>
             /\ devices[req[r].device].used
             /\ \A i \in DOMAIN issued : issued[i].device # req[r].device
             /\ \A s \in Requests : req[s].pc = "save" /\ req[s].device = req[r].device => r = s
    /\ DeviceRedeemedOnce

IInv == Typed /\ Vouched /\ Exclusive
-----------------------------------------------------------------------------
(* An UPDATE of one row.                                                    *)
LEMMA RowUpdate ==
  ASSUME devices \in Seq(Device), NEW d \in DOMAIN devices, NEW e \in Device,
         devices' = [devices EXCEPT ![d] = e]
  PROVE  /\ devices' \in Seq(Device)
         /\ DOMAIN devices' = DOMAIN devices
         /\ \A j \in DOMAIN devices : devices'[j] = IF j = d THEN e ELSE devices[j]
  OBVIOUS

(* A request that goes to a place, or ends.                                 *)
LEMMA GotoStep ==
  ASSUME req \in [Requests -> Request], NEW r \in Requests, NEW q \in Request,
         req' = [req EXCEPT ![r] = q]
  PROVE  /\ req' \in [Requests -> Request]
         /\ \A s \in Requests : req'[s] = IF s = r THEN q ELSE req[s]
  OBVIOUS

LEMMA IdleIsRequest == Idle \in Request
  BY DEF Idle, Request

(* The row a request is about exists.                                       *)
LEMMA HeldRow ==
  ASSUME Typed, NEW r \in Requests, req[r].pc # "idle"
  PROVE  req[r].device \in DOMAIN devices /\ devices[req[r].device] \in Device
<1>1. req[r].device \in DOMAIN devices
  BY DEF Typed
<1>2. devices \in Seq(Device)
  BY DEF Typed
<1> HIDE DEF Device
<1> QED BY <1>1, <1>2

LEMMA InitIInv == Init => IInv
<1> SUFFICES ASSUME Init PROVE IInv
  OBVIOUS
<1>1. Typed
  BY IdleIsRequest DEF Init, Typed, Idle
<1>2. Vouched /\ Exclusive
  BY DEF Init, Vouched, Exclusive, Idle, IssuedToApprover, DeviceRedeemedOnce
<1> QED BY <1>1, <1>2 DEF IInv
-----------------------------------------------------------------------------
(* A new row is neither approved nor used, and nobody speaks of it yet.     *)
LEMMA AuthorizationStep ==
  ASSUME IInv, NEW c \in Clients, DeviceAuthorization(c)
  PROVE  IInv'
<1> DEFINE e == [client |-> c, user |-> None, expires_at |-> now + ExpiresIn,
                 approved |-> FALSE, denied |-> FALSE, used |-> FALSE]
<1>1. devices' = Append(devices, e) /\ UNCHANGED <<now, req, issued, said>>
  BY DEF DeviceAuthorization
<1>2. e \in Device
  BY DeviceAssumption DEF IInv, Typed, Device
<1>3. /\ devices' \in Seq(Device)
      /\ DOMAIN devices \subseteq DOMAIN devices'
      /\ \A j \in DOMAIN devices : devices'[j] = devices[j]
      /\ \A j \in DOMAIN devices' : j \in DOMAIN devices \/ devices'[j] = e
  BY <1>1, <1>2 DEF IInv, Typed
<1>4. Typed'
  BY Zenon, <1>1, <1>3 DEF IInv, Typed
<1>5. Vouched'
  BY <1>1, <1>3 DEF IInv, Vouched, IssuedToApprover
<1>6. Exclusive'
  BY <1>1, <1>3 DEF IInv, Typed, Exclusive, DeviceRedeemedOnce
<1> QED BY <1>4, <1>5, <1>6 DEF IInv

(* What device_verify reads decides only where the request goes next.       *)
LEMMA VerifyStep ==
  ASSUME IInv, NEW r \in Requests, NEW d \in DOMAIN devices, NEW u \in Users,
         NEW action \in {"approve", "deny"}, VerifyRead(r, d, u, action)
  PROVE  IInv'
<1> DEFINE q == [pc |-> action, device |-> d, user |-> u]
<1>1. q \in Request
  <2>1. d \in Nat
    BY DEF IInv, Typed
  <2> QED BY <2>1 DEF Request
<1>2. req' = [req EXCEPT ![r] = q] /\ UNCHANGED <<now, devices, issued, said>>
  BY DEF VerifyRead, Goto
<1>3. /\ req' \in [Requests -> Request]
      /\ \A s \in Requests : req'[s] = IF s = r THEN q ELSE req[s]
  BY <1>1, <1>2, GotoStep DEF IInv, Typed
<1>4. Typed'
  BY Zenon, <1>2, <1>3 DEF IInv, Typed
<1>5. Vouched'
  BY Zenon, <1>2, <1>3 DEF IInv, Vouched, IssuedToApprover
<1>6. Exclusive'
  BY <1>2, <1>3 DEF IInv, Exclusive, DeviceRedeemedOnce
<1> QED BY <1>4, <1>5, <1>6 DEF IInv

(* The approval writes the user who makes it, and leaves `used` alone.      *)
LEMMA ApproveStep ==
  ASSUME IInv, NEW r \in Requests, Approve(r)
  PROVE  IInv'
<1> DEFINE d == req[r].device
           e == [devices[d] EXCEPT !.approved = TRUE, !.denied = FALSE, !.user = req[r].user]
<1>1. d \in DOMAIN devices /\ devices[d] \in Device /\ req[r].user \in Users
  <2>1. req[r].pc = "approve" /\ Typed /\ Vouched
    BY Zenon DEF Approve, IInv
  <2>2. req[r].user \in Users
    BY Zenon, <2>1 DEF Vouched
  <2> QED BY Zenon, <2>1, <2>2, HeldRow
<1>2. e \in Device /\ e.user = req[r].user /\ e.used = devices[d].used
  BY Zenon, <1>1 DEF Device
<1>3. /\ devices' = [devices EXCEPT ![d] = e]
      /\ req' = [req EXCEPT ![r] = Idle]
      /\ said' = said \cup {<<d, req[r].user>>}
      /\ UNCHANGED <<now, issued>>
  BY Zenon DEF Approve, Finish
<1>4. /\ devices' \in Seq(Device)
      /\ DOMAIN devices' = DOMAIN devices
      /\ \A j \in DOMAIN devices : devices'[j] = IF j = d THEN e ELSE devices[j]
  BY <1>1, <1>2, <1>3, RowUpdate DEF IInv, Typed
<1>5. /\ req' \in [Requests -> Request]
      /\ \A s \in Requests : req'[s] = IF s = r THEN Idle ELSE req[s]
  BY <1>3, GotoStep, IdleIsRequest DEF IInv, Typed
<1> HIDE DEF d, e
<1>6. Typed'
  BY <1>3, <1>4, <1>5 DEF IInv, Typed, Idle
<1>7. Vouched'
  BY Zenon, <1>1, <1>2, <1>3, <1>4, <1>5, DeviceAssumption DEF IInv, Vouched, IssuedToApprover, Idle
<1>8. Exclusive'
  BY <1>1, <1>2, <1>3, <1>4, <1>5 DEF IInv, Typed, Exclusive, DeviceRedeemedOnce, Idle
<1> QED BY <1>6, <1>7, <1>8 DEF IInv

(* The denial clears `approved`, so it leaves nothing to vouch for.         *)
LEMMA DenyStep ==
  ASSUME IInv, NEW r \in Requests, Deny(r)
  PROVE  IInv'
<1> DEFINE d == req[r].device
           e == [devices[d] EXCEPT !.denied = TRUE, !.approved = FALSE]
<1>1. d \in DOMAIN devices /\ devices[d] \in Device
  BY HeldRow DEF IInv, Deny
<1>2. e \in Device /\ ~e.approved /\ e.used = devices[d].used
  BY Zenon, <1>1 DEF Device
<1>3. /\ devices' = [devices EXCEPT ![d] = e]
      /\ req' = [req EXCEPT ![r] = Idle]
      /\ said \subseteq said'
      /\ UNCHANGED <<now, issued>>
  BY Zenon DEF Deny, Finish
<1>4. /\ devices' \in Seq(Device)
      /\ DOMAIN devices' = DOMAIN devices
      /\ \A j \in DOMAIN devices : devices'[j] = IF j = d THEN e ELSE devices[j]
  BY <1>1, <1>2, <1>3, RowUpdate DEF IInv, Typed
<1>5. /\ req' \in [Requests -> Request]
      /\ \A s \in Requests : req'[s] = IF s = r THEN Idle ELSE req[s]
  BY <1>3, GotoStep, IdleIsRequest DEF IInv, Typed
<1> HIDE DEF d, e
<1>6. Typed'
  BY Zenon, <1>3, <1>4, <1>5 DEF IInv, Typed, Idle
<1>7. Vouched'
  BY Zenon, <1>1, <1>2, <1>3, <1>4, <1>5 DEF IInv, Vouched, IssuedToApprover, Idle
<1>8. Exclusive'
  BY <1>1, <1>2, <1>3, <1>4, <1>5 DEF IInv, Typed, Exclusive, DeviceRedeemedOnce, Idle
<1> QED BY <1>6, <1>7, <1>8 DEF IInv

(* The administrator moves only the expiry.                                 *)
LEMMA ExpireStep ==
  ASSUME IInv, NEW d \in DOMAIN devices, ExpireDevice(d)
  PROVE  IInv'
<1> DEFINE e == [devices[d] EXCEPT !.expires_at = now - 1]
<1>1. devices[d] \in Device
  BY DEF IInv, Typed
<1>2. /\ e \in Device
      /\ e.approved = devices[d].approved /\ e.user = devices[d].user /\ e.used = devices[d].used
  <2>1. now - 1 \in Int
    BY DEF IInv, Typed
  <2> QED BY <1>1, <2>1 DEF Device
<1>3. devices' = [devices EXCEPT ![d] = e] /\ UNCHANGED <<now, req, issued, said>>
  BY DEF ExpireDevice
<1>4. /\ devices' \in Seq(Device)
      /\ DOMAIN devices' = DOMAIN devices
      /\ \A j \in DOMAIN devices : devices'[j] = IF j = d THEN e ELSE devices[j]
  BY <1>2, <1>3, RowUpdate DEF IInv, Typed
<1> HIDE DEF e
<1>5. Typed'
  BY Zenon, <1>3, <1>4 DEF IInv, Typed
<1>6. Vouched'
  BY Zenon, <1>2, <1>3, <1>4 DEF IInv, Vouched, IssuedToApprover
<1>7. Exclusive'
  BY Zenon, <1>2, <1>3, <1>4 DEF IInv, Typed, Exclusive, DeviceRedeemedOnce
<1> QED BY <1>5, <1>6, <1>7 DEF IInv
-----------------------------------------------------------------------------
(* A poll that is let through carries the user of an approved row.          *)
LEMMA PollStep ==
  ASSUME IInv, NEW r \in Requests, NEW d \in DOMAIN devices, NEW c \in Clients,
         NEW valid \in BOOLEAN, PollToken(r, c, d, valid)
  PROVE  IInv'
<1>1. UNCHANGED <<now, devices, issued, said>>
  BY Zenon DEF PollToken
<1>2. CASE UNCHANGED req
  BY <1>1, <1>2 DEF IInv, Typed, Vouched, Exclusive, IssuedToApprover, DeviceRedeemedOnce
<1>3. CASE Redeemable(devices[d]) /\ Goto(r, "claim", d, devices[d].user)
  <2> DEFINE q == [pc |-> "claim", device |-> d, user |-> devices[d].user]
  <2>1. d \in Nat /\ devices[d] \in Device
    BY DEF IInv, Typed
  <2>2. q \in Request
    BY <2>1 DEF Request, Device
  <2>3. req' = [req EXCEPT ![r] = q]
    BY <1>3 DEF Goto
  <2>4. /\ req' \in [Requests -> Request]
        /\ \A s \in Requests : req'[s] = IF s = r THEN q ELSE req[s]
    BY <2>2, <2>3, GotoStep DEF IInv, Typed
  <2>5. devices[d].user # None /\ <<d, devices[d].user>> \in said
    BY <1>3 DEF Redeemable, IInv, Vouched
  <2>6. Typed'
    BY <1>1, <2>4 DEF IInv, Typed
  <2>7. Vouched'
    BY <1>1, <2>4, <2>5 DEF IInv, Vouched, IssuedToApprover
  <2>8. Exclusive'
    BY <1>1, <2>4 DEF IInv, Exclusive, DeviceRedeemedOnce
  <2> QED BY <2>6, <2>7, <2>8 DEF IInv
<1> QED BY <1>2, <1>3 DEF PollToken

(* The compare-and-set: only a request that finds the row unused goes on,   *)
(* and an unused row has no token and nobody about to save one.             *)
LEMMA ClaimStep ==
  ASSUME IInv, NEW r \in Requests, Claim(r)
  PROVE  IInv'
<1> DEFINE d == req[r].device
           e == [devices[d] EXCEPT !.used = TRUE]
           q == [pc |-> "save", device |-> d, user |-> req[r].user]
<1>1. req[r].pc = "claim" /\ d \in DOMAIN devices /\ devices[d] \in Device /\ req[r] \in Request
  BY HeldRow DEF IInv, Typed, Claim
<1>2. UNCHANGED <<now, issued, said>>
  BY DEF Claim
<1>3. CASE Finish(r) /\ UNCHANGED devices
  <2>1. /\ req' \in [Requests -> Request]
        /\ \A s \in Requests : req'[s] = IF s = r THEN Idle ELSE req[s]
    BY <1>3, GotoStep, IdleIsRequest DEF IInv, Typed, Finish
  <2>2. Typed'
    BY <1>2, <1>3, <2>1 DEF IInv, Typed, Idle
  <2>3. Vouched'
    BY <1>2, <1>3, <2>1 DEF IInv, Vouched, IssuedToApprover, Idle
  <2>4. Exclusive'
    BY <1>2, <1>3, <2>1 DEF IInv, Exclusive, DeviceRedeemedOnce, Idle
  <2> QED BY <2>2, <2>3, <2>4 DEF IInv
<1>4. CASE /\ ~devices[d].used
           /\ devices' = [devices EXCEPT ![d].used = TRUE]
           /\ Goto(r, "save", d, req[r].user)
  <2>1. /\ e \in Device
        /\ e.used /\ e.approved = devices[d].approved /\ e.user = devices[d].user
    BY Zenon, <1>1 DEF Device
  <2>2. devices' = [devices EXCEPT ![d] = e]
    BY <1>4
  <2>3. /\ devices' \in Seq(Device)
        /\ DOMAIN devices' = DOMAIN devices
        /\ \A j \in DOMAIN devices : devices'[j] = IF j = d THEN e ELSE devices[j]
    BY <1>1, <2>1, <2>2, RowUpdate DEF IInv, Typed
  <2>4. q \in Request
    BY <1>1 DEF Request
  <2>5. /\ req' \in [Requests -> Request]
        /\ \A s \in Requests : req'[s] = IF s = r THEN q ELSE req[s]
    BY <1>4, <2>4, GotoStep DEF IInv, Typed, Goto
  <2>6. Typed'
    BY <1>1, <1>2, <2>3, <2>5 DEF IInv, Typed
  <2>7. Vouched'
    <3> HIDE DEF e
    <3> QED BY <1>1, <1>2, <2>1, <2>3, <2>5 DEF IInv, Vouched, IssuedToApprover
  <2>8. Exclusive'
    <3> HIDE DEF e
    <3>1. \A i \in DOMAIN issued : issued[i].device # d
      BY <1>4 DEF IInv, Exclusive
    <3>2. \A s \in Requests : req[s].pc = "save" => req[s].device # d
      BY Zenon, <1>4 DEF IInv, Exclusive
    <3> HIDE DEF d
    <3> QED BY <1>1, <1>2, <2>1, <2>3, <2>5, <3>1, <3>2
            DEF IInv, Typed, Exclusive, DeviceRedeemedOnce
  <2> QED BY <2>6, <2>7, <2>8 DEF IInv
<1> QED BY <1>3, <1>4 DEF Claim

(* The save turns the request's claim into the device's only token.         *)
LEMMA SaveStep ==
  ASSUME IInv, NEW r \in Requests, SaveIssued(r)
  PROVE  IInv'
<1> DEFINE t == [device |-> req[r].device, user |-> req[r].user]
           n == Len(issued) + 1
<1>1. req[r].pc = "save" /\ req[r] \in Request /\ issued \in Seq(DeviceToken)
  BY Zenon DEF IInv, Typed, SaveIssued
<1>2. t \in DeviceToken
  BY <1>1 DEF DeviceToken, Request
<1>3. issued' = Append(issued, t) /\ Finish(r) /\ UNCHANGED <<now, devices, said>>
  BY DEF SaveIssued
<1>4. /\ issued' \in Seq(DeviceToken)
      /\ DOMAIN issued' = DOMAIN issued \cup {n} /\ n \notin DOMAIN issued
      /\ \A i \in DOMAIN issued : issued'[i] = issued[i]
      /\ issued'[n] = t
  <2>1. /\ issued' \in Seq(DeviceToken) /\ Len(issued') = n
        /\ \A i \in 1 .. Len(issued) : issued'[i] = issued[i]
        /\ issued'[n] = t
    BY <1>1, <1>2, <1>3
  <2>2. DOMAIN issued = 1 .. Len(issued) /\ DOMAIN issued' = 1 .. Len(issued') /\ Len(issued) \in Nat
    BY <1>1, <2>1
  <2> QED BY <2>1, <2>2
<1>5. /\ req' \in [Requests -> Request]
      /\ \A s \in Requests : req'[s] = IF s = r THEN Idle ELSE req[s]
  BY Zenon, <1>3, GotoStep, IdleIsRequest DEF IInv, Typed, Finish
<1>6. /\ t.device = req[r].device /\ t.user = req[r].user
      /\ t.user # None /\ <<t.device, t.user>> \in said
      /\ t.device \in DOMAIN devices /\ devices[t.device].used
      /\ \A i \in DOMAIN issued : issued[i].device # t.device
      /\ \A s \in Requests : req[s].pc = "save" /\ req[s].device = t.device => s = r
  BY <1>1 DEF IInv, Typed, Vouched, Exclusive
<1>7. UNCHANGED <<now, devices, said>>
  BY Zenon DEF SaveIssued
<1> HIDE DEF t, n
<1>8. Typed'
  BY <1>4, <1>5, <1>7 DEF IInv, Typed, Idle
<1>9. Vouched'
  <2>1. IssuedToApprover'
    BY Zenon, <1>4, <1>6, <1>7 DEF IInv, Vouched, IssuedToApprover
  <2> QED BY <1>5, <1>7, <2>1 DEF IInv, Vouched, Idle
<1>10. Exclusive'
  <2>1. DeviceRedeemedOnce'
    BY <1>4, <1>6 DEF IInv, Exclusive, DeviceRedeemedOnce
  <2>2. ASSUME NEW i \in DOMAIN issued'
        PROVE  issued'[i].device \in DOMAIN devices' /\ devices'[issued'[i].device].used
    BY Zenon, <1>4, <1>6, <1>7 DEF IInv, Exclusive
  <2>3. ASSUME NEW s \in Requests, req'[s].pc = "save"
        PROVE  /\ devices'[req'[s].device].used
               /\ \A i \in DOMAIN issued' : issued'[i].device # req'[s].device
               /\ \A q \in Requests : req'[q].pc = "save" /\ req'[q].device = req'[s].device => s = q
    <3>1. s # r /\ req'[s] = req[s]
      BY <1>5, <2>3 DEF Idle
    <3>2. req[s].device # t.device
      BY Zenon, <1>6, <2>3, <3>1
    <3>3. \A q \in Requests : req'[q].pc = "save" => req'[q] = req[q]
      BY <1>5 DEF Idle
    <3> QED BY <1>4, <1>7, <2>3, <3>1, <3>2, <3>3 DEF IInv, Exclusive
  <2> QED BY Zenon, <2>1, <2>2, <2>3 DEF Exclusive
<1> QED BY <1>8, <1>9, <1>10 DEF IInv

(* A crash forgets the requests; a device claimed but not saved stays used. *)
LEMMA CrashStep ==
  ASSUME IInv, Crash
  PROVE  IInv'
<1>1. req' = [r \in Requests |-> Idle] /\ UNCHANGED <<now, devices, issued, said>>
  BY DEF Crash
<1>2. Typed'
  BY Zenon, <1>1, IdleIsRequest DEF IInv, Typed, Idle
<1>3. Vouched' /\ Exclusive'
  BY <1>1 DEF IInv, Vouched, Exclusive, IssuedToApprover, DeviceRedeemedOnce, Idle
<1> QED BY <1>2, <1>3 DEF IInv

LEMMA NextIInv == IInv /\ [Next]_vars => IInv'
<1> SUFFICES ASSUME IInv, [Next]_vars PROVE IInv'
  BY Zenon
<1>1. CASE Tick \/ UNCHANGED vars
  BY <1>1 DEF Tick, Passes, vars, IInv, Typed, Vouched, Exclusive, IssuedToApprover,
                        DeviceRedeemedOnce
<1> QED
  BY <1>1, AuthorizationStep, VerifyStep, ApproveStep, DenyStep, ExpireStep, PollStep, ClaimStep,
     SaveStep, CrashStep
  DEF Next
-----------------------------------------------------------------------------
LEMMA AlwaysIInv == Spec => []IInv
  BY InitIInv, NextIInv, PTL DEF Spec

(* mark_device_authorization_used lets one request through for each device  *)
(* code, for any number of devices, requests, crashes and interleavings.    *)
THEOREM CodeYieldsOneToken == Spec => []DeviceRedeemedOnce
<1>1. IInv => DeviceRedeemedOnce
  BY DEF IInv, Exclusive
<1> QED BY <1>1, AlwaysIInv, PTL

(* Whatever approvals and denials overwrite each other between              *)
(* device_verify's check and its UPDATE, the token is for a user who        *)
(* approved the device.                                                     *)
THEOREM OnlyApproversGetTokens == Spec => []IssuedToApprover
<1>1. IInv => IssuedToApprover
  BY Zenon DEF IInv, Vouched
<1> QED BY <1>1, AlwaysIInv, PTL
-----------------------------------------------------------------------------
(***************************************************************************)
(* slow_down.                                                              *)
(***************************************************************************)

(* What the tracker holds about a device is its history: the latest poll,   *)
(* and the interval its violations add up to.  It has nothing about a       *)
(* device only if that stayed away for EntryTTL.                            *)
Tracked ==
    /\ now \in Nat
    /\ \A d \in DOMAIN seen :
          /\ seen[d].last \in 0 .. now /\ seen[d].violations \in Nat
          /\ d \notin DOMAIN polls => now - seen[d].last >= EntryTTL
    /\ \A d \in DOMAIN polls :
          /\ d \in DOMAIN seen
          /\ polls[d].last_poll = seen[d].last
          /\ polls[d].interval = Interval + Step * seen[d].violations
          /\ polls[d].expiry = seen[d].last + EntryTTL

(* The step that PollsBackOff allows, for one device.                       *)
BacksOff(d) ==
    (seen'[d].violations = seen[d].violations /\ seen'[d].last > seen[d].last)
    => \/ seen'[d].last - seen[d].last >= Interval + Step * seen[d].violations
       \/ seen'[d].last - seen[d].last >= EntryTTL

(* observe finds an entry exactly when the last poll is recent, and calls   *)
(* the poll too soon by the interval of the history.                        *)
LEMMA SweepIsRecent ==
  ASSUME Tracked, NEW d
  PROVE  /\ d \in DOMAIN SweepExpired <=> d \in DOMAIN seen /\ now - seen[d].last < EntryTTL
         /\ d \in DOMAIN SweepExpired => SweepExpired[d] = polls[d] /\ d \in DOMAIN polls
         /\ TooSoon(SweepExpired, d) <=>
              /\ d \in DOMAIN SweepExpired
              /\ now - seen[d].last < Interval + Step * seen[d].violations
<1> DEFINE kept == SweepExpired
<1>1. /\ DOMAIN kept = {j \in DOMAIN polls : ~(polls[j].expiry <= now)}
      /\ \A j \in DOMAIN kept : kept[j] = polls[j]
  BY Zenon DEF SweepExpired, Without
<1> HIDE DEF kept
<1>2. d \in DOMAIN kept <=> d \in DOMAIN seen /\ now - seen[d].last < EntryTTL
  BY <1>1, DeviceAssumption DEF Tracked
<1>3. d \in DOMAIN kept => kept[d] = polls[d] /\ d \in DOMAIN polls
  BY Zenon, <1>1
<1>4. TooSoon(kept, d) <=>
        d \in DOMAIN kept /\ now - seen[d].last < Interval + Step * seen[d].violations
  BY <1>3 DEF TooSoon, Tracked
<1> QED BY <1>2, <1>3, <1>4 DEF kept

(* A poll that is observed keeps the tracker true to the history, and backs *)
(* off.                                                                     *)
LEMMA ObserveTracks ==
  ASSUME Tracked, NEW d, Observe(d), Witness(d), UNCHANGED now
  PROVE  /\ Tracked'
         /\ \A j \in DOMAIN seen \cap DOMAIN seen' : BacksOff(j)
<1> DEFINE kept   == SweepExpired
           recent == d \in DOMAIN seen /\ now - seen[d].last < EntryTTL
           soon   == TooSoon(kept, d)
           v      == IF recent THEN seen[d].violations ELSE 0
           w      == v + IF soon THEN 1 ELSE 0
           i      == (IF d \in DOMAIN kept THEN kept[d].interval ELSE Interval)
                       + IF soon THEN Step ELSE 0
<1>1. /\ now \in Nat /\ EntryTTL \in Nat /\ Interval \in Nat /\ Step \in Nat
      /\ DOMAIN kept \subseteq DOMAIN polls
      /\ \A j \in DOMAIN polls \ DOMAIN kept : polls[j].expiry <= now
      /\ \A j \in DOMAIN kept : kept[j] = polls[j]
  BY Zenon, DeviceAssumption DEF Tracked, SweepExpired, Without
<1>2. /\ d \in DOMAIN kept <=> recent
      /\ soon <=> recent /\ now - seen[d].last < Interval + Step * seen[d].violations
  BY Zenon, SweepIsRecent
<1>3. polls' = With(kept, d, [last_poll |-> now, interval |-> i, expiry |-> now + EntryTTL])
  BY Zenon DEF Observe, ExpiryOf
<1>4. seen' = With(seen, d, [last |-> now, violations |-> w])
  BY Zenon DEF Witness
<1> HIDE DEF kept, soon
<1>5. v \in Nat /\ w \in Nat /\ i = Interval + Step * w
  <2>1. recent => seen[d].violations \in Nat /\ polls[d].interval = Interval + Step * seen[d].violations
    BY Zenon, <1>1, <1>2 DEF Tracked
  <2>2. v \in Nat /\ w \in Nat
    BY <2>1
  <2>3. (IF d \in DOMAIN kept THEN kept[d].interval ELSE Interval) = Interval + Step * v
    <3>1. CASE recent
      BY Zenon, <1>1, <1>2, <2>1, <3>1
    <3>2. CASE ~recent
      BY <1>1, <1>2, <3>2
    <3> QED BY Zenon, <3>1, <3>2
  <2> HIDE DEF v, recent
  <2>4. Step * v \in Nat /\ Step * (v + 1) = Step * v + Step
    BY <1>1, <2>2
  <2>5. CASE soon
    <3>1. w = v + 1
      BY <2>5
    <3>2. i = Interval + Step * v + Step
      BY Zenon, <2>3, <2>5
    <3> HIDE DEF w, i
    <3> QED BY <1>1, <2>2, <2>4, <3>1, <3>2
  <2>6. CASE ~soon
    BY <1>1, <2>2, <2>3, <2>4, <2>6
  <2> QED BY Zenon, <2>2, <2>5, <2>6
<1>6. /\ DOMAIN polls' = DOMAIN kept \cup {d}
      /\ polls'[d] = [last_poll |-> now, interval |-> i, expiry |-> now + EntryTTL]
      /\ \A j \in DOMAIN kept \ {d} : polls'[j] = polls[j]
  BY Zenon, <1>1, <1>3 DEF With
<1>7. /\ DOMAIN seen' = DOMAIN seen \cup {d}
      /\ seen'[d] = [last |-> now, violations |-> w]
      /\ \A j \in DOMAIN seen \ {d} : seen'[j] = seen[j]
  BY Zenon, <1>4 DEF With
<1>8. BacksOff(d) \/ d \notin DOMAIN seen
  <2> SUFFICES ASSUME d \in DOMAIN seen, seen'[d].violations = seen[d].violations,
                      now - seen[d].last < EntryTTL
               PROVE  now - seen[d].last >= Interval + Step * seen[d].violations
    BY <1>1, <1>7 DEF BacksOff, Tracked
  <2>1. seen[d].last \in Nat /\ seen[d].violations \in Nat
    BY DEF Tracked
  <2>2. ~soon
    BY <1>7, <2>1
  <2>3. Step * seen[d].violations \in Nat
    BY <1>1, <2>1
  <2> QED BY <1>1, <1>2, <2>1, <2>2, <2>3
<1> HIDE DEF i, w, v, recent
<1>9. ASSUME NEW j \in DOMAIN seen, j # d PROVE BacksOff(j)
  <2>1. seen'[j] = seen[j] /\ seen[j].last \in Nat
    BY <1>7, <1>9 DEF Tracked
  <2> QED BY <2>1 DEF BacksOff
<1>10. ASSUME NEW j \in DOMAIN seen'
       PROVE  /\ seen'[j].last \in 0 .. now' /\ seen'[j].violations \in Nat
              /\ j \notin DOMAIN polls' => now' - seen'[j].last >= EntryTTL
  <2>1. CASE j = d
    BY <1>1, <1>5, <1>6, <1>7, <2>1
  <2>2. CASE j # d
    <3>1. /\ j \in DOMAIN seen /\ seen'[j] = seen[j]
          /\ j \notin DOMAIN polls' => j \notin DOMAIN kept
      BY Zenon, <1>6, <1>7, <2>2
    <3>2. /\ seen[j].last \in 0 .. now /\ seen[j].violations \in Nat
          /\ j \notin DOMAIN polls => now - seen[j].last >= EntryTTL
          /\ j \in DOMAIN polls => polls[j].expiry = seen[j].last + EntryTTL
      BY Zenon, <3>1 DEF Tracked
    <3> QED BY <1>1, <3>1, <3>2
  <2> QED BY Zenon, <2>1, <2>2
<1>11. ASSUME NEW j \in DOMAIN polls'
       PROVE  /\ j \in DOMAIN seen'
              /\ polls'[j].last_poll = seen'[j].last
              /\ polls'[j].interval = Interval + Step * seen'[j].violations
              /\ polls'[j].expiry = seen'[j].last + EntryTTL
  <2>1. CASE j = d
    BY <1>5, <1>6, <1>7, <2>1
  <2>2. CASE j # d
    BY Zenon, <1>1, <1>6, <1>7, <2>2 DEF Tracked
  <2> QED BY Zenon, <2>1, <2>2
<1>12. Tracked'
  BY Zenon, <1>1, <1>10, <1>11 DEF Tracked
<1> QED BY Zenon, <1>8, <1>9, <1>12

LEMMA TrackedInit == Init => Tracked
BY DEF Init, Tracked

(* Every step keeps the tracker true to the history, and backs off.         *)
LEMMA TrackedStep ==
  ASSUME Tracked, [Next]_vars
  PROVE  /\ Tracked'
         /\ \A d \in DOMAIN seen \cap DOMAIN seen' : BacksOff(d)
<1>1. ASSUME UNCHANGED <<polls, seen>>, now' = now \/ now' = now + 1
      PROVE  /\ Tracked'
             /\ \A d \in DOMAIN seen \cap DOMAIN seen' : BacksOff(d)
  <2>1. \A d \in DOMAIN seen : seen'[d] = seen[d] /\ seen[d].last \in Nat
    BY <1>1 DEF Tracked
  <2>2. \A d \in DOMAIN seen : BacksOff(d)
    BY <2>1 DEF BacksOff
  <2>3. Tracked'
    BY <1>1, DeviceAssumption DEF Tracked
  <2> QED BY Zenon, <2>2, <2>3
<1>2. CASE UNCHANGED vars
  BY Zenon, <1>1, <1>2 DEF vars
<1>3. ASSUME NEW r, NEW d, Claim(r), d = req[r].device, ~UNCHANGED <<polls, seen>>
      PROVE  /\ Tracked'
             /\ \A j \in DOMAIN seen \cap DOMAIN seen' : BacksOff(j)
  <2>1. /\ polls' = Without(polls, {d}) /\ seen' = Without(seen, {d})
        /\ now' = now
    BY Zenon, <1>3 DEF Claim
  <2>2. /\ DOMAIN polls' = DOMAIN polls \ {d} /\ \A j \in DOMAIN polls' : polls'[j] = polls[j]
        /\ DOMAIN seen' = DOMAIN seen \ {d} /\ \A j \in DOMAIN seen' : seen'[j] = seen[j]
    BY Zenon, <2>1 DEF Without
  <2>3. \A j \in DOMAIN seen' : BacksOff(j)
    BY <2>2 DEF BacksOff, Tracked
  <2>4. Tracked'
    BY ZenonT(60), <2>1, <2>2 DEF Tracked
  <2> QED BY Zenon, <2>3, <2>4
<1>4. ASSUME Crash
      PROVE  Tracked' /\ DOMAIN seen' = {}
  BY <1>4 DEF Crash, Tracked
<1>5. ASSUME NEW r, NEW c, NEW d, NEW valid, PollToken(r, c, d, valid)
      PROVE  /\ Tracked'
             /\ \A j \in DOMAIN seen \cap DOMAIN seen' : BacksOff(j)
  <2>1. Observe(d) /\ Witness(d) /\ UNCHANGED now
    BY <1>5 DEF PollToken
  <2> QED BY <2>1, ObserveTracks
<1>6. ASSUME NEW c, DeviceAuthorization(c)
      PROVE  UNCHANGED <<polls, seen, now>>
  BY <1>6 DEF DeviceAuthorization
<1>7. ASSUME NEW r, NEW d, NEW u, NEW action, VerifyRead(r, d, u, action)
      PROVE  UNCHANGED <<polls, seen, now>>
  BY <1>7 DEF VerifyRead
<1>8. ASSUME NEW r, Approve(r) \/ Deny(r) \/ SaveIssued(r)
      PROVE  UNCHANGED <<polls, seen, now>>
  BY <1>8 DEF Approve, Deny, SaveIssued
<1>9. ASSUME NEW d, ExpireDevice(d)
      PROVE  UNCHANGED <<polls, seen, now>>
  BY <1>9 DEF ExpireDevice
<1>10. ASSUME NEW r, Claim(r)
       PROVE  UNCHANGED now
  BY <1>10 DEF Claim
<1>11. CASE Tick
  BY <1>1, <1>11 DEF Tick, Passes
<1>12. CASE UNCHANGED <<polls, seen, now>>
  BY <1>1, <1>12
<1>13. CASE \E r \in Requests : Claim(r)
  BY <1>3, <1>10, <1>12, <1>13
<1> QED BY Zenon, <1>2, <1>4, <1>5, <1>6, <1>7, <1>8, <1>9, <1>11, <1>12, <1>13 DEF Next

(* slow_down for every number of devices, clients and requests, and every   *)
(* interval, increment and entry lifetime: whatever requests interleave, a  *)
(* poll that observe lets pass came after the interval that the violations  *)
(* before it add up to, or after the entry's lifetime.                      *)
THEOREM PollsAlwaysBackOff == Spec => PollsBackOff
<1>1. Tracked /\ [Next]_vars => Tracked'
  BY TrackedStep
<1>2. Tracked /\ [Next]_vars
        => [\A d \in DOMAIN seen \cap DOMAIN seen' :
              (seen'[d].violations = seen[d].violations /\ seen'[d].last > seen[d].last)
              => \/ seen'[d].last - seen[d].last >= Interval + Step * seen[d].violations
                 \/ seen'[d].last - seen[d].last >= EntryTTL]_vars
  BY TrackedStep DEF BacksOff
<1> QED BY TrackedInit, <1>1, <1>2, PTL DEF Spec, PollsBackOff
-----------------------------------------------------------------------------
(***************************************************************************)
(* The signing keys: one key signs for an algorithm in use, what it signed *)
(* verifies until its grace is over, and not afterwards.                   *)
(*                                                                         *)
(* None of the three is inductive.  Which key verifies a token depends on  *)
(* what the token names (Names), on every held key expiring when its       *)
(* rotation announced (Announced), and on no key being dropped before that *)
(* by a prune or a restart (KeyHeld).                                      *)
(***************************************************************************)

(* A material is one key's, and a seeded one is what seeding made it.       *)
Numbered ==
    /\ \A k \in keys :
          /\ k.material < generated + 2
          /\ k.material = Secret => k.algorithm = "HS256" /\ k.kid = <<"HS256", 0>>
          /\ k.material = Pem => k.algorithm = "RS256" /\ k.kid = <<"RS256", 0>> /\ config.pem
    /\ \A j, k \in keys : j.material = k.material => j = k
    /\ \A m \in DOMAIN retired : m < generated + 2

(* A key that is not current expires when its rotation said it would.       *)
Announced ==
    \A k \in keys :
        /\ k.is_current => k.expires_at = {} /\ k.material \notin DOMAIN retired
        /\ ~k.is_current => /\ k.material \in DOMAIN retired
                            /\ k.expires_at = {retired[k.material]}

InUseAlg(alg) == alg = "HS256" \/ config.pem \/ \E k \in keys : k.algorithm = alg

(* At most one key of an algorithm is current, and one is if it is in use.  *)
Signers ==
    /\ \A j, k \in keys : j.algorithm = k.algorithm /\ j.is_current /\ k.is_current => j = k
    /\ \A alg \in Algs : InUseAlg(alg) => \E k \in keys : k.algorithm = alg /\ k.is_current

(* A token names the algorithm and the kid of the key that signed it; only  *)
(* an HS256 id_token has no kid, and it is signed with the secret.          *)
Names(t) ==
    /\ t.material < generated + 2 /\ t.boot <= reseeds
    /\ t.kid = {} => t.material = Secret /\ t.use = "id"
    /\ t.use = "id" /\ t.alg = "HS256" => t.material = Secret
    /\ t.material = Secret => t.alg = "HS256" /\ t.kid \in {{}, {<<"HS256", 0>>}}
    /\ t.material = Pem => t.alg = "RS256" /\ t.kid = {<<"RS256", 0>>} /\ config.pem
    /\ \A k \in keys :
          k.material = t.material => k.algorithm = t.alg /\ t.kid \in {{}, {k.kid}}

(* What is configured, and what this process has signed with, is held until *)
(* its grace is over.                                                       *)
Trusted(m) ==
    \/ m = Secret
    \/ m = Pem /\ config.pem
    \/ \E t \in tokens : t.boot = reseeds /\ t.material = m

KeyHeld == \A m \in Nat : Trusted(m) /\ InGrace(m) => \E k \in keys : k.material = m

KeyInv ==
    /\ KeysTypeOK /\ Numbered /\ Announced /\ Signers
    /\ \A t \in tokens : Names(t)
    /\ KeyHeld

(* A key that is current does not expire, and one in grace has not expired. *)
LEMMA GraceIsActive ==
    ASSUME KeyInv, NEW k \in keys
    PROVE  /\ k.is_current => IsActive(k)
           /\ InGrace(k.material) <=> IsActive(k)
<1>1. CASE k.is_current
  BY <1>1 DEF KeyInv, Announced, IsActive, InGrace
<1>2. CASE ~k.is_current
  BY <1>2 DEF KeyInv, Announced, IsActive, InGrace
<1> QED
  BY <1>1, <1>2
-----------------------------------------------------------------------------
(* What seeding gives.                                                      *)
LEMMA SeededKeys ==
    ASSUME NEW pem \in BOOLEAN, NEW k \in Seeded(pem)
    PROVE  /\ k \in SigningKey
           /\ k.is_current /\ k.expires_at = {}
           /\ \/ k.material = Secret /\ k.algorithm = "HS256" /\ k.kid = <<"HS256", 0>>
              \/ k.material = Pem /\ k.algorithm = "RS256" /\ k.kid = <<"RS256", 0>> /\ pem
           /\ \A j \in Seeded(pem) : j.algorithm = k.algorithm => j = k
<1> DEFINE yes == TRUE
<1> HIDE DEF yes
<1> DEFINE hs == [kid |-> <<"HS256", 0>>, algorithm |-> "HS256", material |-> Secret,
                  is_current |-> yes, expires_at |-> {}]
           rs == [kid |-> <<"RS256", 0>>, algorithm |-> "RS256", material |-> Pem,
                  is_current |-> yes, expires_at |-> {}]
<1>1. Seeded(pem) = {hs} \cup (IF pem THEN {rs} ELSE {})
  BY Zenon DEF Seeded, NewKey, yes
<1>2. yes \in BOOLEAN /\ yes
  BY DEF yes
<1>3. hs \in SigningKey /\ rs \in SigningKey
  BY <1>2 DEF SigningKey, Kid, Algs, Secret, Pem
<1>4. /\ hs.is_current = yes /\ hs.expires_at = {} /\ hs.material = Secret
      /\ hs.algorithm = "HS256" /\ hs.kid = <<"HS256", 0>>
  BY Zenon
<1>5. /\ rs.is_current = yes /\ rs.expires_at = {} /\ rs.material = Pem
      /\ rs.algorithm = "RS256" /\ rs.kid = <<"RS256", 0>>
  OBVIOUS
<1> HIDE DEF hs, rs
<1>6. \A j \in Seeded(pem) : j = hs \/ (j = rs /\ pem)
  BY Zenon, <1>1
<1>7. CASE k = hs
  BY Zenon, <1>2, <1>3, <1>4, <1>5, <1>6, <1>7
<1>8. CASE k = rs /\ pem
  BY Zenon, <1>2, <1>3, <1>4, <1>5, <1>6, <1>8
<1> QED
  BY <1>6, <1>7, <1>8

LEMMA SeededHas ==
    ASSUME NEW pem \in BOOLEAN
    PROVE  /\ \E k \in Seeded(pem) :
                k.material = Secret /\ k.algorithm = "HS256" /\ k.is_current
           /\ pem => \E k \in Seeded(pem) :
                        k.material = Pem /\ k.algorithm = "RS256" /\ k.is_current
<1>1. NewKey("HS256", 0, Secret) \in Seeded(pem)
  BY DEF Seeded
<1>2. pem => NewKey("RS256", 0, Pem) \in Seeded(pem)
  BY DEF Seeded
<1> QED
  BY <1>1, <1>2, Zenon DEF NewKey
-----------------------------------------------------------------------------
LEMMA KeyInvInit == KeysInit => KeyInv
<1> SUFFICES ASSUME KeysInit PROVE KeyInv
  OBVIOUS
<1>1. config.pem \in BOOLEAN /\ keys = Seeded(config.pem)
  BY Zenon DEF KeysInit
<1>2. KeysTypeOK
  BY <1>1, SeededKeys DEF KeysInit, KeysTypeOK
<1>3. Numbered
  BY <1>1, SeededKeys DEF KeysInit, Numbered, Secret, Pem
<1>4. Announced
  BY <1>1, SeededKeys DEF KeysInit, Announced
<1>5. Signers
  BY <1>1, SeededKeys, SeededHas DEF Signers, InUseAlg, Algs
<1>6. KeyHeld
  BY Zenon, <1>1, SeededHas DEF KeysInit, KeyHeld, Trusted
<1> QED
  BY Zenon, <1>2, <1>3, <1>4, <1>5, <1>6 DEF KeyInv, KeysInit

(* A restart seeds the keys again.                                          *)
LEMMA KeyInvRestart == KeyInv /\ KeysRestart => KeyInv'
<1> SUFFICES ASSUME KeyInv, KeysRestart PROVE KeyInv'
  BY Zenon
<1>1. /\ config.pem \in BOOLEAN /\ keys' = Seeded(config.pem) /\ retired' = <<>>
      /\ config' = config /\ tokens' = tokens /\ generated' = generated /\ now' = now
      /\ generated \in Nat /\ reseeds' = reseeds + 1 /\ reseeds \in Nat
      /\ config \in [pem : BOOLEAN, id_token_alg : Algs]
  BY Zenon DEF KeyInv, KeysTypeOK, KeysRestart
<1>2. KeysTypeOK'
  BY <1>1, SeededKeys DEF KeyInv, KeysTypeOK
<1>3. Numbered'
  BY <1>1, SeededKeys DEF Numbered, Secret, Pem
<1>4. Announced'
  BY <1>1, SeededKeys DEF Announced
<1>5. Signers'
  BY <1>1, SeededKeys, SeededHas DEF Signers, InUseAlg, Algs
<1>6. ASSUME NEW t \in tokens PROVE Names(t)'
  <2>1. Names(t) /\ t \in Token
    BY Zenon DEF KeyInv, KeysTypeOK
  <2>2. ASSUME NEW k \in keys', k.material = t.material
        PROVE  k.algorithm = t.alg /\ t.kid \in {{}, {k.kid}}
    BY Zenon, <1>1, <2>1, <2>2, SeededKeys DEF Names
  <2>3. t.boot <= reseeds'
    BY <1>1, <2>1 DEF Names, Token
  <2> QED
    BY Zenon, <1>1, <2>1, <2>2, <2>3 DEF Names
<1>8. KeyHeld'
  <2> SUFFICES ASSUME NEW m \in Nat, Trusted(m)' PROVE \E k \in keys' : k.material = m
    BY Zenon DEF KeyHeld
  <2>1. CASE m = Secret \/ (m = Pem /\ config.pem)
    BY Zenon, <1>1, <2>1, SeededHas
  <2>2. \A t \in tokens : t.boot # reseeds'
    BY <1>1 DEF KeyInv, KeysTypeOK, Names, Token
  <2> QED
    BY <1>1, <2>1, <2>2 DEF Trusted
<1> QED
  BY Zenon, <1>1, <1>2, <1>3, <1>4, <1>5, <1>6, <1>8 DEF KeyInv

(* Time only ends graces.                                                   *)
LEMMA KeyInvTick == KeyInv /\ KeysTick => KeyInv'
<1> SUFFICES ASSUME KeyInv, KeysTick PROVE KeyInv'
  OBVIOUS
<1>1. /\ now \in Nat /\ now' = now + 1
      /\ UNCHANGED <<config, keys, tokens, generated, reseeds, retired>>
  BY Zenon DEF KeyInv, KeysTypeOK, KeysTick, Passes
<1>2. KeysTypeOK'
  BY <1>1 DEF KeyInv, KeysTypeOK
<1>3. Numbered' /\ Announced' /\ Signers'
  BY Zenon, <1>1 DEF KeyInv, Numbered, Announced, Signers, InUseAlg
<1>4. \A t \in tokens : Names(t)'
  BY <1>1 DEF KeyInv, Names
<1>5. KeyHeld'
  <2> SUFFICES ASSUME NEW m \in Nat, Trusted(m)', InGrace(m)' PROVE \E k \in keys : k.material = m
    BY Zenon, <1>1 DEF KeyHeld
  <2>1. Trusted(m)
    BY Zenon, <1>1 DEF Trusted
  <2>2. InGrace(m)
    BY <1>1 DEF InGrace, KeyInv, KeysTypeOK
  <2> QED
    BY Zenon, <2>1, <2>2 DEF KeyInv, KeyHeld
<1> QED
  BY Zenon, <1>1, <1>2, <1>3, <1>4, <1>5 DEF KeyInv
-----------------------------------------------------------------------------
(* What signs is a key that is current, or the secret.                      *)
LEMMA SignStep ==
    ASSUME KeyInv, NEW use \in {"access", "id"}, NEW alg \in Algs, NEW kid \in SUBSET Kid,
           NEW material \in Nat, Sign(use, alg, kid, material),
           \/ \E k \in keys : /\ k.is_current /\ material = k.material
                              /\ alg = k.algorithm /\ kid = {k.kid}
                              /\ use = "access" \/ alg = "RS256"
           \/ material = Secret /\ alg = "HS256" /\ kid = {} /\ use = "id"
    PROVE  KeyInv'
<1> DEFINE new == [use |-> use, alg |-> alg, kid |-> kid, material |-> material,
                   boot |-> reseeds]
<1>1. /\ tokens' = tokens \cup {new}
      /\ UNCHANGED <<now, config, keys, generated, reseeds, retired>>
  BY Zenon DEF Sign
<1>2. /\ new \in Token
      /\ new.use = use /\ new.alg = alg /\ new.kid = kid /\ new.material = material
      /\ new.boot = reseeds
  BY Zenon DEF Token, KeyInv, KeysTypeOK
<1> HIDE DEF new
<1>3. KeysTypeOK'
  BY Zenon, <1>1, <1>2 DEF KeyInv, KeysTypeOK
<1>4. Numbered' /\ Announced' /\ Signers'
  BY Zenon, <1>1 DEF KeyInv, Numbered, Announced, Signers, InUseAlg
<1>5. Names(new)
  <2>1. CASE material = Secret /\ alg = "HS256" /\ kid = {} /\ use = "id"
    BY <1>2, <2>1 DEF KeyInv, KeysTypeOK, Names, Numbered, Secret, Pem
  <2>2. ASSUME NEW k \in keys, k.is_current, material = k.material, alg = k.algorithm,
               kid = {k.kid}, use = "access" \/ alg = "RS256"
        PROVE  Names(new)
    <3>1. /\ k.material < generated + 2
          /\ k.material = Secret => k.algorithm = "HS256" /\ k.kid = <<"HS256", 0>>
          /\ k.material = Pem => k.algorithm = "RS256" /\ k.kid = <<"RS256", 0>> /\ config.pem
          /\ \A j \in keys : j.material = k.material => j = k
      BY Zenon DEF KeyInv, Numbered
    <3>2. kid # {} /\ kid = {k.kid} /\ reseeds \in Nat
      BY Zenon, <2>2 DEF KeyInv, KeysTypeOK
    <3>3. new.material = Secret => new.alg = "HS256" /\ new.kid = {<<"HS256", 0>>}
      BY Zenon, <1>2, <2>2, <3>1
    <3>4. new.material = Pem => new.alg = "RS256" /\ new.kid = {<<"RS256", 0>>} /\ config.pem
      BY Zenon, <1>2, <2>2, <3>1
    <3>5. ~(new.use = "id" /\ new.alg = "HS256") /\ new.kid # {}
      BY <1>2, <2>2
    <3>6. \A j \in keys :
             j.material = new.material => j.algorithm = new.alg /\ new.kid = {j.kid}
      BY Zenon, <1>2, <2>2, <3>1
    <3>7. new.material < generated + 2 /\ new.boot <= reseeds
      BY <1>2, <2>2, <3>1, <3>2
    <3> QED
      BY Zenon, <3>3, <3>4, <3>5, <3>6, <3>7 DEF Names
  <2> QED
    BY Zenon, <2>1, <2>2
<1>6. \A t \in tokens' : Names(t)'
  BY <1>1, <1>5 DEF KeyInv, Names
<1>7. KeyHeld'
  <2> SUFFICES ASSUME NEW m \in Nat, Trusted(m)', InGrace(m) PROVE \E k \in keys : k.material = m
    BY Zenon, <1>1 DEF KeyHeld, InGrace
  <2>1. Trusted(m) \/ m = material
    BY Zenon, <1>1, <1>2 DEF Trusted
  <2>2. CASE Trusted(m)
    BY <2>2 DEF KeyInv, KeyHeld
  <2> QED
    BY Zenon, <2>1, <2>2 DEF Trusted
<1> QED
  BY Zenon, <1>3, <1>4, <1>6, <1>7 DEF KeyInv

(* Only a key that is current is picked to sign.                            *)
LEMMA SignerIsCurrent ==
    ASSUME NEW alg, NEW k \in CurrentForAlg(alg)
    PROVE  k \in keys /\ k.is_current /\ k.algorithm = alg
BY DEF CurrentForAlg, FirstOf

(* While the PEM is configured there is an RS256 key to sign with.          *)
LEMMA SignerFound ==
    ASSUME KeyInv, NEW alg \in Algs, InUseAlg(alg)
    PROVE  CurrentForAlg(alg) # {}
<1>1. PICK k \in keys : k.algorithm = alg /\ k.is_current
  BY Zenon DEF KeyInv, Signers
<1>2. IsActive(k)
  BY Zenon, <1>1, GraceIsActive
<1>3. k.material <= k.material
  BY DEF KeyInv, KeysTypeOK, SigningKey
<1>4. {j \in keys : j.algorithm = alg /\ j.is_current /\ IsActive(j)} = {k}
  BY <1>1, <1>2 DEF KeyInv, Signers
<1> QED
  BY Zenon, <1>3, <1>4 DEF CurrentForAlg, FirstOf

LEMMA KeyInvIssueAccess == KeyInv /\ IssueAccess => KeyInv'
<1> SUFFICES ASSUME KeyInv, IssueAccess PROVE KeyInv'
  OBVIOUS
<1>1. PICK k \in CurrentForAlg("RS256") \cup CurrentForAlg("HS256") :
             Sign("access", k.algorithm, {k.kid}, k.material)
  BY DEF IssueAccess
<1>2. k \in keys /\ k.is_current
  BY Zenon, SignerIsCurrent
<1>3. k.algorithm \in Algs /\ k.kid \in Kid /\ k.material \in Nat
  BY Zenon, <1>2 DEF KeyInv, KeysTypeOK, SigningKey
<1> QED
  BY Zenon, <1>1, <1>2, <1>3, SignStep

LEMMA KeyInvIssueId == KeyInv /\ IssueId => KeyInv'
<1> SUFFICES ASSUME KeyInv, IssueId PROVE KeyInv'
  OBVIOUS
<1>1. PICK s \in IdSigner : Sign("id", config.id_token_alg, s[1], s[2])
  BY Zenon DEF IssueId
<1>2. config.id_token_alg \in Algs /\ config.pem \in BOOLEAN
  BY DEF KeyInv, KeysTypeOK
<1>3. CASE config.id_token_alg = "HS256"
  <2>1. s = <<{}, Secret>>
    BY <1>3 DEF IdSigner
  <2>2. Sign("id", "HS256", {}, Secret)
    BY <1>1, <1>3, <2>1
  <2>3. {} \in SUBSET Kid /\ Secret \in Nat /\ "HS256" \in Algs
    BY Zenon DEF Secret, Algs
  <2> QED
    BY Zenon, <2>2, <2>3, SignStep
<1>4. CASE config.id_token_alg = "RS256"
  <2>1. config.pem => CurrentForAlg("RS256") # {}
    BY Zenon, SignerFound DEF InUseAlg, Algs
  <2>2. PICK k \in CurrentForAlg("RS256") : s = <<{k.kid}, k.material>>
    BY Zenon, <1>4, <2>1 DEF IdSigner
  <2>3. k \in keys /\ k.is_current /\ k.algorithm = "RS256"
    BY Zenon, SignerIsCurrent
  <2>4. k.kid \in Kid /\ k.material \in Nat
    BY Zenon, <2>3 DEF KeyInv, KeysTypeOK, SigningKey
  <2>5. Sign("id", "RS256", {k.kid}, k.material)
    BY Zenon, <1>1, <1>4, <2>2
  <2> QED
    BY Zenon, <2>3, <2>4, <2>5, SignStep DEF Algs
<1> QED
  BY Zenon, <1>2, <1>3, <1>4 DEF Algs
-----------------------------------------------------------------------------
(* A rotation gives the current keys of the algorithm their deadline, drops *)
(* what has expired and leaves the rest alone.                              *)
LEMMA RotatedKeys ==
    ASSUME KeyInv, NEW alg \in Algs, NEW grace \in Graces, RotateKey(alg, grace)
    PROVE  \E new \in SigningKey :
             /\ /\ new.algorithm = alg /\ new.material = generated + 2
                /\ new.is_current /\ new.expires_at = {} /\ new \in keys'
             /\ \A k \in keys' :
                  \/ k = new
                  \/ k \in keys /\ ~(k.algorithm = alg /\ k.is_current)
                  \/ \E j \in keys : /\ j.algorithm = alg /\ j.is_current
                                     /\ k = Retire(j, now + grace)
             /\ \A k \in keys :
                  /\ k.algorithm = alg /\ k.is_current /\ grace > 0 =>
                        Retire(k, now + grace) \in keys'
                  /\ ~(k.algorithm = alg /\ k.is_current) /\ IsActive(k) => k \in keys'
<1> DEFINE new == NewKey(alg, now, generated + 2)
<1> DEFINE yes == TRUE
<1> HIDE DEF yes
<1>1. new = [kid |-> <<alg, now>>, algorithm |-> alg, material |-> generated + 2,
             is_current |-> yes, expires_at |-> {}]
  BY Zenon DEF NewKey, yes
<1>2. now \in Nat /\ generated \in Nat /\ grace \in Nat /\ yes \in BOOLEAN /\ yes
  BY KeysAssumption DEF KeyInv, KeysTypeOK, yes
<1>3. new \in SigningKey
  <2>1. <<alg, now>> \in Kid /\ generated + 2 \in Nat /\ {} \in SUBSET Nat
    BY <1>2 DEF Kid
  <2>2. [kid |-> <<alg, now>>, algorithm |-> alg, material |-> generated + 2,
         is_current |-> yes, expires_at |-> {}] \in SigningKey
    BY Zenon, <1>2, <2>1 DEF SigningKey
  <2> QED
    BY <1>1, <2>2, Zenon
<1>4. /\ new.algorithm = alg /\ new.material = generated + 2
      /\ new.is_current /\ new.expires_at = {}
  BY <1>1, <1>2
<1>5. keys' = Pruned(Rotated(keys, new, grace))
  BY Zenon DEF RotateKey
<1> HIDE DEF new
<1>6. IsActive(new)
  BY Zenon, <1>4 DEF IsActive
<1>7. ASSUME NEW k \in keys, grace > 0 PROVE IsActive(Retire(k, now + grace))
  BY <1>2, <1>7 DEF IsActive, Retire
<1>8. new \in keys'
  BY Zenon, <1>5, <1>6 DEF Pruned, Rotated
<1>9. ASSUME NEW k \in keys'
      PROVE  \/ k = new
             \/ k \in keys /\ ~(k.algorithm = alg /\ k.is_current)
             \/ \E j \in keys : j.algorithm = alg /\ j.is_current /\ k = Retire(j, now + grace)
  BY Zenon, <1>4, <1>5 DEF Pruned, Rotated
<1>10. ASSUME NEW k \in keys
       PROVE  /\ k.algorithm = alg /\ k.is_current /\ grace > 0 =>
                    Retire(k, now + grace) \in keys'
              /\ ~(k.algorithm = alg /\ k.is_current) /\ IsActive(k) => k \in keys'
  BY Zenon, <1>4, <1>5, <1>7 DEF Pruned, Rotated
<1> QED
  BY Zenon, <1>3, <1>4, <1>8, <1>9, <1>10

(* The fields of a key that is retired.                                     *)
LEMMA RetiredKey ==
    ASSUME NEW k \in SigningKey, NEW d \in Nat
    PROVE  /\ Retire(k, d) \in SigningKey
           /\ Retire(k, d).kid = k.kid /\ Retire(k, d).algorithm = k.algorithm
           /\ Retire(k, d).material = k.material
           /\ ~Retire(k, d).is_current /\ Retire(k, d).expires_at = {d}
<1> DEFINE no == FALSE
<1> HIDE DEF no
<1>1. Retire(k, d) = [kid |-> k.kid, algorithm |-> k.algorithm, material |-> k.material,
                      is_current |-> no, expires_at |-> {d}]
  BY Zenon DEF Retire, no
<1>2. no \in BOOLEAN /\ ~no
  BY Zenon DEF no
<1> QED
  BY <1>1, <1>2 DEF SigningKey

LEMMA KeyInvRotate ==
    ASSUME KeyInv, NEW alg \in Algs, NEW grace \in Graces, RotateKey(alg, grace)
    PROVE  KeyInv'
<1> DEFINE Out(k) == k.algorithm = alg /\ k.is_current
           Retired(k) == Retire(k, now + grace)
<1>1. PICK new \in SigningKey :
         /\ /\ new.algorithm = alg /\ new.material = generated + 2
            /\ new.is_current /\ new.expires_at = {} /\ new \in keys'
         /\ \A k \in keys' :
              \/ k = new
              \/ k \in keys /\ ~Out(k)
              \/ \E j \in keys : Out(j) /\ k = Retired(j)
         /\ \A k \in keys :
              /\ Out(k) /\ grace > 0 => Retired(k) \in keys'
              /\ ~Out(k) /\ IsActive(k) => k \in keys'
  BY Zenon, RotatedKeys
<1>2. /\ generated' = generated + 1 /\ UNCHANGED <<now, config, tokens, reseeds>>
      /\ now \in Nat /\ generated \in Nat /\ grace \in Nat /\ now + grace \in Nat
      /\ config.pem \in BOOLEAN /\ reseeds \in Nat
  BY KeysAssumption DEF RotateKey, KeyInv, KeysTypeOK
<1>3. \A k \in keys :
         /\ k \in SigningKey /\ Retired(k) \in SigningKey
         /\ Retired(k).kid = k.kid /\ Retired(k).algorithm = k.algorithm
         /\ Retired(k).material = k.material
         /\ ~Retired(k).is_current /\ Retired(k).expires_at = {now + grace}
  BY Zenon, <1>2, RetiredKey DEF KeyInv, KeysTypeOK
<1>4. \A k \in keys : k.material \in Nat /\ k.material < generated + 2
  BY Zenon, <1>3 DEF KeyInv, Numbered, SigningKey
<1> DEFINE out == {k.material : k \in {k \in keys : Out(k)}}
<1>5. /\ DOMAIN retired' = DOMAIN retired \cup out
      /\ \A m \in out : retired'[m] = now + grace
      /\ \A m \in DOMAIN retired \ out : retired'[m] = retired[m]
  BY Zenon DEF RotateKey
<1>6. \A k \in keys : Out(k) => k.material \in out
  BY Zenon
<1>7. \A m \in out : \E k \in keys : Out(k) /\ k.material = m
  BY Zenon
<1>8. \A k \in keys : ~Out(k) => k.material \notin out
  BY <1>7 DEF KeyInv, Numbered
<1> HIDE DEF Out, Retired, out
(* A key of the new set is the new one or stands for one of the old set.    *)
<1>9. ASSUME NEW k \in keys', k # new
      PROVE  \E j \in keys : /\ j.kid = k.kid /\ j.algorithm = k.algorithm
                             /\ j.material = k.material
                             /\ \/ j = k /\ ~Out(j)
                                \/ k = Retired(j) /\ Out(j)
  BY Zenon, <1>1, <1>3, <1>9
<1>10. KeysTypeOK'
  <2>1. keys' \subseteq SigningKey
    BY Zenon, <1>1, <1>3
  <2>2. DOMAIN retired' \subseteq Nat /\ \A m \in DOMAIN retired' : retired'[m] \in Nat
    BY Zenon, <1>2, <1>4, <1>5, <1>7 DEF KeyInv, KeysTypeOK
  <2> QED
    BY <1>2, <2>1, <2>2 DEF KeyInv, KeysTypeOK
<1>11. Numbered'
  <2>1. ASSUME NEW k \in keys'
        PROVE  /\ k.material < generated + 3
               /\ k.material = Secret => k.algorithm = "HS256" /\ k.kid = <<"HS256", 0>>
               /\ k.material = Pem => /\ k.algorithm = "RS256"
                                      /\ k.kid = <<"RS256", 0>> /\ config.pem
    <3>1. CASE k = new
      BY <1>1, <1>2, <3>1 DEF Secret, Pem
    <3>2. CASE k # new
      <4>1. PICK j \in keys : j.kid = k.kid /\ j.algorithm = k.algorithm /\ j.material = k.material
        BY Zenon, <1>9, <3>2
      <4> QED
        BY <1>2, <1>4, <4>1 DEF KeyInv, Numbered
    <3> QED
      BY Zenon, <3>1, <3>2
  <2>2. ASSUME NEW j \in keys', NEW k \in keys', j.material = k.material PROVE j = k
    <3>1. CASE j = new \/ k = new
      BY <1>1, <1>2, <1>4, <1>9, <2>2, <3>1
    <3>2. CASE j # new /\ k # new
      BY <1>9, <2>2, <3>2 DEF KeyInv, Numbered
    <3> QED
      BY Zenon, <3>1, <3>2
  <2>3. \A m \in DOMAIN retired' : m < generated + 3
    BY <1>2, <1>4, <1>5, <1>7 DEF KeyInv, Numbered, KeysTypeOK
  <2>4. generated' + 2 = generated + 3
    BY <1>2
  <2> QED
    BY Zenon, <1>2, <2>1, <2>2, <2>3, <2>4 DEF Numbered
<1>12. Announced'
  <2> SUFFICES ASSUME NEW k \in keys'
               PROVE  /\ k.is_current => k.expires_at = {} /\ k.material \notin DOMAIN retired'
                      /\ ~k.is_current => /\ k.material \in DOMAIN retired'
                                          /\ k.expires_at = {retired'[k.material]}
    BY Zenon DEF Announced
  <2>1. CASE k = new
    <3>1. new.material \notin DOMAIN retired'
      BY <1>1, <1>2, <1>4, <1>5, <1>7 DEF KeyInv, Numbered, KeysTypeOK
    <3> QED
      BY ZenonT(40), <1>1, <2>1, <3>1
  <2>2. CASE k \in keys /\ ~Out(k)
    BY <1>5, <1>8, <2>2 DEF KeyInv, Announced
  <2>3. ASSUME NEW j \in keys, Out(j), k = Retired(j)
        PROVE  /\ ~k.is_current /\ k.material \in DOMAIN retired'
               /\ k.expires_at = {retired'[k.material]}
    BY <1>3, <1>5, <1>6, <2>3
  <2> QED
    BY Zenon, <1>9, <2>1, <2>2, <2>3
<1>13. Signers'
  <2>1. ASSUME NEW j \in keys', NEW k \in keys', j.algorithm = k.algorithm,
               j.is_current, k.is_current
        PROVE  j = k
    <3>1. \A l \in keys' : l.is_current => l = new \/ (l \in keys /\ l.algorithm # alg)
      BY <1>1, <1>3 DEF Out
    <3>2. CASE j = new \/ k = new
      BY Zenon, <1>1, <2>1, <3>1, <3>2
    <3>3. CASE j # new /\ k # new
      BY Zenon, <2>1, <3>1, <3>3 DEF KeyInv, Signers
    <3> QED
      BY <3>2, <3>3
  <2>2. ASSUME NEW a \in Algs, InUseAlg(a)'
        PROVE  \E k \in keys' : k.algorithm = a /\ k.is_current
    <3>1. CASE a = alg
      BY Zenon, <1>1, <3>1
    <3>2. CASE a # alg
      <4>1. InUseAlg(a)
        BY <1>1, <1>2, <1>9, <2>2, <3>2 DEF InUseAlg
      <4>2. PICK k \in keys : k.algorithm = a /\ k.is_current
        BY Zenon, <4>1 DEF KeyInv, Signers
      <4>3. ~Out(k) /\ IsActive(k)
        BY Zenon, <3>2, <4>2, GraceIsActive DEF Out
      <4> QED
        BY ZenonT(40), <1>1, <4>2, <4>3
    <3> QED
      BY Zenon, <3>1, <3>2
  <2> QED
    BY <2>1, <2>2 DEF Signers
<1>14. ASSUME NEW t \in tokens PROVE Names(t)'
  <2>1. Names(t) /\ t.material \in Nat /\ t \in Token
    BY Zenon DEF KeyInv, KeysTypeOK, Token
  <2>2. ASSUME NEW k \in keys', k.material = t.material
        PROVE  k.algorithm = t.alg /\ t.kid \in {{}, {k.kid}}
    <3>1. k # new
      BY <1>1, <1>2, <2>1, <2>2 DEF Names
    <3>2. PICK j \in keys : j.kid = k.kid /\ j.algorithm = k.algorithm /\ j.material = k.material
      BY Zenon, <1>9, <3>1
    <3> QED
      BY ZenonT(40), <2>1, <2>2, <3>2 DEF Names
  <2>3. t.material < generated' + 2
    BY <1>2, <2>1 DEF Names
  <2> QED
    BY Zenon, <1>2, <2>1, <2>2, <2>3 DEF Names
<1>15. KeyHeld'
  <2> SUFFICES ASSUME NEW m \in Nat, Trusted(m)', InGrace(m)'
               PROVE  \E k \in keys' : k.material = m
    BY Zenon DEF KeyHeld
  <2>1. Trusted(m)
    BY Zenon, <1>2 DEF Trusted
  <2>2. CASE m \in out
    <3>1. PICK k \in keys : Out(k) /\ k.material = m
      BY Zenon, <1>7, <2>2
    <3>2. grace > 0
      BY <1>2, <1>5, <2>2 DEF InGrace
    <3> QED
      BY Zenon, <1>1, <1>3, <3>1, <3>2
  <2>3. CASE m \notin out
    <3>1. InGrace(m)
      BY Zenon, <1>2, <1>5, <2>3 DEF InGrace
    <3>2. PICK k \in keys : k.material = m
      BY Zenon, <2>1, <3>1 DEF KeyInv, KeyHeld
    <3>3. IsActive(k)
      BY <3>1, <3>2, GraceIsActive
    <3> QED
      BY Zenon, <1>1, <1>6, <2>3, <3>2, <3>3
  <2> QED
    BY Zenon, <2>2, <2>3
<1> QED
  BY Zenon, <1>2, <1>10, <1>11, <1>12, <1>13, <1>14, <1>15 DEF KeyInv
-----------------------------------------------------------------------------
LEMMA KeyInvAlways == KeysSpec => []KeyInv
<1>1. KeyInv /\ [KeysNext]_keysVars => KeyInv'
  <2> SUFFICES ASSUME KeyInv, [KeysNext]_keysVars PROVE KeyInv'
    OBVIOUS
  <2>1. CASE IssueAccess
    BY <2>1, KeyInvIssueAccess
  <2>2. CASE IssueId
    BY Zenon, <2>2, KeyInvIssueId
  <2>3. CASE \E alg \in Algs, grace \in Graces : RotateKey(alg, grace)
    BY ZenonT(40), <2>3, KeyInvRotate
  <2>4. CASE KeysRestart
    BY <2>4, KeyInvRestart
  <2>5. CASE KeysTick
    BY <2>5, KeyInvTick
  <2>6. CASE UNCHANGED keysVars
    BY <2>6 DEF keysVars, KeyInv, KeysTypeOK, Numbered, Announced, Signers, InUseAlg, Names,
                KeyHeld, Trusted, InGrace
  <2> QED
    BY Zenon, <2>1, <2>2, <2>3, <2>4, <2>5, <2>6 DEF KeysNext
<1> QED
  BY <1>1, KeyInvInit, PTL DEF KeysSpec

(* An algorithm in use has exactly one key to sign with, whatever was       *)
(* rotated and pruned (keys.py), which is what logout.py counts on.         *)
THEOREM AlwaysOneSigner == KeysSpec => []OneSigner
<1>1. KeyInv => OneSigner
  <2> SUFFICES ASSUME KeyInv, NEW alg \in Algs, InUseAlg(alg)
               PROVE  \E s \in keys : {k \in keys : /\ k.algorithm = alg /\ k.is_current
                                                    /\ k.expires_at = {}} = {s}
    BY Zenon DEF OneSigner, InUseAlg
  <2>1. PICK s \in keys : s.algorithm = alg /\ s.is_current
    BY DEF KeyInv, Signers
  <2>2. s.expires_at = {}
    BY <2>1 DEF KeyInv, Announced
  <2>3. {k \in keys : k.algorithm = alg /\ k.is_current /\ k.expires_at = {}} = {s}
    BY <2>1, <2>2 DEF KeyInv, Signers
  <2> QED
    BY Zenon, <2>3
<1> QED
  BY <1>1, KeyInvAlways, PTL

(* The key of a token in grace is the one its kid finds.                    *)
LEMMA FindsItsKey ==
    ASSUME KeyInv, NEW k \in keys, IsActive(k), ~Ambiguous(k.kid)
    PROVE  Find(k.kid) = {k}
<1>1. {j \in keys : j.kid = k.kid /\ IsActive(j)} = {k}
  BY DEF Ambiguous
<1>2. k.material <= k.material
  BY DEF KeyInv, KeysTypeOK, SigningKey
<1> QED
  BY <1>1, <1>2 DEF Find, FirstOf

(* What was signed verifies until the grace announced for its key is over:  *)
(* decode_access_token, _decode_hint and the JWKS document accept it.       *)
THEOREM InFlightAlwaysVerifies == KeysSpec => []InFlightVerifies
<1>1. KeyInv => InFlightVerifies
  <2> SUFFICES ASSUME KeyInv, NEW t \in tokens, t.boot = reseeds \/ t.material \in {Secret, Pem},
                      InGrace(t.material), \A k \in t.kid : ~Ambiguous(k)
               PROVE  /\ t.use = "access" => DecodesAccess(t)
                      /\ t.use = "id" => DecodesHint(t)
                      /\ t.alg = "RS256" => <<t.kid, t.material>> \in Jwks
    BY Zenon DEF InFlightVerifies
  <2>1. Names(t) /\ t.material \in Nat /\ t.alg \in Algs
    BY Zenon DEF KeyInv, KeysTypeOK, Token
  <2>2. Trusted(t.material)
    BY Zenon, <2>1 DEF Trusted, Names
  <2>3. PICK k \in keys : k.material = t.material
    BY Zenon, <2>1, <2>2 DEF KeyInv, KeyHeld
  <2>4. IsActive(k) /\ k.algorithm = t.alg
    BY Zenon, <2>1, <2>3, GraceIsActive DEF Names
  <2>5. CASE t.kid = {}
    BY Zenon, <2>1, <2>5 DEF Names, DecodesHint
  <2>6. CASE t.kid # {}
    <3>1. t.kid = {k.kid}
      BY Zenon, <2>1, <2>3, <2>6 DEF Names
    <3>2. Find(k.kid) = {k}
      BY Zenon, <2>4, <3>1, FindsItsKey
    <3>3. UNION {Find(i) : i \in t.kid} = {k}
      BY Zenon, <3>1, <3>2
    <3>4. DecodesAccess(t)
      BY Zenon, <2>3, <2>4, <3>3 DEF DecodesAccess
    <3>5. t.alg = "RS256" => t.material \in HintMaterials(t.kid)
      BY Zenon, <2>3, <2>4, <3>3 DEF HintMaterials
    <3>6. t.use = "id" => DecodesHint(t)
      BY Zenon, <2>1, <3>5 DEF DecodesHint, Names, Algs
    <3>7. t.alg = "RS256" => <<t.kid, t.material>> \in Jwks
      <4> SUFFICES ASSUME t.alg = "RS256" PROVE <<t.kid, t.material>> \in Jwks
        BY Zenon
      <4>1. k \in ActiveKeysFor("RS256")
        BY Zenon, <2>4 DEF ActiveKeysFor
      <4>2. <<t.kid, t.material>> \in {<<{j.kid}, j.material>> : j \in ActiveKeysFor("RS256")}
        BY Zenon, <2>3, <3>1, <4>1
      <4> QED
        BY Zenon, <4>2 DEF Jwks
    <3> QED
      BY Zenon, <3>4, <3>6, <3>7
  <2> QED
    BY Zenon, <2>1, <2>5, <2>6 DEF Names
<1> QED
  BY <1>1, KeyInvAlways, PTL

(* A rotated-out RS256 key whose grace is over verifies nothing until the   *)
(* next restart: the fallbacks to the PEM are never reached while it is     *)
(* configured, as an RS256 key is always active.                            *)
THEOREM RetiredAlwaysStayRetired == KeysSpec => []RetiredStayRetired
<1>1. KeyInv => RetiredStayRetired
  <2> SUFFICES ASSUME KeyInv, NEW t \in tokens, t.alg = "RS256", ~InGrace(t.material)
               PROVE  /\ ~DecodesAccess(t)
                      /\ ~DecodesHint(t)
                      /\ \A j \in Jwks : j[2] # t.material
    BY Zenon DEF RetiredStayRetired
  <2>1. \A k \in keys : IsActive(k) => k.material # t.material
    BY Zenon, GraceIsActive
  <2>2. \A i : \A k \in Find(i) : k \in keys /\ IsActive(k)
    BY Zenon DEF Find, FirstOf
  <2>3. \A k \in ActiveKeysFor("RS256") : k \in keys /\ IsActive(k)
    BY Zenon DEF ActiveKeysFor
  <2>4. config.pem => ActiveKeysFor("RS256") # {}
    <3> SUFFICES ASSUME config.pem PROVE ActiveKeysFor("RS256") # {}
      BY Zenon
    <3>1. PICK k \in keys : k.algorithm = "RS256" /\ k.is_current
      BY Zenon DEF KeyInv, Signers, InUseAlg, Algs
    <3> QED
      BY Zenon, <3>1, GraceIsActive DEF ActiveKeysFor
  <2>5. ~DecodesAccess(t)
    BY <2>1, <2>2 DEF DecodesAccess
  <2>6. t.material \notin HintMaterials(t.kid)
    BY Zenon, <2>1, <2>2, <2>3, <2>4 DEF HintMaterials
  <2>7. \A j \in Jwks : j[2] # t.material
    <3> DEFINE active == {<<{k.kid}, k.material>> : k \in ActiveKeysFor("RS256")}
    <3>1. \A j \in active : \E k \in ActiveKeysFor("RS256") : j[2] = k.material
      OBVIOUS
    <3>2. config.pem => active # {}
      BY Zenon, <2>4
    <3>3. Jwks \subseteq active
      BY <3>2 DEF Jwks
    <3> QED
      BY Zenon, <2>1, <2>3, <3>1, <3>3
  <2> QED
    BY Zenon, <2>5, <2>6, <2>7 DEF DecodesHint
<1> QED
  BY <1>1, KeyInvAlways, PTL
=============================================================================
