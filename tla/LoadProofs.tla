----------------------------- MODULE LoadProofs -----------------------------
(***************************************************************************)
(* Proofs about the two middlewares that protect the server from load, the *)
(* circuit breaker with its concurrency limiter (Resilience) and the token *)
(* bucket (TokenBucket): for any number of requests and keys, and any      *)
(* thresholds, limits and windows.                                         *)
(***************************************************************************)
EXTENDS Resilience, TokenBucket, FiniteSetTheorems, TLAPS

(***************************************************************************)
(* ResilienceMiddleware.                                                   *)
(***************************************************************************)

(* The inductive invariant: the four safety invariants together.  The probe *)
(* count stays below the running probes only because Refresh, Open and      *)
(* Close reset it, so the counters' state-dependence is part of it.         *)
IInv == TypeOK /\ PermitsExact /\ NoLeakedProbeSlot /\ CountsBelowThresholds

(* What one request's change of kind does to the two sets that are counted. *)
LEMMA StartCounts ==
    ASSUME TypeOK, NEW r \in Requests, req[r].kind = "idle", NEW k \in {"plain", "probe"},
           NEW p \in Nat, req' = [req EXCEPT ![r] = [kind |-> k, period |-> p]]
    PROVE  /\ req' \in [Requests -> Request]
           /\ Cardinality(Running') = Cardinality(Running) + 1
           /\ k = "plain" => Cardinality(Probes') = Cardinality(Probes)
           /\ k = "probe" => Cardinality(Probes') = Cardinality(Probes) + 1
<1>1. IsFiniteSet(Running) /\ IsFiniteSet(Probes)
  BY ResilienceAssumption, FS_Subset DEF Running, Probes
<1>2. Running' = Running \cup {r} /\ r \notin Running
  BY DEF Running, TypeOK
<1>3. k = "plain" => Probes' = Probes
  BY DEF Probes, TypeOK
<1>4. k = "probe" => Probes' = Probes \cup {r} /\ r \notin Probes
  BY DEF Probes, TypeOK
<1>5. req' \in [Requests -> Request]
  BY DEF TypeOK, Request
<1> QED
  BY Zenon, <1>1, <1>2, <1>3, <1>4, <1>5, FS_AddElement

LEMMA StopCounts ==
    ASSUME TypeOK, NEW r \in Requests, req[r].kind # "idle", req' = [req EXCEPT ![r] = Idle]
    PROVE  /\ req' \in [Requests -> Request]
           /\ Cardinality(Running) \in Nat \ {0} /\ Cardinality(Running') = Cardinality(Running) - 1
           /\ req[r].kind = "plain" => Cardinality(Probes') = Cardinality(Probes)
           /\ req[r].kind = "probe" =>
                /\ Cardinality(Probes) \in Nat \ {0}
                /\ Cardinality(Probes') = Cardinality(Probes) - 1
<1>1. IsFiniteSet(Running) /\ IsFiniteSet(Probes)
  BY ResilienceAssumption, FS_Subset DEF Running, Probes
<1>2. Running' = Running \ {r} /\ r \in Running
  BY DEF Running, TypeOK, Idle
<1>3. req[r].kind = "plain" => Probes' = Probes
  BY DEF Probes, TypeOK, Idle
<1>4. req[r].kind = "probe" => Probes' = Probes \ {r} /\ r \in Probes
  BY DEF Probes, TypeOK, Idle
<1>5. req' \in [Requests -> Request]
  BY DEF TypeOK, Request, Idle
<1>6. ASSUME NEW S, IsFiniteSet(S), NEW x \in S
      PROVE  Cardinality(S) \in Nat \ {0} /\ Cardinality(S \ {x}) = Cardinality(S) - 1
  <2>1. Cardinality(S) \in Nat /\ Cardinality(S \ {x}) = Cardinality(S) - 1
    BY Zenon, <1>6, FS_CardinalityType, FS_RemoveElement
  <2>2. IsFiniteSet(S \ {x})
    BY <1>6, FS_RemoveElement
  <2>3. Cardinality(S \ {x}) \in Nat
    BY <2>2, FS_CardinalityType
  <2> QED BY <2>1, <2>3
<1> QED
  BY <1>1, <1>2, <1>3, <1>4, <1>5, <1>6
-----------------------------------------------------------------------------
(* The breaker's operations keep its fields typed, its counters below their *)
(* thresholds, and its probes at most n, the probes that are running.       *)
Fine(b, n) ==
    /\ b \in Breaker
    /\ b.failures < FailureThreshold /\ b.successes < SuccessThreshold
    /\ b.probes <= n /\ b.probes <= MaxProbes
    /\ b.state # "half_open" => b.probes = 0

LEMMA ResetFine ==
    ASSUME NEW state \in {"closed", "open"}, NEW trips \in Nat, NEW n \in Nat
    PROVE  Fine(Reset(state, trips), n)
  BY ResilienceAssumption DEF Fine, Reset, Breaker, States

LEMMA RefreshFine ==
    ASSUME NEW b, NEW n \in Nat, Fine(b, n)
    PROVE  Fine(Refresh(b), n)
<1>1. b \in Breaker
  BY DEF Fine
<1> DEFINE c == [b EXCEPT !.state = "half_open", !.probes = 0, !.successes = 0]
<1>2. /\ c \in Breaker /\ c.failures = b.failures /\ c.successes = 0 /\ c.probes = 0
      /\ c.state = "half_open"
  BY Zenon, <1>1 DEF Breaker, States
<1>3. Refresh(b) = b \/ Refresh(b) = c
  BY DEF Refresh
<1> HIDE DEF c
<1>4. Fine(c, n)
  BY <1>2, ResilienceAssumption DEF Fine, Breaker
<1> QED
  BY <1>3, <1>4

LEMMA TakeProbeFine ==
    ASSUME NEW b, NEW n \in Nat, Fine(b, n), b.state = "half_open", b.probes < MaxProbes
    PROVE  Fine(TakeProbe(b), n + 1)
  BY ResilienceAssumption DEF Fine, TakeProbe, Breaker, States

(* A probe that ends takes its own slot with it, or finds the slots reset.  *)
LEMMA RecordSuccessFine ==
    ASSUME NEW b, NEW n \in Nat, Fine(b, n), NEW m \in Nat,
           m = n \/ m + 1 = n, b.state = "half_open" => m + 1 = n
    PROVE  Fine(RecordSuccess(b), m)
<1>1. b \in Breaker /\ b.trips \in Nat /\ b.probes \in Nat /\ b.successes \in Nat
  BY DEF Fine, Breaker
<1>2. CASE b.state = "half_open"
  <2> DEFINE c == ReleaseProbe(b)
             d == [c EXCEPT !.successes = @ + 1]
  <2>1. /\ c \in Breaker /\ c.failures = b.failures /\ c.successes = b.successes
        /\ c.probes = (IF b.probes = 0 THEN 0 ELSE b.probes - 1) /\ c.state = b.state
    BY <1>1 DEF ReleaseProbe, Breaker
  <2> HIDE DEF c
  <2>2. /\ d \in Breaker /\ d.failures = b.failures /\ d.successes = b.successes + 1
        /\ d.probes = c.probes /\ d.state = b.state /\ d.trips \in Nat
    BY <2>1, <1>1 DEF Breaker
  <2>3. RecordSuccess(b) = IF d.successes >= SuccessThreshold THEN Close(d) ELSE d
    BY <1>2 DEF RecordSuccess, c
  <2> HIDE DEF d
  <2>4. CASE d.successes >= SuccessThreshold
    BY <2>2, <2>3, <2>4, ResetFine DEF Close
  <2>5. CASE ~(d.successes >= SuccessThreshold)
    BY <1>1, <1>2, <2>1, <2>2, <2>3, <2>5, ResilienceAssumption DEF Fine, Breaker
  <2> QED BY <2>4, <2>5
<1>3. CASE b.state = "closed"
  BY <1>3, ResilienceAssumption DEF Fine, RecordSuccess, Breaker, States
<1>4. CASE b.state = "open"
  BY <1>4 DEF Fine, RecordSuccess
<1> QED
  BY <1>1, <1>2, <1>3, <1>4 DEF Breaker, States

LEMMA RecordFailureFine ==
    ASSUME NEW b, NEW n \in Nat, Fine(b, n), NEW m \in Nat,
           b.state = "closed" \/ b.state = "open" \/ b.state = "half_open"
    PROVE  Fine(RecordFailure(b), m)
<1>1. b \in Breaker /\ b.trips \in Nat /\ b.failures \in Nat /\ b.probes \in Nat
  BY DEF Fine, Breaker
<1>2. CASE b.state = "half_open"
  <2>1. ReleaseProbe(b).trips = b.trips
    BY <1>1 DEF ReleaseProbe, Breaker
  <2>2. RecordFailure(b) = Reset("open", b.trips + 1)
    BY <1>2, <2>1 DEF RecordFailure, Open
  <2> QED BY <1>1, <2>2, ResetFine
<1>3. CASE b.state = "closed"
  <2> DEFINE d == [b EXCEPT !.failures = @ + 1]
  <2>1. /\ d \in Breaker /\ d.failures = b.failures + 1 /\ d.successes = b.successes
        /\ d.probes = b.probes /\ d.state = b.state /\ d.trips = b.trips
    BY <1>1 DEF Breaker
  <2>2. RecordFailure(b) = IF d.failures >= FailureThreshold THEN Open(d) ELSE d
    BY <1>3 DEF RecordFailure
  <2> HIDE DEF d
  <2>3. CASE d.failures >= FailureThreshold
    BY <1>1, <2>1, <2>2, <2>3, ResetFine DEF Open
  <2>4. CASE ~(d.failures >= FailureThreshold)
    BY <1>1, <1>3, <2>1, <2>2, <2>4, ResilienceAssumption DEF Fine, Breaker
  <2> QED BY <2>3, <2>4
<1>4. CASE b.state = "open"
  BY <1>1, <1>4 DEF Fine, RecordFailure
<1> QED
  BY <1>2, <1>3, <1>4
-----------------------------------------------------------------------------
(* IInv in terms of Fine.                                                   *)
LEMMA IInvFine ==
    ASSUME TypeOK
    PROVE  /\ Cardinality(Probes) \in Nat /\ Cardinality(Running) \in Nat
           /\ NoLeakedProbeSlot /\ CountsBelowThresholds <=> Fine(cb, Cardinality(Probes))
<1>1. IsFiniteSet(Running) /\ IsFiniteSet(Probes)
  BY ResilienceAssumption, FS_Subset DEF Running, Probes
<1> QED
  BY <1>1, FS_CardinalityType DEF TypeOK, Fine, NoLeakedProbeSlot, CountsBelowThresholds

LEMMA FineIInv ==
    ASSUME req' \in [Requests -> Request], inFlight' \in Nat, faults' \in Nat, PermitsExact',
           Fine(cb', Cardinality(Probes'))
    PROVE  IInv'
  BY DEF IInv, TypeOK, Fine, NoLeakedProbeSlot, CountsBelowThresholds

LEMMA InitIInv == Init => IInv
<1> SUFFICES ASSUME Init PROVE IInv
  OBVIOUS
<1>1. TypeOK
  BY ResilienceAssumption DEF Init, TypeOK, Reset, Breaker, States, Request, Idle
<1>2. Running = {} /\ Probes = {}
  BY DEF Init, Running, Probes, Idle
<1>3. Cardinality(Running) = 0 /\ Cardinality(Probes) = 0
  BY <1>2, FS_EmptySet
<1>4. PermitsExact
  BY <1>3, ResilienceAssumption DEF Init, PermitsExact
<1>5. Fine(cb, Cardinality(Probes))
  BY Zenon, <1>3, ResetFine DEF Init
<1> QED
  BY <1>1, <1>4, <1>5, IInvFine DEF IInv

(* Requests that are turned away change nothing but the lazy state.         *)
LEMMA RejectKeeps ==
    ASSUME IInv, cb' = Refresh(cb), UNCHANGED <<inFlight, req, faults>>
    PROVE  IInv'
<1>1. Running' = Running /\ Probes' = Probes
  BY DEF Running, Probes
<1>2. Fine(cb', Cardinality(Probes'))
  BY <1>1, IInvFine, RefreshFine DEF IInv
<1>3. PermitsExact' /\ req' \in [Requests -> Request] /\ inFlight' \in Nat /\ faults' \in Nat
  BY <1>1 DEF IInv, PermitsExact, TypeOK
<1> QED
  BY <1>2, <1>3, FineIInv

LEMMA AdmitKeeps ==
    ASSUME IInv, NEW r \in Requests, Admit(r)
    PROVE  IInv'
<1> DEFINE b == Refresh(cb)
           n == Cardinality(Probes)
<1>1. TypeOK /\ n \in Nat /\ Fine(b, n) /\ b.trips \in Nat
  BY Zenon, IInvFine, RefreshFine DEF IInv, Fine, Breaker
<1>2. PICK k \in {"plain", "probe"} :
        /\ req' = [req EXCEPT ![r] = [kind |-> k, period |-> b.trips]]
        /\ k = "plain" => cb' = b
        /\ k = "probe" => b.state = "half_open" /\ b.probes < MaxProbes /\ cb' = TakeProbe(b)
  BY Zenon DEF Admit
<1> HIDE DEF b, n
<1>3. req[r].kind = "idle" /\ inFlight < MaxConcurrent /\ inFlight' = inFlight + 1 /\ faults' = faults
  BY Zenon DEF Admit, HasPermit
<1>4. /\ req' \in [Requests -> Request]
      /\ Cardinality(Running') = Cardinality(Running) + 1
      /\ k = "plain" => Cardinality(Probes') = n
      /\ k = "probe" => Cardinality(Probes') = n + 1
  BY Zenon, <1>1, <1>2, <1>3, StartCounts DEF n
<1>5. Fine(cb', Cardinality(Probes'))
  BY <1>1, <1>2, <1>4, TakeProbeFine
<1>6. PermitsExact' /\ inFlight' \in Nat /\ faults' \in Nat
  BY <1>3, <1>4, ResilienceAssumption DEF IInv, PermitsExact, TypeOK
<1> QED
  BY Zenon, <1>4, <1>5, <1>6, FineIInv

LEMMA EndKeeps ==
    ASSUME IInv, NEW r \in Requests, Succeed(r) \/ Fail(r)
    PROVE  IInv'
<1> DEFINE b == Refresh(cb)
           n == Cardinality(Probes)
           m == Cardinality(Probes')
<1>1. TypeOK /\ n \in Nat /\ Fine(b, n) /\ b.state \in States
  BY IInvFine, RefreshFine DEF IInv, Fine, Breaker
<1>2. /\ req[r].kind # "idle" /\ req' = [req EXCEPT ![r] = Idle] /\ faults' \in Nat
      /\ Release
      /\ cb' \in (IF Counts(r, b) THEN {RecordSuccess(b), RecordFailure(b)} ELSE {b})
  <2>1. faults \in Nat
    BY <1>1 DEF TypeOK
  <2> QED BY <2>1 DEF Succeed, Fail
<1> HIDE DEF b
<1>3. req[r].kind \in {"plain", "probe"}
  BY Zenon, <1>1, <1>2 DEF TypeOK, Request
<1>4. /\ req' \in [Requests -> Request]
      /\ Cardinality(Running) \in Nat \ {0} /\ Cardinality(Running') = Cardinality(Running) - 1
      /\ m \in Nat
      /\ req[r].kind = "plain" => m = n
      /\ req[r].kind = "probe" => m + 1 = n
  <2> HIDE DEF n, m
  <2>1. req[r].kind = "plain" => m = n
    BY Zenon, <1>1, <1>2, StopCounts DEF n, m
  <2>2. req[r].kind = "probe" => n \in Nat \ {0} /\ m = n - 1
    BY Zenon, <1>1, <1>2, StopCounts DEF n, m
  <2>3. /\ req' \in [Requests -> Request]
        /\ Cardinality(Running) \in Nat \ {0} /\ Cardinality(Running') = Cardinality(Running) - 1
    BY Zenon, <1>1, <1>2, StopCounts
  <2> QED BY <1>1, <1>3, <2>1, <2>2, <2>3
<1> HIDE DEF n, m
<1>5. Fine(cb', m)
  <2>1. CASE req[r].kind = "probe"
    BY <1>1, <1>2, <1>4, <2>1, RecordSuccessFine, RecordFailureFine DEF Counts, States
  <2>2. CASE req[r].kind = "plain" /\ b.state = "closed"
    BY <1>1, <1>2, <1>4, <2>2, RecordSuccessFine, RecordFailureFine DEF Counts
  <2>3. CASE req[r].kind = "plain" /\ b.state # "closed"
    BY <1>1, <1>2, <1>4, <2>3 DEF Counts
  <2> QED BY <1>3, <2>1, <2>2, <2>3
<1>6. PermitsExact' /\ inFlight' \in Nat
  <2>1. inFlight = Cardinality(Running) /\ inFlight <= MaxConcurrent /\ MaxConcurrent \in Nat
    BY Zenon, ResilienceAssumption DEF IInv, PermitsExact
  <2>2. inFlight' = inFlight - 1
    BY <1>2, <1>4, <2>1 DEF Release
  <2> QED BY <1>4, <2>1, <2>2 DEF PermitsExact
<1> QED
  BY <1>2, <1>4, <1>5, <1>6, FineIInv DEF m

LEMMA NextIInv == IInv /\ [Next]_vars => IInv'
<1> SUFFICES ASSUME IInv, [Next]_vars PROVE IInv'
  BY Zenon
<1>1. CASE UNCHANGED vars
  BY Zenon, <1>1 DEF vars, IInv, TypeOK, PermitsExact, NoLeakedProbeSlot, CountsBelowThresholds,
                     Running, Probes
<1>2. ASSUME NEW r \in Requests, RejectOpen(r) \/ RejectAtCapacity(r) \/ RejectProbe(r)
      PROVE  IInv'
  BY Zenon, <1>2, RejectKeeps DEF RejectOpen, RejectAtCapacity, RejectProbe
<1>3. CASE Tick
  <2>1. UNCHANGED <<inFlight, req, faults>> /\ cb' = [cb EXCEPT !.age = @ + 1] /\ cb.age < OpenSecs
    BY <1>3 DEF Tick
  <2>2. cb \in Breaker
    BY DEF IInv, TypeOK
  <2>3. /\ cb' \in Breaker /\ cb'.failures = cb.failures /\ cb'.successes = cb.successes
        /\ cb'.probes = cb.probes /\ cb'.state = cb.state
    BY <2>1, <2>2, ResilienceAssumption DEF Breaker
  <2>4. Running' = Running /\ Probes' = Probes
    BY <2>1 DEF Running, Probes
  <2> QED
    BY <2>1, <2>3, <2>4 DEF IInv, TypeOK, PermitsExact, NoLeakedProbeSlot, CountsBelowThresholds
<1> QED
  BY Zenon, <1>1, <1>2, <1>3, AdmitKeeps, EndKeeps DEF Next, Arrive

LEMMA AlwaysIInv == Spec => []IInv
  BY InitIInv, NextIInv, PTL DEF Spec
-----------------------------------------------------------------------------
(* Why late probes cannot let in more than success_threshold - 1 others:    *)
(* what the current period has running is covered by the slots in use and   *)
(* the successes counted; a slot given back too early was paid for by a     *)
(* success.  No request is of a later period than the breaker's, and an     *)
(* open breaker has no probe of its own period.                             *)
Overrun ==
    /\ \A r \in Requests : req[r].period <= cb.trips
    /\ cb.state = "open" => Current = {}
    /\ cb.state = "half_open" => Cardinality(Current) <= cb.probes + cb.successes

LEMMA CurrentFinite ==
    /\ IsFiniteSet(Current) /\ Cardinality(Current) \in Nat
    /\ \A S \in SUBSET Current : IsFiniteSet(S) /\ Cardinality(S) <= Cardinality(Current)
                                 /\ Cardinality(S) \in Nat
<1>1. Current \subseteq Requests
  BY DEF Current, Probes
<1>2. IsFiniteSet(Current)
  BY Zenon, <1>1, ResilienceAssumption, FS_Subset
<1> QED
  BY Zenon, <1>2, FS_Subset, FS_CardinalityType

(* Refresh keeps the three facts, read with Refresh(cb) in place of cb.     *)
LEMMA RefreshOverrun ==
    ASSUME IInv, Overrun, NEW b, b = Refresh(cb)
    PROVE  /\ b \in Breaker /\ b.trips = cb.trips
           /\ b.state = "open" => Current = {}
           /\ b.state = "half_open" => Cardinality(Current) <= b.probes + b.successes
<1>1. cb \in Breaker
  BY DEF IInv, TypeOK
<1>2. CASE b = cb
  BY Zenon, <1>1, <1>2 DEF Overrun
<1>3. CASE b # cb
  <2>1. cb.state = "open" /\ b = [cb EXCEPT !.state = "half_open", !.probes = 0, !.successes = 0]
    BY <1>3 DEF Refresh
  <2> DEFINE h == [cb EXCEPT !.state = "half_open", !.probes = 0, !.successes = 0]
  <2>2. h \in Breaker /\ h.trips = cb.trips /\ h.state = "half_open" /\ h.probes = 0 /\ h.successes = 0
    BY Zenon, <1>1 DEF Breaker, States
  <2>3. b = h
    BY <2>1
  <2> HIDE DEF h
  <2>4. Cardinality(Current) = 0
    BY <2>1, FS_EmptySet DEF Overrun
  <2> QED BY <2>2, <2>3, <2>4
<1> QED BY <1>2, <1>3

(* Where the two recordings can lead.                                       *)
LEMMA RecordSuccessLeads ==
    ASSUME NEW b \in Breaker, NEW c, c = RecordSuccess(b)
    PROVE  /\ c.trips = b.trips
           /\ \/ c.state = "closed"
              \/ b.state = "open" /\ c = b
              \/ /\ b.state = "half_open" /\ c.state = "half_open"
                 /\ c.probes + c.successes >= b.probes + b.successes
<1>1. b.trips \in Nat /\ b.probes \in Nat /\ b.successes \in Nat
  BY DEF Breaker
<1>2. CASE b.state = "half_open"
  <2> DEFINE p == IF b.probes = 0 THEN 0 ELSE b.probes - 1
             d == [[b EXCEPT !.probes = p] EXCEPT !.successes = @ + 1]
  <2>1. ReleaseProbe(b) = [b EXCEPT !.probes = p]
    BY DEF ReleaseProbe, Breaker
  <2>2. c = IF d.successes >= SuccessThreshold THEN Close(d) ELSE d
    BY <1>2, <2>1 DEF RecordSuccess
  <2>3. d.trips = b.trips /\ d.state = "half_open" /\ d.probes = p /\ d.successes = b.successes + 1
    BY <1>2 DEF Breaker
  <2>4. p + (b.successes + 1) >= b.probes + b.successes
    BY <1>1
  <2> HIDE DEF d, p
  <2>5. CASE d.successes >= SuccessThreshold
    <3>1. c = Reset("closed", d.trips)
      BY Zenon, <2>2, <2>5 DEF Close
    <3> QED BY <2>3, <3>1 DEF Reset
  <2>6. CASE ~(d.successes >= SuccessThreshold)
    BY Zenon, <1>2, <2>2, <2>3, <2>4, <2>6
  <2> QED BY <2>5, <2>6
<1>3. CASE b.state = "closed"
  BY <1>3 DEF RecordSuccess, Breaker
<1>4. CASE b.state = "open"
  BY Zenon, <1>4 DEF RecordSuccess
<1> QED BY <1>2, <1>3, <1>4 DEF Breaker, States

LEMMA RecordFailureLeads ==
    ASSUME NEW b \in Breaker, NEW c, c = RecordFailure(b)
    PROVE  \/ c.state = "closed" /\ c.trips = b.trips
           \/ b.state = "open" /\ c = b
           \/ c.state = "open" /\ c.trips = b.trips + 1
<1>1. CASE b.state = "half_open"
  <2>1. ReleaseProbe(b).trips = b.trips
    BY Zenon DEF ReleaseProbe, Breaker
  <2> QED BY <1>1, <2>1 DEF RecordFailure, Open, Reset
<1>2. CASE b.state = "closed"
  <2> DEFINE d == [b EXCEPT !.failures = @ + 1]
  <2>1. d.trips = b.trips /\ d.state = "closed"
    BY <1>2 DEF Breaker
  <2>2. c = IF d.failures >= FailureThreshold THEN Open(d) ELSE d
    BY <1>2 DEF RecordFailure
  <2> HIDE DEF d
  <2> QED BY <2>1, <2>2 DEF Open, Reset
<1>3. CASE b.state = "open"
  BY <1>3 DEF RecordFailure
<1> QED BY <1>1, <1>2, <1>3 DEF Breaker, States

LEMMA AdmitOverrun ==
    ASSUME IInv, Overrun, NEW r \in Requests, Admit(r)
    PROVE  Overrun'
<1> DEFINE b == Refresh(cb)
<1>1. /\ b \in Breaker /\ b.trips = cb.trips /\ b.trips \in Nat
      /\ b.state = "half_open" => Cardinality(Current) <= b.probes + b.successes
  BY Zenon, RefreshOverrun DEF Breaker
<1>2. PICK k \in {"plain", "probe"} :
        /\ req' = [req EXCEPT ![r] = [kind |-> k, period |-> b.trips]]
        /\ k = "plain" => cb' = b /\ b.state = "closed"
        /\ k = "probe" => b.state = "half_open" /\ cb' = TakeProbe(b)
  BY Zenon DEF Admit
<1> HIDE DEF b
<1>3. req \in [Requests -> Request] /\ req[r].kind = "idle"
  BY DEF Admit, IInv, TypeOK
<1>4. cb'.trips = cb.trips
  BY Zenon, <1>1, <1>2 DEF TakeProbe, Breaker
<1>5. \A q \in Requests : req'[q].period <= cb'.trips
  BY <1>1, <1>2, <1>3, <1>4 DEF Overrun, Request
<1>6. CASE k = "plain"
  BY Zenon, <1>2, <1>5, <1>6 DEF Overrun
<1>7. CASE k = "probe"
  <2>1. /\ cb'.state = "half_open" /\ cb'.probes = b.probes + 1 /\ cb'.successes = b.successes
        /\ b.probes \in Nat /\ b.successes \in Nat
    BY Zenon, <1>1, <1>2, <1>7 DEF TakeProbe, Breaker
  <2>2. Current' = Current \cup {r} /\ r \notin Current
    BY Zenon, <1>1, <1>2, <1>3, <1>4, <1>7 DEF Current, Probes
  <2>3. Cardinality(Current') = Cardinality(Current) + 1
    BY Zenon, <2>2, CurrentFinite, FS_AddElement
  <2>4. Cardinality(Current) \in Nat /\ Cardinality(Current) <= b.probes + b.successes
    BY Zenon, <1>1, <1>2, <1>7, CurrentFinite
  <2>5. Cardinality(Current') <= cb'.probes + cb'.successes
    BY <2>1, <2>3, <2>4
  <2> QED BY Zenon, <1>5, <2>1, <2>5 DEF Overrun
<1> QED BY Zenon, <1>6, <1>7

LEMMA EndOverrun ==
    ASSUME IInv, Overrun, NEW r \in Requests, Succeed(r) \/ Fail(r)
    PROVE  Overrun'
<1> DEFINE b == Refresh(cb)
<1>1. /\ b \in Breaker /\ b.trips = cb.trips /\ b.trips \in Nat
      /\ b.state = "open" => Current = {}
      /\ b.state = "half_open" => Cardinality(Current) <= b.probes + b.successes
  BY RefreshOverrun DEF Breaker
<1>2. /\ req' = [req EXCEPT ![r] = Idle]
      /\ cb' \in {RecordSuccess(b), RecordFailure(b), b}
      /\ (cb' = b /\ b.state = "closed") \/ (cb' = b /\ b.state # "closed")
         \/ cb' = RecordSuccess(b) \/ cb' = RecordFailure(b)
  BY DEF Succeed, Fail
<1> HIDE DEF b
<1>3. req \in [Requests -> Request]
  BY Zenon DEF IInv, TypeOK
<1>4. \A q \in Requests : req'[q].period \in Nat /\ req'[q].period <= cb.trips
  BY <1>1, <1>2, <1>3 DEF Overrun, Request, Idle
<1>5. ASSUME cb'.trips = cb.trips
      PROVE  Current' \subseteq Current
  BY Zenon, <1>2, <1>3, <1>5 DEF Current, Probes, Idle
<1>6. ASSUME cb'.trips = cb.trips
      PROVE  Cardinality(Current') \in Nat /\ Cardinality(Current') <= Cardinality(Current)
  BY Zenon, <1>5, <1>6, CurrentFinite
<1>7. Cardinality(Current) \in Nat /\ b.probes \in Nat /\ b.successes \in Nat
  BY Zenon, <1>1, CurrentFinite DEF Breaker
<1>8. CASE cb' = b
  BY <1>1, <1>4, <1>5, <1>6, <1>7, <1>8 DEF Overrun
<1>9. CASE cb' = RecordSuccess(b)
  <2>1. cb'.trips = cb.trips
    BY Zenon, <1>1, <1>9, RecordSuccessLeads
  <2>2. CASE cb'.state = "closed"
    BY <1>4, <2>1, <2>2 DEF Overrun
  <2>3. CASE b.state = "open" /\ cb' = b
    BY Zenon, <1>8, <2>3
  <2>4. CASE /\ b.state = "half_open" /\ cb'.state = "half_open"
             /\ cb'.probes + cb'.successes >= b.probes + b.successes
    <3>1. cb' \in Breaker
      BY Zenon, EndKeeps DEF IInv, TypeOK
    <3>2. cb'.probes \in Nat /\ cb'.successes \in Nat
      BY Zenon, <3>1 DEF Breaker
    <3>3. Cardinality(Current') <= cb'.probes + cb'.successes
      BY <1>1, <1>6, <1>7, <2>1, <2>4, <3>2
    <3> QED BY Zenon, <1>4, <2>1, <2>4, <3>3 DEF Overrun
  <2> QED BY Zenon, <1>1, <1>9, <2>2, <2>3, <2>4, RecordSuccessLeads
<1>10. CASE cb' = RecordFailure(b)
  <2>1. CASE cb'.state = "closed" /\ cb'.trips = b.trips
    BY Zenon, <1>1, <1>4, <2>1 DEF Overrun
  <2>2. CASE b.state = "open" /\ cb' = b
    BY <1>8, <2>2
  <2>3. CASE cb'.state = "open" /\ cb'.trips = b.trips + 1
    <3>1. \A q \in Requests : req'[q].period <= cb'.trips /\ req'[q].period # cb'.trips
      BY <1>1, <1>4, <2>3
    <3>2. Current' = {}
      BY Zenon, <3>1 DEF Current, Probes
    <3> QED BY Zenon, <2>3, <3>1, <3>2 DEF Overrun
  <2> QED BY Zenon, <1>1, <1>10, <2>1, <2>2, <2>3, RecordFailureLeads
<1> QED BY Zenon, <1>2, <1>8, <1>9, <1>10

LEMMA NextOverrun == IInv /\ Overrun /\ [Next]_vars => Overrun'
<1> SUFFICES ASSUME IInv, Overrun, [Next]_vars PROVE Overrun'
  BY Zenon
<1>1. ASSUME UNCHANGED req, NEW b, cb' = b, b.trips = cb.trips,
             b.state = "open" => Current = {},
             b.state = "half_open" => Cardinality(Current) <= b.probes + b.successes
      PROVE  Overrun'
  <2>1. Current' = Current
    BY Zenon, <1>1 DEF Current, Probes
  <2> QED BY Zenon, <1>1, <2>1 DEF Overrun
<1>2. CASE UNCHANGED vars
  BY Zenon, <1>1, <1>2 DEF vars, Overrun
<1>3. ASSUME NEW r \in Requests, RejectOpen(r) \/ RejectAtCapacity(r) \/ RejectProbe(r)
      PROVE  Overrun'
  <2>1. UNCHANGED req /\ cb' = Refresh(cb)
    BY <1>3 DEF RejectOpen, RejectAtCapacity, RejectProbe
  <2> QED BY <1>1, <2>1, RefreshOverrun
<1>4. CASE Tick
  <2>1. UNCHANGED req /\ cb' = [cb EXCEPT !.age = @ + 1] /\ cb \in Breaker
    BY <1>4 DEF Tick, IInv, TypeOK
  <2>2. /\ cb'.trips = cb.trips /\ cb'.state = cb.state /\ cb'.probes = cb.probes
        /\ cb'.successes = cb.successes
    BY <2>1 DEF Breaker
  <2> QED BY Zenon, <1>1, <2>1, <2>2 DEF Overrun
<1> QED
  BY <1>2, <1>3, <1>4, AdmitOverrun, EndOverrun DEF Next, Arrive
-----------------------------------------------------------------------------
(* ConcurrencyLimiter counts exactly the requests inside the middleware and *)
(* never admits more than max_concurrent, and the breaker never holds a     *)
(* probe slot that no running request will give back, for any number of     *)
(* requests and whatever outcomes and half-open periods overlap.            *)
THEOREM SlotsAlwaysReturned == Spec => []SlotsReturned
<1>1. IInv => SlotsReturned
  BY DEF IInv, SlotsReturned
<1> QED BY <1>1, AlwaysIInv, PTL

(* No counter of the breaker survives the threshold it is compared with.    *)
THEOREM CountersBelowThresholds == Spec => []CountsBelowThresholds
<1>1. IInv => CountsBelowThresholds
  BY DEF IInv
<1> QED BY <1>1, AlwaysIInv, PTL

(* However many probes of earlier half-open periods end late, fewer than    *)
(* half_open_max_probes + success_threshold probes of the current period    *)
(* run at the same time.                                                    *)
THEOREM LateProbesBounded == Spec => []ProbesBounded
<1>1. Init => Overrun
  BY FS_EmptySet, ResilienceAssumption DEF Init, Overrun, Reset, Idle, Current, Probes
<1>2. IInv /\ Overrun => ProbesBounded
  <2> SUFFICES ASSUME IInv, Overrun, cb.state = "half_open"
               PROVE  Cardinality(Current) < MaxProbes + SuccessThreshold
    BY DEF ProbesBounded
  <2>1. Cardinality(Current) <= cb.probes + cb.successes /\ Cardinality(Current) \in Nat
    BY CurrentFinite DEF Overrun
  <2>2. cb.probes <= MaxProbes /\ cb.successes < SuccessThreshold
    BY DEF IInv, NoLeakedProbeSlot, CountsBelowThresholds
  <2>3. cb.probes \in Nat /\ cb.successes \in Nat /\ MaxProbes \in Nat /\ SuccessThreshold \in Nat
    BY Zenon, ResilienceAssumption DEF IInv, TypeOK, Breaker
  <2> QED BY <2>1, <2>2, <2>3
<1> QED BY <1>1, <1>2, AlwaysIInv, NextOverrun, PTL DEF Spec
-----------------------------------------------------------------------------
(***************************************************************************)
(* TokenBucketLimiter.                                                     *)
(***************************************************************************)

(* The inductive invariant: what a key has used and what it has left never  *)
(* exceed what it could have gained.  RateBounded alone is not inductive:   *)
(* it does not say what is left to spend.                                   *)
Balanced ==
    /\ BucketTypeOK
    /\ \A k \in Keys : passed[k] * Token + Level(k) <= Full + (now - since) * MaxTokens

-----------------------------------------------------------------------------
(* The units are natural numbers; the clamps of __init__ make them at least *)
(* one.                                                                     *)
LEMMA Units ==
    /\ MaxTokens \in Nat /\ MaxTokens >= 1
    /\ Window \in Nat /\ Window >= 1
    /\ Full \in Nat /\ Token \in Nat /\ Token >= 1 /\ Token <= Full
    /\ Full = Window * MaxTokens
<1>1. MaxTokens \in Nat /\ MaxTokens >= 1
    BY BucketAssumption DEF MaxTokens, AtLeastOne
<1>2. AtLeastOne(WindowSecs) \in Nat /\ AtLeastOne(WindowSecs) >= 1 /\ Grain \in Nat /\ Grain >= 1
    BY BucketAssumption DEF AtLeastOne
<1>3. \A a, b \in Nat : a >= 1 /\ b >= 1 => a * b \in Nat /\ a * b >= 1 /\ b <= a * b /\ a * b = b * a
    OBVIOUS
<1>4. Window \in Nat /\ Window >= 1
    BY Zenon, <1>2, <1>3 DEF Window
<1>5. Full \in Nat /\ Window <= Full /\ Full = Window * MaxTokens
    BY Zenon, <1>1, <1>3, <1>4 DEF Full
<1> QED
    BY Zenon, <1>1, <1>4, <1>5 DEF Token

(* The products that occur, by their laws.                                  *)
LEMMA Products ==
    ASSUME NEW a \in Nat, NEW b \in Nat, NEW c \in Nat
    PROVE  /\ a * c \in Nat
           /\ (a + 1) * c = a * c + c
           /\ a >= b => a * c >= b * c
<1>1. a * c \in Nat /\ (a + 1) * c = a * c + c
    OBVIOUS
<1>2. ASSUME a >= b PROVE a * c >= b * c
    <2>1. PICK d \in Nat : a = b + d
        <3>1. a - b \in Nat /\ a = b + (a - b)
            BY <1>2
        <3> QED BY <3>1
    <2>2. a * c = b * c + d * c /\ d * c \in Nat /\ b * c \in Nat
        BY <2>1
    <2> QED BY <2>2, <1>1
<1> QED BY Zenon, <1>1, <1>2

(* A key's level is a number between nothing and a full bucket.             *)
LEMMA LevelType ==
    ASSUME BucketTypeOK, NEW k \in Keys
    PROVE  Level(k) \in 0..Full
<1>1. CASE k \in DOMAIN buckets
    <2>1. /\ buckets[k].tokens \in 0..Full /\ now - buckets[k].last_seen \in Nat
        BY <1>1 DEF BucketTypeOK, _Bucket
    <2>2. (now - buckets[k].last_seen) * MaxTokens \in Nat
        BY Zenon, <2>1, Units, Products
    <2> QED BY <1>1, <2>1, <2>2, Units DEF Level, UpToFull
<1>2. CASE k \notin DOMAIN buckets
    BY <1>2, Units DEF Level
<1> QED BY Zenon, <1>1, <1>2

(* The sweep forgets only buckets that are full again: what check() finds   *)
(* is the key's level.                                                      *)
LEMMA SweepInvisible ==
    ASSUME BucketTypeOK, NEW k \in Keys
    PROVE  /\ Refilled(k) = Level(k)
           /\ k \in DOMAIN buckets /\ k \notin DOMAIN Swept => Level(k) = Full
<1>1. DOMAIN Swept \subseteq DOMAIN buckets
    BY Zenon DEF Swept, Without
<1>2. ASSUME k \in DOMAIN buckets, k \notin DOMAIN Swept PROVE Level(k) = Full
    <2> DEFINE idle == now - buckets[k].last_seen
    <2>1. idle \in Nat /\ buckets[k].tokens \in 0..Full
        BY <1>2 DEF BucketTypeOK, _Bucket
    <2>2. idle >= 2 * Window
        BY Zenon, <1>2 DEF Swept, Without
    <2>3. idle >= Window
        BY <2>1, <2>2, Units
    <2>4. Level(k) = UpToFull(buckets[k].tokens + idle * MaxTokens)
        BY Zenon, <1>2 DEF Level
    <2> HIDE DEF idle
    <2>5. idle * MaxTokens >= Full /\ idle * MaxTokens \in Nat
        BY Zenon, <2>1, <2>3, Units, Products
    <2> QED BY <2>1, <2>4, <2>5, Units DEF UpToFull
<1> QED BY Zenon, <1>1, <1>2 DEF Refilled, Level

(* A check writes its own key and leaves every other level as it was.       *)
LEMMA TouchLevel ==
    ASSUME BucketTypeOK, NEW k \in Keys, NEW x \in 0..Full, Touch(k, x), now' = now, NEW j \in Keys
    PROVE  Level(j)' = IF j = k THEN x ELSE Level(j)
<1>1. buckets' = [y \in DOMAIN Swept \cup {k} |->
                    IF y = k THEN [tokens |-> x, last_seen |-> now] ELSE Swept[y]]
    BY Zenon DEF Touch, With
<1>2. CASE j = k
    <2>1. j \in DOMAIN buckets' /\ buckets'[j] = [tokens |-> x, last_seen |-> now]
        BY Zenon, <1>1, <1>2
    <2>2. now \in Nat /\ (now - now) * MaxTokens = 0
        BY Units DEF BucketTypeOK
    <2>3. Level(j)' = UpToFull(x + (now - now) * MaxTokens)
        BY <2>1 DEF Level, UpToFull, Full, Window, MaxTokens, AtLeastOne
    <2> QED BY <1>2, <2>2, <2>3, Units DEF UpToFull
<1>3. CASE j # k /\ j \in DOMAIN Swept
    <2>1. j \in DOMAIN buckets' /\ buckets'[j] = buckets[j] /\ j \in DOMAIN buckets
        BY Zenon, <1>1, <1>3 DEF Swept, Without
    <2> QED BY Zenon, <1>3, <2>1 DEF Level, UpToFull, Full, Window, MaxTokens, AtLeastOne
<1>4. CASE j # k /\ j \notin DOMAIN Swept
    <2>1. j \notin DOMAIN buckets'
        BY Zenon, <1>1, <1>4
    <2>2. Level(j)' = Full
        BY Zenon, <2>1 DEF Level, Full, Window, MaxTokens, AtLeastOne
    <2>3. Level(j) = Full
        BY <1>4, SweepInvisible DEF Level
    <2> QED BY Zenon, <1>4, <2>2, <2>3
<1> QED BY Zenon, <1>2, <1>3, <1>4

(* A step of the clock fills every bucket by the rate.                      *)
LEMMA TickLevel ==
    ASSUME BucketTypeOK, BucketTick, NEW k \in Keys
    PROVE  Level(k)' = UpToFull(Level(k) + MaxTokens)
<1>1. now \in Nat /\ now' = now + 1 /\ buckets' = buckets
    BY Zenon DEF BucketTick, Passes, BucketTypeOK
<1>2. CASE k \in DOMAIN buckets
    <2> DEFINE idle == now - buckets[k].last_seen
               tokens == buckets[k].tokens
    <2>1. idle \in Nat /\ tokens \in 0..Full
        BY <1>2 DEF BucketTypeOK, _Bucket
    <2>2. buckets[k].last_seen \in Nat /\ now + 1 - buckets[k].last_seen = idle + 1
        BY <1>1, <1>2 DEF BucketTypeOK, _Bucket
    <2>3. Level(k)' = UpToFull(tokens + (idle + 1) * MaxTokens)
        BY <1>1, <1>2, <2>2 DEF Level, UpToFull, Full, Window, MaxTokens, AtLeastOne
    <2>4. Level(k) = UpToFull(tokens + idle * MaxTokens)
        BY Zenon, <1>2 DEF Level
    <2> HIDE DEF idle, tokens
    <2>5. (idle + 1) * MaxTokens = idle * MaxTokens + MaxTokens /\ idle * MaxTokens \in Nat
        BY Zenon, <2>1, Units, Products
    <2> QED BY <2>1, <2>3, <2>4, <2>5, Units DEF UpToFull
<1>3. CASE k \notin DOMAIN buckets
    <2>1. Level(k) = Full /\ Level(k)' = Full
        BY Zenon, <1>1, <1>3 DEF Level, Full, Window, MaxTokens, AtLeastOne
    <2> QED BY <2>1, Units DEF UpToFull
<1> QED BY <1>2, <1>3

(* What a check leaves in the buckets is well formed.                       *)
LEMMA TouchType ==
    ASSUME BucketTypeOK, NEW k \in Keys, NEW x \in 0..Full, Touch(k, x), now' = now
    PROVE  /\ DOMAIN buckets' \subseteq Keys
           /\ \A j \in DOMAIN buckets' : buckets'[j] \in _Bucket /\ buckets'[j].last_seen <= now
<1>1. buckets' = [y \in DOMAIN Swept \cup {k} |->
                    IF y = k THEN [tokens |-> x, last_seen |-> now] ELSE Swept[y]]
    BY Zenon DEF Touch, With
<1>2. DOMAIN Swept \subseteq DOMAIN buckets /\ \A y \in DOMAIN Swept : Swept[y] = buckets[y]
    BY DEF Swept, Without
<1> QED BY <1>1, <1>2 DEF BucketTypeOK, _Bucket
-----------------------------------------------------------------------------
(* Balanced holds at first.                                                 *)
LEMMA InitBalanced == BucketInit => Balanced
<1> SUFFICES ASSUME BucketInit PROVE Balanced
    OBVIOUS
<1>1. DOMAIN buckets = {}
    BY DEF BucketInit
<1>2. BucketTypeOK
    BY <1>1 DEF BucketInit, BucketTypeOK
<1>3. ASSUME NEW k \in Keys PROVE passed[k] * Token + Level(k) <= Full + (now - since) * MaxTokens
    <2>1. Level(k) = Full /\ passed[k] = 0 /\ now - since = 0
        BY <1>1 DEF Level, BucketInit
    <2> QED BY <2>1, Units
<1> QED BY Zenon, <1>2, <1>3 DEF Balanced

(* Every step keeps the balance.                                            *)
LEMMA NextBalanced == Balanced /\ [BucketNext]_bucketVars => Balanced'
<1> SUFFICES ASSUME Balanced, [BucketNext]_bucketVars PROVE Balanced'
    OBVIOUS
<1> USE DEF Balanced
<1>0. /\ Full' = Full /\ Token' = Token /\ MaxTokens' = MaxTokens
      /\ now \in Nat /\ since \in Nat /\ since <= now /\ passed \in [Keys -> Nat]
    BY DEF BucketTypeOK
<1>1. ASSUME NEW k \in Keys, Allow(k) PROVE Balanced'
    <2>1. Level(k) >= Token /\ Touch(k, Level(k) - Token) /\ now' = now /\ since' = since
        BY Zenon, <1>1, SweepInvisible DEF Allow
    <2>2. Level(k) - Token \in 0..Full
        BY <2>1, LevelType, Units
    <2>3. BucketTypeOK'
        BY <1>1, <2>1, <2>2, TouchType DEF BucketTypeOK, Allow, _Bucket
    <2>4. ASSUME NEW j \in Keys
          PROVE  (passed[j] * Token + Level(j) <= Full + (now - since) * MaxTokens)'
        <3>1. Level(j)' = IF j = k THEN Level(k) - Token ELSE Level(j)
            BY Zenon, <2>1, <2>2, TouchLevel
        <3>2. passed'[j] = IF j = k THEN passed[j] + 1 ELSE passed[j]
            BY Zenon, <1>0, <1>1 DEF Allow
        <3>3. passed[j] * Token + Level(j) <= Full + (now - since) * MaxTokens
            OBVIOUS
        <3>4. passed[j] \in Nat /\ Level(j) \in Int /\ now - since \in Nat
            BY <1>0, LevelType, Units
        <3>5. (passed[j] + 1) * Token = passed[j] * Token + Token /\ passed[j] * Token \in Nat
            BY Zenon, <3>4, Units, Products
        <3>6. (now - since) * MaxTokens \in Nat
            BY Zenon, <3>4, Units, Products
        <3> DEFINE used == passed[j] * Token
                   gained == (now - since) * MaxTokens
        <3>7. used' = IF j = k THEN used + Token ELSE used
            BY Zenon, <1>0, <3>2, <3>5
        <3>8. gained' = gained
            BY Zenon, <2>1, <1>0
        <3>9. used \in Nat /\ gained \in Nat /\ used + Level(j) <= Full + gained
            BY Zenon, <3>3, <3>5, <3>6
        <3>10. (used + Level(j) <= Full + gained)'
            <4> HIDE DEF used, gained
            <4> QED BY <1>0, <3>1, <3>4, <3>7, <3>8, <3>9, Units
        <3> QED BY Zenon, <3>10
    <2> QED BY Zenon, <2>3, <2>4
<1>2. ASSUME NEW k \in Keys, Reject(k) PROVE Balanced'
    <2>1. Touch(k, Level(k)) /\ now' = now /\ since' = since /\ passed' = passed
        BY Zenon, <1>2, SweepInvisible DEF Reject
    <2>2. Level(k) \in 0..Full /\ Level(k) < Token
        BY Zenon, <1>2, LevelType, SweepInvisible DEF Reject
    <2>3. RetryAfter(Token - Refilled(k)) \in Nat
        <3>1. Token - Refilled(k) \in Nat
            BY <2>2, Units, SweepInvisible
        <3>2. MaxTokens * Grain \in Nat /\ MaxTokens * Grain >= 1
            <4>1. \A a, b \in Nat : a >= 1 /\ b >= 1 => a * b \in Nat /\ a * b >= 1
                OBVIOUS
            <4> QED BY <4>1, Units, BucketAssumption
        <3>3. \A a, b \in Nat : b >= 1 => CeilDiv(a, b) \in Int
            BY DEF CeilDiv
        <3>4. CeilDiv(Token - Refilled(k), MaxTokens * Grain) \in Int
            BY Zenon, <3>1, <3>2, <3>3
        <3> QED BY <3>4 DEF RetryAfter, AtLeastOne
    <2>4. BucketTypeOK'
        <3>1. told' \in [Keys -> [at : Nat, secs : Nat] \cup {None}]
            BY Zenon, <1>0, <1>2, <2>3 DEF Reject, BucketTypeOK
        <3>2. DOMAIN buckets' \subseteq Keys
              /\ \A j \in DOMAIN buckets' : buckets'[j] \in _Bucket /\ buckets'[j].last_seen <= now
            BY Zenon, <2>1, <2>2, TouchType
        <3> QED BY Zenon, <1>0, <2>1, <3>1, <3>2 DEF BucketTypeOK, _Bucket
    <2>5. ASSUME NEW j \in Keys PROVE Level(j)' = Level(j)
        BY <2>1, <2>2, TouchLevel
    <2> QED BY Zenon, <1>0, <2>1, <2>4, <2>5
<1>3. CASE Observe
    <2>1. BucketTypeOK'
        BY <1>3 DEF Observe, BucketTypeOK, _Bucket
    <2>2. ASSUME NEW j \in Keys
          PROVE  (passed[j] * Token + Level(j) <= Full + (now - since) * MaxTokens)'
        <3>1. Level(j)' = Level(j) /\ passed'[j] = 0 /\ now' = now /\ since' = now
            BY Zenon, <1>3 DEF Observe, Level
        <3>2. 0 * Token = 0 /\ (now - now) * MaxTokens = 0 /\ Level(j) <= Full /\ Level(j) \in Int
            BY <1>0, LevelType, Units
        <3> QED BY <1>0, <3>1, <3>2, Units
    <2> QED BY Zenon, <2>1, <2>2
<1>4. CASE BucketTick
    <2>1. BucketTypeOK'
        BY <1>4 DEF BucketTick, Passes, BucketTypeOK, _Bucket
    <2>2. ASSUME NEW j \in Keys
          PROVE  (passed[j] * Token + Level(j) <= Full + (now - since) * MaxTokens)'
        <3>1. Level(j)' = UpToFull(Level(j) + MaxTokens) /\ Level(j) \in 0..Full
            BY Zenon, <1>4, TickLevel, LevelType
        <3>2. Level(j)' <= Level(j) + MaxTokens /\ Level(j)' \in Int
            BY <3>1, Units DEF UpToFull
        <3>3. now' = now + 1 /\ since' = since /\ passed'[j] = passed[j] /\ now - since \in Nat
            BY <1>0, <1>4 DEF BucketTick, Passes
        <3>4. ((now - since) + 1) * MaxTokens = (now - since) * MaxTokens + MaxTokens
              /\ (now - since) * MaxTokens \in Nat
            BY Zenon, <3>3, Units, Products
        <3>5. now' - since' = (now - since) + 1
            BY <1>0, <3>3
        <3>6. /\ passed[j] * Token \in Nat
              /\ passed[j] * Token + Level(j) <= Full + (now - since) * MaxTokens
            BY Zenon, <1>0, Units, Products
        <3> DEFINE used == passed[j] * Token
                   gained == (now - since) * MaxTokens
        <3>7. used' = used /\ gained' = gained + MaxTokens /\ used \in Nat /\ gained \in Nat
              /\ used + Level(j) <= Full + gained
            BY <1>0, <3>3, <3>4, <3>5, <3>6
        <3>8. (used + Level(j) <= Full + gained)'
            <4> HIDE DEF used, gained
            <4> QED BY <1>0, <3>1, <3>2, <3>7, Units
        <3> QED BY Zenon, <3>8
    <2> QED BY <2>1, <2>2
<1>5. CASE UNCHANGED bucketVars
    BY <1>5 DEF bucketVars, BucketTypeOK, _Bucket, Level
<1> QED BY <1>1, <1>2, <1>3, <1>4, <1>5 DEF BucketNext

(* TokenBucketLimiter.check keeps the configured rate over every span of    *)
(* time, for every key.                                                     *)
THEOREM RateIsBounded == BucketSpec => []RateBounded
<1>1. Balanced => RateBounded
    <2> SUFFICES ASSUME Balanced, NEW k \in Keys
                 PROVE  passed[k] * Token <= Full + (now - since) * MaxTokens
        BY DEF RateBounded
    <2>1. Level(k) \in 0..Full
        BY Zenon, LevelType DEF Balanced
    <2>2. passed[k] * Token + Level(k) <= Full + (now - since) * MaxTokens
        BY Zenon DEF Balanced
    <2>3. passed[k] * Token \in Nat /\ (now - since) * MaxTokens \in Nat
        BY Units, Products DEF Balanced, BucketTypeOK
    <2> QED BY <2>1, <2>2, <2>3, Units
<1> QED BY <1>1, InitBalanced, NextBalanced, PTL DEF BucketSpec

(* A limiter that sweeps idle buckets and fills the others lazily lets      *)
(* through only what one that never forgets may let through, and leaves     *)
(* each key the same level.                                                 *)
THEOREM SweepingIsInvisible == BucketSpec => NeverForgets
<1> DEFINE level == [k \in Keys |-> Level(k)]
<1>1. BucketInit => Ideal!BucketInit
    <2>1. Full = Ideal!Cap
        BY DEF Full, Token, Ideal!Cap
    <2>2. BucketInit => \A k \in Keys : Level(k) = Full
        BY DEF BucketInit, Level
    <2> QED BY <2>1, <2>2 DEF Ideal!BucketInit
<1>2. Balanced /\ [BucketNext]_bucketVars => [Ideal!BucketNext]_level
    <2> SUFFICES ASSUME Balanced, [BucketNext]_bucketVars PROVE Ideal!BucketNext \/ level' = level
        BY Zenon
    <2>0. BucketTypeOK
        BY Zenon DEF Balanced
    <2>1. ASSUME NEW k \in Keys, Allow(k) PROVE Ideal!Pass(k)
        <3>1. Level(k) >= Token /\ Touch(k, Level(k) - Token) /\ now' = now
            BY <2>0, <2>1, SweepInvisible DEF Allow
        <3>2. Level(k) - Token \in 0..Full
            BY <2>0, <3>1, LevelType, Units
        <3>3. \A j \in Keys : Level(j)' = IF j = k THEN Level(k) - Token ELSE Level(j)
            BY <2>0, <3>1, <3>2, TouchLevel
        <3> QED BY Zenon, <3>1, <3>3 DEF Ideal!Pass
    <2>2. ASSUME NEW k \in Keys, Reject(k) PROVE level' = level
        <3>1. Touch(k, Level(k)) /\ now' = now
            BY Zenon, <2>0, <2>2, SweepInvisible DEF Reject
        <3>2. \A j \in Keys : Level(j)' = Level(j)
            BY Zenon, <2>0, <3>1, LevelType, TouchLevel
        <3> QED BY <3>2
    <2>3. CASE Observe
        BY Zenon, <2>3 DEF Observe, Level
    <2>4. CASE BucketTick
        <3>1. \A k \in Keys : Level(k)' = UpToFull(Level(k) + MaxTokens)
            BY Zenon, <2>0, <2>4, TickLevel
        <3>2. ASSUME NEW x PROVE UpToFull(x) = Ideal!AtMostCap(x)
            BY DEF UpToFull, Full, Token, Ideal!AtMostCap, Ideal!Cap
        <3>3. Ideal!Fill
            BY Zenon, <3>1, <3>2 DEF Ideal!Fill
        <3> QED BY Zenon, <3>3 DEF Ideal!BucketNext
    <2>5. CASE UNCHANGED bucketVars
        BY Zenon, <2>5 DEF bucketVars, Level
    <2> QED BY Zenon, <2>1, <2>2, <2>3, <2>4, <2>5 DEF BucketNext, Ideal!BucketNext
<1> QED BY <1>1, <1>2, InitBalanced, NextBalanced, PTL DEF BucketSpec, NeverForgets, Ideal!BucketSpec
-----------------------------------------------------------------------------
(* RetryAfter is the least number of whole seconds in which the missing     *)
(* units are gained, and at least one.                                      *)
LEMMA RetryAfterIsLeast ==
    ASSUME NEW m \in Nat \ {0}
    PROVE  /\ RetryAfter(m) \in Nat /\ RetryAfter(m) >= 1
           /\ RetryAfter(m) * (MaxTokens * Grain) >= m
           /\ RetryAfter(m) > 1 => (RetryAfter(m) - 1) * (MaxTokens * Grain) < m
<1> DEFINE unit == MaxTokens * Grain
           q == CeilDiv(m, unit)
<1>1. unit \in Nat \ {0}
    <2>1. \A a, b \in Nat : a >= 1 /\ b >= 1 => a * b \in Nat /\ a * b >= 1
        OBVIOUS
    <2> QED BY <2>1, Units, BucketAssumption
<1> HIDE DEF unit
<1>2. /\ q \in Nat
      /\ unit * q <= m + unit - 1
      /\ m + unit - 1 < unit * q + unit
    <2>1. \A a \in Nat, d \in Nat \ {0} :
             a \div d \in Nat /\ d * (a \div d) <= a /\ a < d * (a \div d) + d
        BY SMT
    <2>2. m + unit - 1 \in Nat
        BY <1>1
    <2> QED BY Zenon, <1>1, <2>1, <2>2 DEF CeilDiv
<1>3. RetryAfter(m) = AtLeastOne(q)
    BY Zenon DEF RetryAfter, unit
<1> HIDE DEF q
<1>4. q >= 1
    <2>1. q = 0 => unit * q = 0
        BY <1>1
    <2> QED BY <1>1, <1>2, <2>1
<1>5. RetryAfter(m) = q
    BY Zenon, <1>2, <1>3, <1>4 DEF AtLeastOne
<1>6. q * unit = unit * q /\ (q - 1) * unit = unit * q - unit /\ unit * q \in Nat
    BY <1>1, <1>2
<1>7. q * unit >= m /\ (q - 1) * unit < m
    BY <1>1, <1>2, <1>6
<1> QED BY <1>2, <1>4, <1>5, <1>7 DEF unit

(* What was said to a key that has not been served since: the wait was      *)
(* computed from x, what the key had when it asked, and the key has been    *)
(* gaining from x ever since, whether its bucket was swept or not.          *)
Promised ==
    /\ BucketTypeOK
    /\ \A k \in Keys : told[k] # None =>
          /\ told[k].at <= now
          /\ \E x \in 0..(Token - 1) :
                /\ told[k].secs = RetryAfter(Token - x)
                /\ Level(k) = UpToFull(x + (now - told[k].at) * MaxTokens)

(* A promise of that kind is an honest one.                                 *)
LEMMA PromisedIsHonest == Promised => RetryHonest
<1> SUFFICES ASSUME Promised, NEW k \in Keys, told[k] # None
             PROVE  /\ now >= told[k].at + told[k].secs * Grain => Level(k) >= Token
                    /\ (told[k].secs > 1 /\ now <= told[k].at + (told[k].secs - 1) * Grain)
                          => Level(k) < Token
    BY Zenon DEF RetryHonest
<1>1. PICK x \in 0..(Token - 1) :
         /\ told[k].secs = RetryAfter(Token - x)
         /\ Level(k) = UpToFull(x + (now - told[k].at) * MaxTokens)
    BY Zenon DEF Promised
<1>2. told[k].at \in Nat /\ now \in Nat /\ told[k].at <= now
    BY Zenon DEF Promised, BucketTypeOK
<1> DEFINE d == now - told[k].at
           r == told[k].secs
           m == Token - x
<1>3. m \in Nat \ {0} /\ x \in Nat /\ Grain \in Nat
    BY Units, BucketAssumption
<1>4. /\ r \in Nat /\ r >= 1 /\ r * (MaxTokens * Grain) >= m
      /\ r > 1 => (r - 1) * (MaxTokens * Grain) < m
    BY Zenon, <1>1, <1>3, RetryAfterIsLeast
<1>5. d \in Nat /\ (now >= told[k].at + r * Grain => d >= r * Grain)
      /\ (now <= told[k].at + (r - 1) * Grain => d <= (r - 1) * Grain)
    <2>1. r * Grain \in Nat /\ (r - 1) * Grain \in Nat
        BY <1>3, <1>4
    <2> QED BY <1>2, <2>1
<1> HIDE DEF d, r
<1>6. \A n \in Nat : n * (MaxTokens * Grain) = (n * Grain) * MaxTokens /\ n * Grain \in Nat
    BY <1>3, Units
<1>7. ASSUME d >= r * Grain PROVE Level(k) >= Token
    <2>1. d * MaxTokens >= (r * Grain) * MaxTokens /\ d * MaxTokens \in Nat
        BY Zenon, <1>4, <1>5, <1>6, <1>7, Units, Products
    <2>2. d * MaxTokens >= m
        BY <1>3, <1>4, <1>6, <2>1, Units
    <2>3. Level(k) = UpToFull(x + d * MaxTokens)
        BY <1>1 DEF d
    <2> QED BY <1>3, <2>1, <2>2, <2>3, Units DEF UpToFull
<1>8. ASSUME r > 1, d <= (r - 1) * Grain PROVE Level(k) < Token
    <2>0. r - 1 \in Nat
        BY <1>4
    <2>1. d * MaxTokens <= ((r - 1) * Grain) * MaxTokens /\ d * MaxTokens \in Nat
        BY Zenon, <1>5, <1>6, <1>8, <2>0, Units, Products
    <2>2. d * MaxTokens < m
        <3>1. /\ ((r - 1) * Grain) * MaxTokens = (r - 1) * (MaxTokens * Grain)
              /\ (r - 1) * (MaxTokens * Grain) < m
            BY <1>4, <1>6, <1>8, <2>0
        <3>2. (r - 1) * (MaxTokens * Grain) \in Nat
            BY <1>6, <2>0, Units
        <3> QED BY <1>3, <2>1, <3>1, <3>2
    <2>3. Level(k) = UpToFull(x + d * MaxTokens)
        BY <1>1 DEF d
    <2> QED BY <1>3, <2>1, <2>2, <2>3, Units DEF UpToFull
<1> QED BY Zenon, <1>5, <1>7, <1>8 DEF r

(* Every step keeps the promises made.                                      *)
LEMMA NextPromised == Balanced /\ Balanced' /\ Promised /\ [BucketNext]_bucketVars => Promised'
<1> SUFFICES ASSUME Balanced, Balanced', Promised, [BucketNext]_bucketVars PROVE Promised'
    BY Zenon
<1>0. BucketTypeOK /\ BucketTypeOK' /\ now \in Nat /\ Token' = Token /\ MaxTokens' = MaxTokens
    BY Zenon DEF Balanced, BucketTypeOK
<1> DEFINE Kept(j) ==
        told'[j] # None =>
            /\ told'[j].at <= now'
            /\ \E x \in 0..(Token - 1) :
                 /\ told'[j].secs = RetryAfter(Token - x)
                 /\ Level(j)' = UpToFull(x + (now' - told'[j].at) * MaxTokens)
<1>1. ASSUME NEW j \in Keys, Level(j)' = Level(j), told'[j] = told[j], now' = now PROVE Kept(j)
    BY Zenon, <1>1 DEF Promised
<1>2. SUFFICES \A j \in Keys : Kept(j)
    BY Zenon, <1>0 DEF Promised, UpToFull, Full, RetryAfter, AtLeastOne, CeilDiv
<1> HIDE DEF Kept
<1>3. ASSUME NEW k \in Keys, Allow(k), NEW j \in Keys PROVE Kept(j)
    <2>1. Level(k) >= Token /\ Touch(k, Level(k) - Token) /\ now' = now
        BY Zenon, <1>0, <1>3, SweepInvisible DEF Allow
    <2>2. Level(k) - Token \in 0..Full
        BY <1>0, <2>1, LevelType, Units
    <2>3. CASE j = k
        BY Zenon, <1>0, <1>3, <2>3 DEF Allow, BucketTypeOK, Kept
    <2>4. CASE j # k
        BY ZenonT(40), <1>0, <1>1, <1>3, <2>1, <2>2, <2>4, TouchLevel DEF Allow, BucketTypeOK
    <2> QED BY Zenon, <2>3, <2>4
<1>4. ASSUME NEW k \in Keys, Reject(k), NEW j \in Keys PROVE Kept(j)
    <2>1. Touch(k, Level(k)) /\ now' = now /\ Level(k) < Token /\ Refilled(k) = Level(k)
        BY <1>0, <1>4, SweepInvisible DEF Reject
    <2>2. Level(k) \in 0..Full
        BY Zenon, <1>0, LevelType
    <2>3. Level(j)' = Level(j)
        BY Zenon, <1>0, <2>1, <2>2, TouchLevel
    <2>4. CASE j = k
        <3>1. told'[k] = [at |-> now, secs |-> RetryAfter(Token - Level(k))]
            BY Zenon, <1>0, <1>4, <2>1 DEF Reject, BucketTypeOK
        <3>2. (now - now) * MaxTokens = 0 /\ Level(k) \in 0..(Token - 1)
            BY <1>0, <2>1, <2>2, Units
        <3>3. Level(k) = UpToFull(Level(k) + (now - now) * MaxTokens)
            BY <2>2, <3>2, Units DEF UpToFull
        <3> QED BY <1>0, <2>1, <2>3, <2>4, <3>1, <3>2, <3>3 DEF Kept
    <2>5. CASE j # k
        BY ZenonT(40), <1>0, <1>1, <1>4, <2>1, <2>3, <2>5 DEF Reject, BucketTypeOK
    <2> QED BY <2>4, <2>5
<1>5. ASSUME Observe, NEW j \in Keys PROVE Kept(j)
    BY Zenon, <1>1, <1>5 DEF Observe, Level
<1>6. ASSUME BucketTick, NEW j \in Keys PROVE Kept(j)
    <2> SUFFICES ASSUME told[j] # None PROVE Kept(j)
        BY Zenon, <1>6 DEF BucketTick, Kept
    <2>1. PICK x \in 0..(Token - 1) :
             /\ told[j].secs = RetryAfter(Token - x)
             /\ Level(j) = UpToFull(x + (now - told[j].at) * MaxTokens)
        BY Zenon DEF Promised
    <2>2. told[j].at \in Nat /\ told[j].at <= now /\ now' = now + 1 /\ told' = told
        BY Zenon, <1>6 DEF Promised, BucketTypeOK, BucketTick, Passes
    <2>3. Level(j)' = UpToFull(Level(j) + MaxTokens)
        BY Zenon, <1>0, <1>6, TickLevel
    <2> DEFINE d == now - told[j].at
    <2>4. d \in Nat /\ now' - told[j].at = d + 1
        BY <1>0, <2>2
    <2>5. Level(j) = UpToFull(x + d * MaxTokens)
        BY Zenon, <2>1
    <2> HIDE DEF d
    <2>6. (d + 1) * MaxTokens = d * MaxTokens + MaxTokens /\ d * MaxTokens \in Nat
        BY Zenon, <2>4, Units, Products
    <2>7. UpToFull(UpToFull(x + d * MaxTokens) + MaxTokens) = UpToFull(x + (d + 1) * MaxTokens)
        BY <2>6, Units DEF UpToFull
    <2> QED BY <1>0, <2>1, <2>2, <2>3, <2>4, <2>5, <2>7 DEF Kept
<1>7. ASSUME UNCHANGED bucketVars, NEW j \in Keys PROVE Kept(j)
    BY Zenon, <1>1, <1>7 DEF bucketVars, Level
<1> QED BY Zenon, <1>3, <1>4, <1>5, <1>6, <1>7 DEF BucketNext

(* A caller that waits as long as check() told it to finds a token, if no   *)
(* one else used the key; and it was not told to wait a second too long.    *)
THEOREM RetryTimesAreHonest == BucketSpec => []RetryHonest
<1>1. BucketInit => Promised
    BY InitBalanced DEF BucketInit, Promised, Balanced
<1> QED BY <1>1, InitBalanced, NextBalanced, NextPromised, PromisedIsHonest, PTL DEF BucketSpec
=============================================================================
