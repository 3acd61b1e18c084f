----------------------------- MODULE Resilience -----------------------------
(***************************************************************************)
(* ResilienceMiddleware with its CircuitBreaker and ConcurrencyLimiter.    *)
(*                                                                         *)
(* The two asyncio locks are never held across an await, so acquiring one  *)
(* does not suspend: admission is one step, the accounting after the       *)
(* handler is another, and the handler itself runs between them.           *)
(***************************************************************************)
EXTENDS Integers, FiniteSets

CONSTANTS
    Requests,           \* slots for non-exempt requests in flight
    FailureThreshold,   \* failure_threshold
    SuccessThreshold,   \* success_threshold
    OpenSecs,           \* open_secs
    MaxProbes,          \* half_open_max_probes
    MaxConcurrent,      \* max_concurrent
    MaxFaults           \* bound: handlers that crash or answer with a 5xx status

(* __init__ clamps every knob to at least 1.                                *)
ASSUME ResilienceAssumption ==
    /\ IsFiniteSet(Requests)
    /\ {FailureThreshold, SuccessThreshold, OpenSecs, MaxProbes, MaxConcurrent} \subseteq Nat \ {0}
    /\ MaxFaults \in Nat

VARIABLES
    cb,        \* the CircuitBreaker's fields
    inFlight,  \* ConcurrencyLimiter._in_flight
    req,       \* each request: not admitted, running, or running as a probe
    faults     \* observation: failures so far

vars == <<cb, inFlight, req, faults>>

States == {"closed", "open", "half_open"}

(* age: seconds since _opened_at, counted up to open_secs.                  *)
Breaker ==
    [state     : States,
     failures  : Nat,
     successes : Nat,
     age       : 0..OpenSecs,
     probes    : Nat,
     trips     : Nat]

(* __init__, _open and _close: every counter starts over.                   *)
Reset(state, trips) ==
    [state |-> state, failures |-> 0, successes |-> 0, age |-> 0, probes |-> 0, trips |-> trips]

(* period: the trip that began the half-open period a probe belongs to.     *)
Request == [kind : {"idle", "plain", "probe"}, period : Nat]

Idle == [kind |-> "idle", period |-> 0]

Running == {r \in Requests : req[r].kind # "idle"}

Probes == {r \in Requests : req[r].kind = "probe"}

TypeOK ==
    /\ cb \in Breaker
    /\ inFlight \in Nat
    /\ req \in [Requests -> Request]
    /\ faults \in Nat

Init ==
    /\ cb = Reset("closed", 0)
    /\ inFlight = 0
    /\ req = [r \in Requests |-> Idle]
    /\ faults = 0
-----------------------------------------------------------------------------
(* CircuitBreaker, as functions of its fields.                              *)

(* Mutant of Refresh: the time since the trip is not looked at.             *)
RefreshNever(b) == b

(* state(): the lazy step from open to half-open that every call begins     *)
(* with.                                                                    *)
Refresh(b) ==
    IF b.state = "open" /\ b.age >= OpenSecs
    THEN [b EXCEPT !.state = "half_open", !.probes = 0, !.successes = 0]
    ELSE b

Open(b) == Reset("open", b.trips + 1)

Close(b) == Reset("closed", b.trips)

(* max(0, _probes_in_use - 1)                                               *)
ReleaseProbe(b) == [b EXCEPT !.probes = IF @ = 0 THEN 0 ELSE @ - 1]

RecordSuccess(b) ==
    LET after == [ReleaseProbe(b) EXCEPT !.successes = @ + 1] IN
    CASE b.state = "half_open" -> IF after.successes >= SuccessThreshold THEN Close(after) ELSE after
      [] b.state = "closed"    -> [b EXCEPT !.failures = 0]
      [] b.state = "open"      -> b

RecordFailure(b) ==
    LET after == [b EXCEPT !.failures = @ + 1] IN
    CASE b.state = "half_open" -> Open(ReleaseProbe(b))
      [] b.state = "closed"    -> IF after.failures >= FailureThreshold THEN Open(after) ELSE after
      [] b.state = "open"      -> b

(* Mutant of TakeProbe: no slot is taken.                                   *)
TakeNothing(b) == b

(* allow_request takes a slot only in the half-open state.                  *)
TakeProbe(b) == [b EXCEPT !.probes = @ + 1]
-----------------------------------------------------------------------------
(* ConcurrencyLimiter.                                                      *)

HasPermit == inFlight < MaxConcurrent

Release == inFlight' = IF inFlight > 0 THEN inFlight - 1 ELSE inFlight
-----------------------------------------------------------------------------
(* __call__ up to the handler: circuit open, no permit, no probe slot.      *)
RejectOpen(r) ==
    /\ req[r].kind = "idle"
    /\ Refresh(cb).state = "open"
    /\ cb' = Refresh(cb)
    /\ UNCHANGED <<inFlight, req, faults>>

RejectAtCapacity(r) ==
    /\ req[r].kind = "idle"
    /\ Refresh(cb).state # "open"
    /\ ~HasPermit
    /\ cb' = Refresh(cb)
    /\ UNCHANGED <<inFlight, req, faults>>

(* Mutant of RejectProbe: the permit is not given back.                     *)
RejectProbeKeepsPermit(r) ==
    /\ req[r].kind = "idle"
    /\ Refresh(cb).state = "half_open"
    /\ HasPermit
    /\ Refresh(cb).probes >= MaxProbes
    /\ cb' = Refresh(cb)
    /\ inFlight' = inFlight + 1
    /\ UNCHANGED <<req, faults>>

RejectProbe(r) ==
    /\ req[r].kind = "idle"
    /\ Refresh(cb).state = "half_open"
    /\ HasPermit
    /\ Refresh(cb).probes >= MaxProbes
    /\ cb' = Refresh(cb)
    /\ UNCHANGED <<inFlight, req, faults>>

Admit(r) ==
    LET b == Refresh(cb) IN
    /\ req[r].kind = "idle"
    /\ HasPermit
    /\ inFlight' = inFlight + 1
    /\ \/ /\ b.state = "closed"
          /\ cb' = b
          /\ req' = [req EXCEPT ![r] = [kind |-> "plain", period |-> b.trips]]
       \/ /\ b.state = "half_open"
          /\ b.probes < MaxProbes
          /\ cb' = TakeProbe(b)
          /\ req' = [req EXCEPT ![r] = [kind |-> "probe", period |-> b.trips]]
    /\ UNCHANGED faults

(* The outcome counts when the circuit is closed now or this was a probe.   *)
Counts(r, b) == b.state = "closed" \/ req[r].kind = "probe"

(* The handler answered below 500.                                          *)
Succeed(r) ==
    LET b == Refresh(cb) IN
    /\ req[r].kind # "idle"
    /\ cb' = IF Counts(r, b) THEN RecordSuccess(b) ELSE b
    /\ Release
    /\ req' = [req EXCEPT ![r] = Idle]
    /\ UNCHANGED faults

(* The handler answered 500 or above, or raised: the same accounting.       *)
Fail(r) ==
    LET b == Refresh(cb) IN
    /\ req[r].kind # "idle"
    /\ faults < MaxFaults
    /\ faults' = faults + 1
    /\ cb' = IF Counts(r, b) THEN RecordFailure(b) ELSE b
    /\ Release
    /\ req' = [req EXCEPT ![r] = Idle]

(* One second passes.                                                       *)
Tick ==
    /\ cb.state = "open" /\ cb.age < OpenSecs
    /\ cb' = [cb EXCEPT !.age = @ + 1]
    /\ UNCHANGED <<inFlight, req, faults>>

Arrive(r) == RejectOpen(r) \/ RejectAtCapacity(r) \/ RejectProbe(r) \/ Admit(r)

Next == (\E r \in Requests : Arrive(r) \/ Succeed(r) \/ Fail(r)) \/ Tick

Spec == Init /\ [][Next]_vars

(* Time passes, requests keep coming, and handlers return.                  *)
FairSpec ==
    /\ Spec
    /\ WF_vars(Tick)
    /\ \A r \in Requests : WF_vars(Admit(r)) /\ WF_vars(Succeed(r) \/ Fail(r))
-----------------------------------------------------------------------------
(* The limiter's counter is exactly the number of requests being handled,   *)
(* and never above the limit: try_acquire and release pair up on every path *)
(* and the clamp in release hides nothing.                                  *)
PermitsExact == inFlight = Cardinality(Running) /\ inFlight <= MaxConcurrent

(* A half-open breaker always has its slots back: it never counts more      *)
(* probes than are running, so it cannot be stuck with an occupied slot no  *)
(* request will give back (the permanent 503 of the middleware's comment).  *)
NoLeakedProbeSlot == cb.probes <= Cardinality(Probes) /\ cb.probes <= MaxProbes

(* What a request takes it gives back, on every path through the middleware *)
(* and in whatever state the breaker is by then: permits and probe slots    *)
(* are both accounted for.                                                  *)
SlotsReturned == PermitsExact /\ NoLeakedProbeSlot

(* A closed breaker is below its failure threshold, a half-open one below   *)
(* its success threshold: no count is carried past the step that acts on it.*)
CountsBelowThresholds ==
    /\ cb.failures < FailureThreshold
    /\ cb.successes < SuccessThreshold
    /\ cb.state # "half_open" => cb.probes = 0

(* The probes of the current half-open period that are running.             *)
Current == {r \in Probes : req[r].period = cb.trips}

(* allow_request promises at most half_open_max_probes concurrent callers   *)
(* (resilience.py:94).  A probe of an earlier period that ends late gives   *)
(* back a slot of the current one, so more may run; but each such end is a  *)
(* success or re-opens the circuit, so the excess stays below               *)
(* success_threshold.                                                       *)
ProbesBounded ==
    cb.state = "half_open" => Cardinality(Current) < MaxProbes + SuccessThreshold

(* Once handlers stop failing, the breaker closes again and stays closed.   *)
Recovers == <>[](cb.state = "closed")
=============================================================================
