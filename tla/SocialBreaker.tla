--------------------------- MODULE SocialBreaker ----------------------------
(***************************************************************************)
(* SocialCircuitBreaker (services/social.py), one for each provider: it    *)
(* guards the fetch of the user's profile.  Its lock is never held across  *)
(* an await, so each call is one step, written here as a function of the   *)
(* breaker's fields.  The time comes from time.monotonic().                *)
(***************************************************************************)
EXTENDS Integers, Sequences

CONSTANTS
    FailureThreshold,   \* _FAILURE_THRESHOLD
    Cooldown            \* _COOLDOWN_SECS

(* probes is an observation: when the breaker let a fetch through while     *)
(* open, since it last closed.                                              *)
Breaker ==
    [open            : BOOLEAN,
     failures        : Nat,
     opened_at       : Nat,
     probe_in_flight : BOOLEAN,
     probes          : Seq(Nat)]

Healthy ==
    [open |-> FALSE, failures |-> 0, opened_at |-> 0, probe_in_flight |-> FALSE, probes |-> <<>>]

CooldownElapsed(b, now) == now - b.opened_at >= Cooldown

(* allow: what it answers, and what it does to the breaker.                 *)
Allows(b, now) == ~b.open \/ (CooldownElapsed(b, now) /\ ~b.probe_in_flight)

Admit(b, now) ==
    IF b.open THEN [b EXCEPT !.probe_in_flight = TRUE, !.probes = Append(@, now)] ELSE b

(* record_success: whoever reports it, the circuit closes.                  *)
RecordSuccess(b) == Healthy

(* Mutant of RecordFailure: a failed probe gives the slot back and leaves   *)
(* the cool-down as it was.                                                 *)
RecordFailureKeepsClock(b, now) ==
    IF b.open
    THEN [b EXCEPT !.probe_in_flight = FALSE]
    ELSE IF b.failures + 1 >= FailureThreshold
         THEN [b EXCEPT !.open = TRUE, !.opened_at = now, !.failures = 0]
         ELSE [b EXCEPT !.failures = @ + 1]

(* record_failure: while open it restarts the cool-down and frees the slot, *)
(* also when the failure is that of a fetch that began before the circuit   *)
(* opened.                                                                  *)
RecordFailure(b, now) ==
    IF b.open
    THEN [b EXCEPT !.opened_at = now, !.probe_in_flight = FALSE]
    ELSE IF b.failures + 1 >= FailureThreshold
         THEN [b EXCEPT !.open = TRUE, !.opened_at = now, !.failures = 0]
         ELSE [b EXCEPT !.failures = @ + 1]
=============================================================================
