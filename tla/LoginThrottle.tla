--------------------------- MODULE LoginThrottle ----------------------------
(***************************************************************************)
(* FixedWindowLimiter as POST /auth/login uses it: an attempt is recorded  *)
(* against the caller's address and then against the username, before the  *)
(* first await; the password is verified later, and a success clears the   *)
(* username's window while other attempts may be under way.                *)
(***************************************************************************)
EXTENDS Clock, Sequences, FiniteSets, Maps

CONSTANTS
    Addresses, Usernames,
    MaxAttempts, LoginWindow,   \* max_attempts, window_secs
    LoginTime,                  \* bound: the clock stops here
    MaxLogins                   \* bound: attempts that reach the password check

(* The limiter's keys are "login:ip:" and "login:user:" with a name.        *)
ASSUME ThrottleAssumption ==
    /\ Addresses \cap Usernames = {}
    /\ {MaxAttempts, LoginWindow, LoginTime, MaxLogins} \subseteq Nat

VARIABLES
    windows,   \* _windows: key -> window
    attempts   \* every attempt that passed the limiter, in order, and how it stands

loginVars == <<now, windows, attempts>>

Attempt == [address : Addresses, username : Usernames, at : Nat,
            outcome : {"pending", "failed", "succeeded"}, reset : Nat]

LoginTypeOK ==
    /\ now \in Nat
    /\ DOMAIN windows \subseteq Addresses \cup Usernames
    /\ \A k \in DOMAIN windows : windows[k] \in [start : 0..now, count : 0..MaxAttempts]
    /\ attempts \in Seq(Attempt)

LoginInit ==
    /\ now = 0
    /\ windows = <<>>
    /\ attempts = <<>>
-----------------------------------------------------------------------------
(* _sweep_expired.                                                          *)
Sweep(w) == Without(w, {k \in DOMAIN w : now - w[k].start >= LoginWindow})

(* The key's current window, a new one when there is none.                  *)
Current(w, k) == IF k \in DOMAIN Sweep(w) THEN w[k] ELSE [start |-> now, count |-> 0]

Blocked(w, k) == Current(w, k).count >= MaxAttempts

(* check(): the windows after it.  A blocked check records no attempt.      *)
Check(w, k) ==
    With(Sweep(w), k, IF Blocked(w, k) THEN Current(w, k)
                      ELSE [Current(w, k) EXCEPT !.count = @ + 1])

(* Mutant of Refuse: the username is charged whatever the address.          *)
RefuseCharging(a, u) ==
    /\ Blocked(windows, a) \/ Blocked(Check(windows, a), u)
    /\ windows' = Check(Check(windows, a), u)
    /\ UNCHANGED <<now, attempts>>

(* The limiter refuses: too_many_attempts.  The username is charged only    *)
(* when the address was not blocked.                                        *)
Refuse(a, u) ==
    /\ \/ Blocked(windows, a) /\ windows' = Check(windows, a)
       \/ /\ ~Blocked(windows, a)
          /\ Blocked(Check(windows, a), u)
          /\ windows' = Check(Check(windows, a), u)
    /\ UNCHANGED <<now, attempts>>

(* Mutant of Begin: only the address is charged.                            *)
BeginChargingAddress(a, u) ==
    /\ Len(attempts) < MaxLogins
    /\ ~Blocked(windows, a)
    /\ windows' = Check(windows, a)
    /\ attempts' = Append(attempts, [address |-> a, username |-> u, at |-> now,
                                     outcome |-> "pending", reset |-> 0])
    /\ UNCHANGED now

(* The limiter lets the attempt through; the user is then looked up.        *)
Begin(a, u) ==
    /\ Len(attempts) < MaxLogins
    /\ ~Blocked(windows, a)
    /\ ~Blocked(Check(windows, a), u)
    /\ windows' = Check(Check(windows, a), u)
    /\ attempts' = Append(attempts, [address |-> a, username |-> u, at |-> now,
                                     outcome |-> "pending", reset |-> 0])
    /\ UNCHANGED now

(* invalid_credentials.                                                     *)
Fail(i) ==
    /\ attempts[i].outcome = "pending"
    /\ attempts' = [attempts EXCEPT ![i].outcome = "failed"]
    /\ UNCHANGED <<now, windows>>

(* reset(): only the username's window.                                     *)
Reset(a, u) == Without(windows, {u})

(* The password is right.  reset records how many attempts had begun.       *)
Succeed(i) ==
    /\ attempts[i].outcome = "pending"
    /\ windows' = Reset(attempts[i].address, attempts[i].username)
    /\ attempts' = [attempts EXCEPT ![i].outcome = "succeeded", ![i].reset = Len(attempts)]
    /\ UNCHANGED now

LoginTick ==
    /\ Passes(LoginTime)
    /\ UNCHANGED <<windows, attempts>>

LoginNext ==
    \/ \E a \in Addresses, u \in Usernames : Refuse(a, u) \/ Begin(a, u)
    \/ \E i \in DOMAIN attempts : Fail(i) \/ Succeed(i)
    \/ LoginTick

LoginSpec == LoginInit /\ [][LoginNext]_loginVars
-----------------------------------------------------------------------------
(* Those of a set of attempts that lie within a window's length from s.     *)
Within(S, s) == {i \in S : attempts[i].at \in s..(s + LoginWindow - 1)}

Less(n) == IF n = 0 THEN 0 ELSE n - 1

(* Two windows meet in such a span at most, and the attempt that opened the *)
(* first one lies before it.                                                *)
Burst == MaxAttempts + Less(MaxAttempts)

FromAddress(a) == {i \in DOMAIN attempts : attempts[i].address = a}

OnUsername(u) == {i \in DOMAIN attempts : attempts[i].username = u}

(* The attempts on a user since the last successful login.                  *)
SinceSuccess(u) ==
    {i \in OnUsername(u) : \A j \in OnUsername(u) : i > attempts[j].reset}

(* An address reaches the password check at most Burst times in any span as *)
(* long as the window, wherever the span lies relative to the windows and   *)
(* however many of the attempts succeed (login.py:175: "the per-IP window   *)
(* must expire naturally").                                                 *)
AddressBounded ==
    \A a \in Addresses, s \in 0..now : Cardinality(Within(FromAddress(a), s)) <= Burst

(* The same for a username, from whatever addresses, counting from the last *)
(* successful login of that user.                                           *)
UsernameBounded ==
    \A u \in Usernames, s \in 0..now : Cardinality(Within(SinceSuccess(u), s)) <= Burst

(* Neither an address nor a username reaches the password check more often  *)
(* than two windows that meet allow.                                        *)
LoginsBounded == AddressBounded /\ UsernameBounded

(* A username is blocked only by max_attempts attempts on it that reached   *)
(* the password check within the last window: attempts refused for their    *)
(* address do not count against it (login.py:114: "short-circuits without   *)
(* also recording an attempt against the username key").  The docstring at  *)
(* login.py:11, by which both keys are recorded "on *every* attempt", does  *)
(* not hold of those.                                                       *)
BlockEarned ==
    \A u \in Usernames :
        Blocked(windows, u) =>
            Cardinality({i \in OnUsername(u) : now - attempts[i].at < LoginWindow}) >= MaxAttempts
=============================================================================
