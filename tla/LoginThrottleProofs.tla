------------------------ MODULE LoginThrottleProofs -------------------------
(***************************************************************************)
(* For every limit and window, and any number of addresses, usernames and  *)
(* attempts under way: the login throttle keeps to its burst, and blocks   *)
(* only what was attempted.                                                *)
(***************************************************************************)
EXTENDS LoginThrottle, FiniteSetTheorems, TLAPS

(* Counting: a part has no more elements than the whole, a set covered by   *)
(* two has no more than both together, and one more element counts one.     *)
LEMMA Counting ==
    ASSUME NEW A, IsFiniteSet(A), NEW B, IsFiniteSet(B), NEW C
    PROVE  /\ Cardinality(A) \in Nat
           /\ C \subseteq A =>
                IsFiniteSet(C) /\ Cardinality(C) \in Nat /\ Cardinality(C) <= Cardinality(A)
           /\ C \subseteq A \cup B => Cardinality(C) <= Cardinality(A) + Cardinality(B)
           /\ A = {} => Cardinality(A) = 0
<1>1. Cardinality(A) \in Nat /\ Cardinality(B) \in Nat
    BY FS_CardinalityType
<1>2. C \subseteq A => IsFiniteSet(C) /\ Cardinality(C) \in Nat /\ Cardinality(C) <= Cardinality(A)
    BY FS_Subset, FS_CardinalityType
<1>3. ASSUME C \subseteq A \cup B PROVE Cardinality(C) <= Cardinality(A) + Cardinality(B)
    <2>1. /\ IsFiniteSet(A \cup B)
          /\ Cardinality(A \cup B) = Cardinality(A) + Cardinality(B) - Cardinality(A \cap B)
        BY FS_Union
    <2>2. IsFiniteSet(A \cap B) /\ Cardinality(A \cap B) \in Nat
        BY Zenon, FS_Intersection, FS_CardinalityType
    <2>3. Cardinality(C) <= Cardinality(A \cup B) /\ Cardinality(C) \in Nat
        BY <1>3, <2>1, FS_Subset, FS_CardinalityType
    <2> QED BY <1>1, <2>1, <2>2, <2>3
<1> QED BY <1>1, <1>2, <1>3, FS_EmptySet

(* Attempts S of the history h at or after b, after b, and from s up to b.  *)
From(S, h, b) == {i \in S : h[i].at >= b}
After(S, h, b) == {i \in S : h[i].at > b}
Between(S, h, s, b) == {i \in S : s <= h[i].at /\ h[i].at < b}
Spanned(S, h, s) == {i \in S : h[i].at \in s..(s + LoginWindow - 1)}

(* Before b, and within a window's length of it, lie fewer attempts than a  *)
(* window admits.                                                           *)
Light(S, h, b) ==
    \A s \in Int : s > b - LoginWindow =>
        Cardinality(Between(S, h, s, b)) <= Less(MaxAttempts)

(* What the absence of a window says of the attempts S charged to a key.    *)
Idle(S, h, t) ==
    /\ IsFiniteSet(S)
    /\ \A i \in S : h[i].at \in Nat /\ h[i].at < t
    /\ Light(S, h, t)

(* What a window says of them: none lies beyond it; it counts every attempt *)
(* since it opened, and one more than those after that instant, which is    *)
(* the attempt that opened it.                                              *)
Open(S, h, win, t) ==
    /\ IsFiniteSet(S)
    /\ \A i \in S : h[i].at \in Nat /\ h[i].at <= t /\ h[i].at < win.start + LoginWindow
    /\ Cardinality(From(S, h, win.start)) <= win.count
    /\ Cardinality(After(S, h, win.start)) <= Less(win.count)
    /\ Light(S, h, win.start)

Ledger(S, h, w, k, t) ==
    /\ k \in DOMAIN w => Open(S, h, w[k], t)
    /\ k \notin DOMAIN w => Idle(S, h, t)

Bounded(S, h) == \A s \in Nat : Cardinality(Spanned(S, h, s)) <= Burst

(* A window as check() keeps it at time t.                                  *)
WindowAt(win, t) ==
    /\ win \in [start : Nat, count : 0..MaxAttempts]
    /\ win.start <= t
    /\ win.count = 0 => MaxAttempts = 0

LEMMA ThrottleUnits ==
    /\ MaxAttempts \in Nat /\ LoginWindow \in Nat
    /\ Less(MaxAttempts) \in Nat
    /\ Burst = MaxAttempts + Less(MaxAttempts)
    /\ \A m, n \in Nat : m <= n => Less(m) \in Nat /\ Less(m) <= Less(n)
  BY ThrottleAssumption DEF Less, Burst

(* Every part of a ledger's attempts is finite.                             *)
LEMMA PartsFinite ==
    ASSUME NEW S, IsFiniteSet(S), NEW h, NEW b, NEW s
    PROVE  /\ IsFiniteSet(From(S, h, b)) /\ IsFiniteSet(After(S, h, b))
           /\ IsFiniteSet(Between(S, h, s, b)) /\ IsFiniteSet(Spanned(S, h, s))
           /\ Cardinality(From(S, h, b)) \in Nat /\ Cardinality(After(S, h, b)) \in Nat
           /\ Cardinality(Between(S, h, s, b)) \in Nat /\ Cardinality(Spanned(S, h, s)) \in Nat
<1>1. /\ From(S, h, b) \subseteq S /\ After(S, h, b) \subseteq S
      /\ Between(S, h, s, b) \subseteq S /\ Spanned(S, h, s) \subseteq S
    BY DEF From, After, Between, Spanned
<1> QED BY <1>1, FS_Subset, FS_CardinalityType

(* A sweep that drops the window of a key leaves its ledger in order: what  *)
(* lies within reach of a window that opens now came after the opener.      *)
LEMMA SweptLedger ==
    ASSUME NEW S, NEW h, NEW t \in Nat, NEW win, WindowAt(win, t),
           Open(S, h, win, t), t - win.start >= LoginWindow
    PROVE  Idle(S, h, t)
<1>1. /\ win.start \in Nat /\ win.count \in Nat /\ win.count <= MaxAttempts /\ IsFiniteSet(S)
      /\ \A i \in S : h[i].at \in Nat /\ h[i].at <= t /\ h[i].at < win.start + LoginWindow
      /\ Cardinality(After(S, h, win.start)) <= Less(win.count)
    BY ThrottleUnits DEF WindowAt, Open
<1>2. \A i \in S : h[i].at < t
    BY <1>1, ThrottleUnits
<1>3. ASSUME NEW s \in Int, s > t - LoginWindow
      PROVE  Cardinality(Between(S, h, s, t)) <= Less(MaxAttempts)
    <2>1. Between(S, h, s, t) \subseteq After(S, h, win.start)
        BY <1>1, <1>3, ThrottleUnits DEF Between, After
    <2>2. Cardinality(Between(S, h, s, t)) <= Cardinality(After(S, h, win.start))
        BY Zenon, <1>1, <2>1, PartsFinite, FS_Subset
    <2>3. /\ Cardinality(Between(S, h, s, t)) \in Nat
          /\ Cardinality(After(S, h, win.start)) \in Nat
        BY Zenon, <1>1, PartsFinite
    <2>4. Less(win.count) \in Nat /\ Less(win.count) <= Less(MaxAttempts)
        BY <1>1, ThrottleUnits
    <2> QED BY <1>1, <2>2, <2>3, <2>4, ThrottleUnits
<1> QED BY <1>1, <1>2, <1>3 DEF Open, Idle, Light

(* A window that opens now has nothing in it yet, whatever its count.       *)
LEMMA OpenedLedger ==
    ASSUME NEW S, NEW h, NEW t \in Nat, Idle(S, h, t), NEW c \in Nat
    PROVE  Open(S, h, [start |-> t, count |-> c], t)
<1> DEFINE new == [start |-> t, count |-> c]
<1>1. /\ IsFiniteSet(S)
      /\ \A i \in S : h[i].at \in Nat /\ h[i].at < t
      /\ \A s \in Int : s > t - LoginWindow => Cardinality(Between(S, h, s, t)) <= Less(MaxAttempts)
    BY DEF Open, Idle, Light
<1>2. From(S, h, t) = {} /\ After(S, h, t) = {}
    BY <1>1 DEF From, After
<1>3. Cardinality(From(S, h, t)) <= c /\ Cardinality(After(S, h, t)) <= Less(c)
    BY <1>2, FS_EmptySet, ThrottleUnits
<1>4. \A i \in S : h[i].at <= t /\ h[i].at < t + LoginWindow
    BY <1>1, ThrottleUnits
<1> QED BY <1>1, <1>3, <1>4 DEF Open, Idle, Light

(* A charge without an attempt raises the count only.                       *)
LEMMA ChargedLedger ==
    ASSUME NEW S, NEW h, NEW t \in Nat, NEW win, WindowAt(win, t), Open(S, h, win, t)
    PROVE  Open(S, h, [win EXCEPT !.count = @ + 1], t)
<1> DEFINE b == win.start
           c == win.count
           new == [win EXCEPT !.count = @ + 1]
<1>1. new.start = b /\ new.count = c + 1 /\ c \in Nat
    BY ThrottleUnits DEF WindowAt
<1>2. /\ IsFiniteSet(S)
      /\ \A i \in S : h[i].at \in Nat /\ h[i].at <= t /\ h[i].at < b + LoginWindow
      /\ Cardinality(From(S, h, b)) <= c /\ Cardinality(After(S, h, b)) <= Less(c)
      /\ Light(S, h, b)
    BY DEF Open
<1> HIDE DEF b, c, new
<1>3. Cardinality(From(S, h, b)) \in Nat /\ Cardinality(After(S, h, b)) \in Nat
    BY <1>2, PartsFinite
<1>4. Less(c) \in Nat /\ Less(c + 1) \in Nat /\ Less(c) <= Less(c + 1)
    BY <1>1, ThrottleUnits
<1>5. Cardinality(From(S, h, b)) <= c + 1 /\ Cardinality(After(S, h, b)) <= Less(c + 1)
    BY <1>1, <1>2, <1>3, <1>4
<1>6. Open(S, h, new, t)
    BY Zenon, <1>1, <1>2, <1>5 DEF Open
<1> QED BY <1>6 DEF new

(* A charge with the attempt n, made now, in a window that has not expired. *)
(* If it is the window's first, it opens it; if not, the opener is already  *)
(* counted.                                                                 *)
LEMMA RecordedLedger ==
    ASSUME NEW S, NEW h, NEW t \in Nat, NEW win, win.start \in Nat, win.count \in Nat,
           win.start <= t, t - win.start < LoginWindow,
           win.count = 0 => win.start = t,
           Open(S, h, win, t),
           NEW n, n \notin S, NEW g, g[n].at = t, \A i \in S : g[i].at = h[i].at,
           NEW new, new.start = win.start, new.count = win.count + 1
    PROVE  Open(S \cup {n}, g, new, t)
<1> DEFINE b == win.start
           T == S \cup {n}
<1>1. /\ IsFiniteSet(S)
      /\ \A i \in S : h[i].at \in Nat /\ h[i].at <= t /\ h[i].at < b + LoginWindow
      /\ Cardinality(From(S, h, b)) <= win.count
      /\ Cardinality(After(S, h, b)) <= Less(win.count)
      /\ \A s \in Int : s > b - LoginWindow => Cardinality(Between(S, h, s, b)) <= Less(MaxAttempts)
    BY DEF Open, Idle, Light
<1>2. IsFiniteSet(T)
    BY <1>1, FS_AddElement
<1>3. \A i \in T : g[i].at \in Nat /\ g[i].at <= t /\ g[i].at < b + LoginWindow
    BY <1>1, ThrottleUnits
<1>4. Cardinality(From(T, g, b)) <= win.count + 1
    <2>1. From(T, g, b) = From(S, h, b) \cup {n}
        BY DEF From
    <2>2. IsFiniteSet(From(S, h, b)) /\ Cardinality(From(S, h, b)) \in Nat
        BY <1>1, PartsFinite
    <2>3. n \notin From(S, h, b)
        BY Zenon DEF From
    <2>4. Cardinality(From(T, g, b)) = Cardinality(From(S, h, b)) + 1
        BY Zenon, <2>1, <2>2, <2>3, FS_AddElement
    <2> QED BY <1>1, <2>2, <2>4
<1>5. Cardinality(After(T, g, b)) <= Less(win.count + 1)
    <2>0. Less(win.count + 1) = win.count
        BY DEF Less
    <2>1. CASE win.count = 0
        <3>1. After(T, g, b) = After(S, h, b)
            BY <2>1 DEF After
        <3> QED BY <1>1, <2>0, <2>1, <3>1 DEF Less
    <2>2. CASE win.count # 0
        <3>1. After(T, g, b) \subseteq After(S, h, b) \cup {n}
            BY DEF After
        <3>0. /\ IsFiniteSet(After(S, h, b)) /\ Cardinality(After(S, h, b)) \in Nat
              /\ n \notin After(S, h, b)
            BY ZenonT(60), <1>1, PartsFinite DEF After
        <3>2. /\ Cardinality(After(S, h, b) \cup {n}) = Cardinality(After(S, h, b)) + 1
              /\ IsFiniteSet(After(S, h, b) \cup {n})
            BY <3>0, FS_AddElement
        <3>3. Cardinality(After(T, g, b)) <= Cardinality(After(S, h, b) \cup {n})
            BY Zenon, <3>1, <3>2, FS_Subset
        <3>4. Cardinality(After(T, g, b)) \in Nat /\ Cardinality(After(S, h, b) \cup {n}) \in Nat
            BY Zenon, <1>2, <3>2, PartsFinite, FS_CardinalityType
        <3>5. Less(win.count) = win.count - 1
            BY <2>2 DEF Less
        <3> QED BY <1>1, <2>0, <3>0, <3>2, <3>3, <3>4, <3>5
    <2> QED BY <2>1, <2>2
<1>6. ASSUME NEW s \in Int, s > b - LoginWindow
      PROVE  Cardinality(Between(T, g, s, b)) <= Less(MaxAttempts)
    <2>1. Between(T, g, s, b) = Between(S, h, s, b)
        BY DEF Between
    <2> QED BY <1>1, <1>6, <2>1
<1> QED BY Zenon, <1>2, <1>3, <1>4, <1>5, <1>6 DEF Open, Idle, Light

(* In a span that reaches the present two windows meet: the current one,    *)
(* and what lies before it.                                                 *)
LEMMA LedgerBounds ==
    ASSUME NEW S, NEW h, NEW t \in Nat, NEW win, WindowAt(win, t), Open(S, h, win, t),
           NEW s \in Nat, s > t - LoginWindow
    PROVE  Cardinality(Spanned(S, h, s)) <= Burst
<1>1. /\ win.start \in Nat /\ win.start <= t /\ win.count \in Nat /\ win.count <= MaxAttempts
      /\ IsFiniteSet(S) /\ \A i \in S : h[i].at \in Nat
    BY ThrottleUnits DEF WindowAt, Open
<1>2. Spanned(S, h, s) \subseteq Between(S, h, s, win.start) \cup From(S, h, win.start)
    BY <1>1 DEF Spanned, Between, From
<1>3. s > win.start - LoginWindow
    BY <1>1, ThrottleUnits
<1>4. /\ Cardinality(Between(S, h, s, win.start)) <= Less(MaxAttempts)
      /\ Cardinality(From(S, h, win.start)) <= win.count
    BY <1>3 DEF Open, Idle, Light
<1>5. Cardinality(Spanned(S, h, s))
        <= Cardinality(Between(S, h, s, win.start)) + Cardinality(From(S, h, win.start))
    BY Zenon, <1>1, <1>2, PartsFinite, Counting
<1> QED BY <1>1, <1>4, <1>5, PartsFinite, ThrottleUnits
-----------------------------------------------------------------------------
Ready(w, t) == \A j \in DOMAIN w : WindowAt(w[j], t)

Live(w, k) == k \in DOMAIN w /\ now - w[k].start < LoginWindow

(* What check() does to the windows of other keys: expired ones go.         *)
LEMMA CheckOthers ==
    ASSUME now \in Nat, NEW w, Ready(w, now), NEW k, NEW j, j # k
    PROVE  /\ j \in DOMAIN Check(w, k) <=> Live(w, j)
           /\ Live(w, j) => Check(w, k)[j] = w[j]
<1> DEFINE kept == Sweep(w)
<1>1. /\ DOMAIN kept = {y \in DOMAIN w : ~(now - w[y].start >= LoginWindow)}
      /\ \A y \in DOMAIN kept : kept[y] = w[y]
    BY DEF Sweep, Without
<1>2. j \in DOMAIN w => w[j].start \in Nat
    BY DEF Ready, WindowAt
<1>3. j \in DOMAIN kept <=> Live(w, j)
    BY <1>1, <1>2, ThrottleUnits DEF Live
<1> HIDE DEF kept
<1>4. /\ DOMAIN Check(w, k) = DOMAIN kept \cup {k}
      /\ j \in DOMAIN kept => Check(w, k)[j] = kept[j]
    BY DEF Check, With, kept
<1> QED BY <1>1, <1>3, <1>4

(* What it does to the key's own window, in terms of Current and Blocked.   *)
LEMMA CheckOwn ==
    ASSUME now \in Nat, NEW w, Ready(w, now), NEW k
    PROVE  /\ k \in DOMAIN Check(w, k)
           /\ Live(w, k) => Current(w, k) = w[k]
           /\ ~Live(w, k) => Current(w, k) = [start |-> now, count |-> 0]
           /\ Blocked(w, k) <=> Current(w, k).count >= MaxAttempts
           /\ Blocked(w, k) => Check(w, k)[k] = Current(w, k)
           /\ ~Blocked(w, k) =>
                 Check(w, k)[k] = [Current(w, k) EXCEPT !.count = @ + 1]
<1>1. DOMAIN Sweep(w) = {y \in DOMAIN w : ~(now - w[y].start >= LoginWindow)}
    BY DEF Sweep, Without
<1>2. k \in DOMAIN w => w[k].start \in Nat
    BY DEF Ready, WindowAt
<1>3. k \in DOMAIN Sweep(w) <=> Live(w, k)
    BY <1>1, <1>2, ThrottleUnits DEF Live
<1>4. /\ Live(w, k) => Current(w, k) = w[k]
      /\ ~Live(w, k) => Current(w, k) = [start |-> now, count |-> 0]
    BY <1>3 DEF Current
<1>5. /\ k \in DOMAIN Check(w, k)
      /\ Check(w, k)[k] = IF Blocked(w, k) THEN Current(w, k)
                                ELSE [Current(w, k) EXCEPT !.count = @ + 1]
    BY DEF Check, With
<1> QED BY <1>4, <1>5 DEF Blocked

(* A live window that is checked is left alone when it blocks, and counts   *)
(* one more when it does not.                                               *)
LEMMA LiveWindowChecked ==
    ASSUME now \in Nat, NEW w, Ready(w, now), NEW k, Live(w, k)
    PROVE  /\ WindowAt(Check(w, k)[k], now)
           /\ Blocked(w, k) => Check(w, k)[k] = w[k]
           /\ ~Blocked(w, k) => /\ Check(w, k)[k] = [w[k] EXCEPT !.count = @ + 1]
                                      /\ w[k].count # 0
<1> DEFINE v == Check(w, k)[k]
           c == w[k]
<1>1. /\ Blocked(w, k) <=> c.count >= MaxAttempts
      /\ Blocked(w, k) => v = c
      /\ ~Blocked(w, k) => v = [c EXCEPT !.count = @ + 1]
    BY ZenonT(60), CheckOwn
<1>2. WindowAt(c, now)
    BY DEF Live, Ready
<1> HIDE DEF v, c
<1>3. /\ c \in [start : Nat, count : 0..MaxAttempts] /\ c.start <= now
      /\ c.count = 0 => MaxAttempts = 0
    BY <1>2 DEF WindowAt
<1>4. ASSUME ~Blocked(w, k)
      PROVE  WindowAt([c EXCEPT !.count = @ + 1], now) /\ c.count # 0
    <2>1. c.count < MaxAttempts /\ c.count # 0
        BY <1>1, <1>3, <1>4, ThrottleUnits
    <2> QED BY <1>3, <2>1, ThrottleUnits DEF WindowAt
<1> QED BY <1>1, <1>2, <1>4 DEF v, c

(* Where there is no live window, one opens; its count stays at nought only *)
(* where no attempt is allowed at all.                                      *)
LEMMA NewWindowChecked ==
    ASSUME now \in Nat, NEW w, Ready(w, now), NEW k, ~Live(w, k)
    PROVE  /\ WindowAt(Check(w, k)[k], now)
           /\ Blocked(w, k) => Check(w, k)[k] = [start |-> now, count |-> 0]
           /\ ~Blocked(w, k) => Check(w, k)[k] = [start |-> now, count |-> 1]
           /\ Blocked(w, k) <=> MaxAttempts = 0
<1> DEFINE v == Check(w, k)[k]
           c == Current(w, k)
<1>1. /\ Blocked(w, k) <=> c.count >= MaxAttempts
      /\ Blocked(w, k) => v = c
      /\ ~Blocked(w, k) => v = [c EXCEPT !.count = @ + 1]
      /\ c = [start |-> now, count |-> 0]
    BY CheckOwn
<1> HIDE DEF v, c
<1>2. (Blocked(w, k) <=> MaxAttempts = 0) /\ [c EXCEPT !.count = @ + 1] = [start |-> now, count |-> 1]
    BY <1>1, ThrottleUnits
<1>3. /\ MaxAttempts = 0 => WindowAt([start |-> now, count |-> 0], now)
      /\ MaxAttempts # 0 => WindowAt([start |-> now, count |-> 1], now)
    BY ThrottleUnits DEF WindowAt
<1> QED BY <1>1, <1>2, <1>3 DEF v

LEMMA CheckReady ==
    ASSUME now \in Nat, NEW w, Ready(w, now), NEW k
    PROVE  Ready(Check(w, k), now)
<1>1. WindowAt(Check(w, k)[k], now)
    BY Zenon, LiveWindowChecked, NewWindowChecked
<1>2. ASSUME NEW j \in DOMAIN Check(w, k), j # k
      PROVE  WindowAt(Check(w, k)[j], now)
    <2>1. Live(w, j) /\ Check(w, k)[j] = w[j]
        BY <1>2, CheckOthers
    <2> QED BY <2>1 DEF Live, Ready
<1> QED BY <1>1, <1>2 DEF Ready

(* A key without a live window is idle, whether its window is still there.  *)
LEMMA NotLiveIsIdle ==
    ASSUME now \in Nat, NEW w, Ready(w, now), NEW k, NEW S, NEW h,
           Ledger(S, h, w, k, now), ~Live(w, k)
    PROVE  Idle(S, h, now)
<1>1. CASE k \in DOMAIN w
    <2>1. WindowAt(w[k], now) /\ Open(S, h, w[k], now)
        BY <1>1 DEF Ready, Ledger
    <2>2. now - w[k].start >= LoginWindow
        <3>1. w[k].start \in Nat
            BY <2>1 DEF WindowAt
        <3> QED BY <1>1, <3>1, ThrottleUnits DEF Live
    <2> QED BY <2>1, <2>2, SweptLedger
<1>2. CASE k \notin DOMAIN w
    BY <1>2 DEF Ledger
<1> QED BY <1>1, <1>2

(* A check that records no attempt keeps every ledger.                      *)
LEMMA CheckKeepsLedger ==
    ASSUME now \in Nat, NEW w, Ready(w, now), NEW k, NEW j, NEW S, NEW h,
           Ledger(S, h, w, j, now)
    PROVE  Ledger(S, h, Check(w, k), j, now)
<1> DEFINE v == Check(w, k)
<1>1. CASE j # k
    <2>1. CASE Live(w, j)
        <3>1. j \in DOMAIN v /\ v[j] = w[j] /\ j \in DOMAIN w
            BY <1>1, <2>1, CheckOthers DEF Live
        <3> QED BY <3>1 DEF Ledger
    <2>2. CASE ~Live(w, j)
        <3>1. j \notin DOMAIN v
            BY <1>1, <2>2, CheckOthers
        <3> QED BY <2>2, <3>1, NotLiveIsIdle DEF Ledger
    <2> QED BY <2>1, <2>2
<1>2. CASE j = k
    <2>0. k \in DOMAIN v
        BY Zenon, CheckOwn
    <2> SUFFICES Open(S, h, v[k], now)
        BY <1>2, <2>0 DEF Ledger
    <2>1. CASE Live(w, k)
        <3>1. Open(S, h, w[k], now) /\ WindowAt(w[k], now)
            BY <1>2, <2>1 DEF Live, Ledger, Ready
        <3>2. v[k] = w[k] \/ v[k] = [w[k] EXCEPT !.count = @ + 1]
            BY <2>1, LiveWindowChecked
        <3>3. Open(S, h, [w[k] EXCEPT !.count = @ + 1], now)
            BY <3>1, ChargedLedger
        <3> QED BY <3>1, <3>2, <3>3
    <2>2. CASE ~Live(w, k)
        <3>1. Idle(S, h, now)
            BY <1>2, <2>2, NotLiveIsIdle
        <3>2. v[k] = [start |-> now, count |-> 0] \/ v[k] = [start |-> now, count |-> 1]
            BY <2>2, NewWindowChecked
        <3>3. \A c \in Nat : Open(S, h, [start |-> now, count |-> c], now)
            BY <3>1, OpenedLedger
        <3> QED BY ZenonT(60), <3>2, <3>3
    <2> QED BY <2>1, <2>2
<1> QED BY <1>1, <1>2

(* A check that lets the attempt n through keeps the ledger it enters.      *)
LEMMA CheckRecords ==
    ASSUME now \in Nat, NEW w, Ready(w, now), NEW k, NEW S, NEW h,
           Ledger(S, h, w, k, now), ~Blocked(w, k), LoginWindow # 0,
           NEW n, n \notin S, NEW g, g[n].at = now, \A i \in S : g[i].at = h[i].at
    PROVE  Ledger(S \cup {n}, g, Check(w, k), k, now)
<1> DEFINE v == Check(w, k)
<1>0. k \in DOMAIN v
    BY Zenon, CheckOwn
<1> SUFFICES Open(S \cup {n}, g, v[k], now)
    BY <1>0 DEF Ledger
<1>1. CASE Live(w, k)
    <2> DEFINE win == w[k]
    <2>1. Open(S, h, win, now) /\ WindowAt(win, now) /\ now - win.start < LoginWindow
        BY <1>1 DEF Live, Ledger, Ready
    <2>2. v[k] = [win EXCEPT !.count = @ + 1] /\ win.count # 0
        BY <1>1, LiveWindowChecked
    <2> HIDE DEF win
    <2>3. /\ win.start \in Nat /\ win.count \in Nat /\ win.start <= now
          /\ v[k].start = win.start /\ v[k].count = win.count + 1
        BY <2>1, <2>2, ThrottleUnits DEF WindowAt
    <2>4. win.count = 0 => win.start = now
        BY <2>2
    <2> HIDE DEF v
    <2> QED BY <2>1, <2>3, <2>4, RecordedLedger
<1>2. CASE ~Live(w, k)
    <2> DEFINE new == [start |-> now, count |-> 0]
    <2>1. Open(S, h, new, now)
        BY <1>2, NotLiveIsIdle, OpenedLedger
    <2>2. /\ new.start = now /\ new.count = 0
          /\ v[k].start = new.start /\ v[k].count = new.count + 1
        <3>1. v[k] = [start |-> now, count |-> 1]
            BY Zenon, <1>2, NewWindowChecked
        <3> QED BY <3>1
    <2>3. now - new.start < LoginWindow
        BY <2>2, ThrottleUnits
    <2> HIDE DEF new
    <2> QED BY <2>1, <2>2, <2>3, RecordedLedger
<1> QED BY <1>1, <1>2
-----------------------------------------------------------------------------
(* The window counts no attempt that was not made on the key.               *)
Earned(S, h, w, k) == k \in DOMAIN w => w[k].count <= Cardinality(From(S, h, w[k].start))

LEMMA CheckKeepsEarned ==
    ASSUME now \in Nat, NEW w, Ready(w, now), NEW k, NEW j, NEW S, IsFiniteSet(S), NEW h,
           Earned(S, h, w, j), j # k \/ Blocked(w, k)
    PROVE  Earned(S, h, Check(w, k), j)
<1>1. CASE j # k
    BY <1>1, CheckOthers DEF Earned, Live
<1>2. CASE j = k /\ Live(w, k)
    BY ZenonT(60), <1>2, LiveWindowChecked DEF Earned, Live
<1>3. CASE j = k /\ ~Live(w, k)
    <2>1. Check(w, k)[k] = [start |-> now, count |-> 0]
        BY <1>3, NewWindowChecked
    <2>2. Cardinality(From(S, h, now)) \in Nat
        BY PartsFinite
    <2>3. Check(w, k)[k].count <= Cardinality(From(S, h, Check(w, k)[k].start))
        BY <2>1, <2>2
    <2> QED BY <1>3, <2>3 DEF Earned
<1> QED BY Zenon, <1>1, <1>2, <1>3

LEMMA CheckEarns ==
    ASSUME now \in Nat, NEW w, Ready(w, now), NEW k, NEW S, IsFiniteSet(S), NEW h,
           Earned(S, h, w, k), ~Blocked(w, k),
           NEW n, n \notin S, NEW g, g[n].at = now, \A i \in S : g[i].at = h[i].at
    PROVE  Earned(S \cup {n}, g, Check(w, k), k)
<1> DEFINE v == Check(w, k)[k]
<1>1. ASSUME NEW b \in Nat, b <= now
      PROVE  /\ Cardinality(From(S \cup {n}, g, b)) = Cardinality(From(S, h, b)) + 1
             /\ Cardinality(From(S, h, b)) \in Nat
    <2>1. From(S \cup {n}, g, b) = From(S, h, b) \cup {n} /\ n \notin From(S, h, b)
        BY <1>1 DEF From
    <2>2. IsFiniteSet(From(S, h, b)) /\ Cardinality(From(S, h, b)) \in Nat
        BY Zenon, PartsFinite
    <2> QED BY Zenon, <2>1, <2>2, FS_AddElement
<1> SUFFICES v.count <= Cardinality(From(S \cup {n}, g, v.start))
    BY Zenon DEF Earned
<1>2. CASE Live(w, k)
    <2> DEFINE win == w[k]
    <2>1. WindowAt(win, now) /\ win.count <= Cardinality(From(S, h, win.start))
        BY <1>2 DEF Live, Ready, Earned
    <2>2. v = [win EXCEPT !.count = @ + 1]
        BY <1>2, LiveWindowChecked
    <2> HIDE DEF win, v
    <2>3. /\ win.start \in Nat /\ win.start <= now /\ win.count \in Nat
          /\ v.start = win.start /\ v.count = win.count + 1
        BY <2>1, <2>2, ThrottleUnits DEF WindowAt
    <2>4. /\ Cardinality(From(S \cup {n}, g, win.start)) = Cardinality(From(S, h, win.start)) + 1
          /\ Cardinality(From(S, h, win.start)) \in Nat
        BY Zenon, <1>1, <2>3
    <2> QED BY <2>1, <2>3, <2>4
<1>3. CASE ~Live(w, k)
    <2>1. v = [start |-> now, count |-> 1]
        BY Zenon, <1>3, NewWindowChecked
    <2>2. v.start = now /\ v.count = 1
        BY <2>1
    <2>3. /\ Cardinality(From(S \cup {n}, g, now)) = Cardinality(From(S, h, now)) + 1
          /\ Cardinality(From(S, h, now)) \in Nat
        BY <1>1
    <2>4. 1 <= Cardinality(From(S \cup {n}, g, now))
        BY <2>3
    <2> HIDE DEF v
    <2> QED BY Zenon, <2>2, <2>4
<1> QED BY <1>2, <1>3

(* Ledgers read the times of attempts and nothing else of the history.      *)
LEMMA SameTimes ==
    ASSUME NEW S, NEW h, NEW g, \A i \in S : g[i].at = h[i].at, NEW w, NEW k, NEW t
    PROVE  /\ Ledger(S, h, w, k, t) => Ledger(S, g, w, k, t)
           /\ Bounded(S, h) => Bounded(S, g)
           /\ Earned(S, h, w, k) => Earned(S, g, w, k)
<1>1. /\ \A b : From(S, g, b) = From(S, h, b) /\ After(S, g, b) = After(S, h, b)
      /\ \A s, b : Between(S, g, s, b) = Between(S, h, s, b)
      /\ \A s : Spanned(S, g, s) = Spanned(S, h, s)
    BY Zenon DEF From, After, Between, Spanned
<1>2. \A b : Light(S, h, b) => Light(S, g, b)
    BY Zenon, <1>1 DEF Light
<1>3. Ledger(S, h, w, k, t) => Ledger(S, g, w, k, t)
    BY Zenon, <1>1, <1>2 DEF Ledger, Open, Idle
<1> QED BY Zenon, <1>1, <1>3 DEF Bounded, Earned

(* Time passes over a ledger without disturbing it.                         *)
LEMMA LaterLedger ==
    ASSUME NEW S, NEW h, NEW w, NEW k, NEW t \in Nat, Ledger(S, h, w, k, t)
    PROVE  Ledger(S, h, w, k, t + 1)
<1>1. ASSUME k \in DOMAIN w PROVE Open(S, h, w[k], t + 1)
    BY <1>1 DEF Ledger, Open
<1>2. ASSUME k \notin DOMAIN w PROVE Idle(S, h, t + 1)
    <2> DEFINE b == t + 1
    <2>1. Idle(S, h, t)
        BY <1>2 DEF Ledger
    <2>2. \A s \in Int : s > b - LoginWindow => s > t - LoginWindow
        BY ThrottleUnits
    <2>3. b \in Nat /\ \A i \in S : h[i].at \in Nat /\ h[i].at < b
        BY <2>1 DEF Idle
    <2>4. \A s \in Int : Between(S, h, s, b) = Between(S, h, s, t)
        BY <2>1 DEF Idle, Between
    <2> HIDE DEF b
    <2>5. Idle(S, h, b)
        BY Zenon, <2>1, <2>2, <2>3, <2>4 DEF Idle, Light
    <2> QED BY <2>5 DEF b
<1> QED BY Zenon, <1>1, <1>2 DEF Ledger

(* No attempts, nothing to say.                                             *)
LEMMA EmptyLedger ==
    ASSUME NEW h, NEW t \in Nat
    PROVE  Idle({}, h, t) /\ Bounded({}, h)
<1>1. /\ \A s, b : Between({}, h, s, b) = {}
      /\ \A s : Spanned({}, h, s) = {}
    BY DEF Between, Spanned
<1>2. Less(MaxAttempts) >= 0 /\ Burst >= 0
    BY ThrottleUnits
<1> QED BY <1>1, <1>2, FS_EmptySet DEF Idle, Light, Bounded

(* An attempt made now keeps the bound of the ledger it enters: spans that  *)
(* do not reach the present do not see it, the others meet two windows.     *)
LEMMA RecordedBounded ==
    ASSUME NEW t \in Nat, NEW S, NEW h, Bounded(S, h), NEW n, NEW g, g[n].at = t,
           \A i \in S : g[i].at = h[i].at,
           NEW w, Ready(w, t), NEW k \in DOMAIN w, Ledger(S \cup {n}, g, w, k, t)
    PROVE  Bounded(S \cup {n}, g)
<1> SUFFICES ASSUME NEW s \in Nat PROVE Cardinality(Spanned(S \cup {n}, g, s)) <= Burst
    BY Zenon DEF Bounded
<1>1. CASE s > t - LoginWindow
    <2>1. Open(S \cup {n}, g, w[k], t) /\ WindowAt(w[k], t)
        BY Zenon DEF Ledger, Ready
    <2> QED BY Zenon, <1>1, <2>1, LedgerBounds
<1>2. CASE ~(s > t - LoginWindow)
    <2>1. t \notin s..(s + LoginWindow - 1)
        BY <1>2, ThrottleUnits
    <2>2. Spanned(S \cup {n}, g, s) = Spanned(S, h, s)
        BY <2>1 DEF Spanned
    <2> QED BY <2>2 DEF Bounded
<1> QED BY Zenon, <1>1, <1>2
-----------------------------------------------------------------------------
(* The attempts charged to a key: all those of an address, those of a       *)
(* username since its last successful login.                                *)
Charged(k) == IF k \in Addresses THEN FromAddress(k) ELSE SinceSuccess(k)

Subjects == Addresses \cup Usernames

(* The inductive invariant of the throttle.                                 *)
ThrottleInv ==
    /\ now \in Nat
    /\ Ready(windows, now)
    /\ attempts \in Seq(Attempt)
    /\ \A i \in DOMAIN attempts : attempts[i].reset <= Len(attempts)
    /\ LoginWindow # 0 => \A k \in Subjects : /\ Ledger(Charged(k), attempts, windows, k, now)
                                             /\ Bounded(Charged(k), attempts)
    /\ \A u \in Usernames : Earned(OnUsername(u), attempts, windows, u)

(* The attempts are numbered from 1, finitely many, each of its type.       *)
LEMMA History ==
    ASSUME attempts \in Seq(Attempt)
    PROVE  /\ Len(attempts) \in Nat /\ DOMAIN attempts = 1..Len(attempts)
           /\ IsFiniteSet(DOMAIN attempts)
           /\ \A i \in DOMAIN attempts : attempts[i] \in Attempt
           /\ \A k : Charged(k) \subseteq DOMAIN attempts /\ OnUsername(k) \subseteq DOMAIN attempts
<1>1. Len(attempts) \in Nat /\ DOMAIN attempts = 1..Len(attempts)
    OBVIOUS
<1>2. IsFiniteSet(DOMAIN attempts)
    BY <1>1, FS_Interval
<1>3. \A i \in DOMAIN attempts : attempts[i] \in Attempt
    BY <1>1
<1>4. \A k : Charged(k) \subseteq DOMAIN attempts /\ OnUsername(k) \subseteq DOMAIN attempts
    BY Zenon DEF Charged, FromAddress, SinceSuccess, OnUsername
<1> QED BY Zenon, <1>1, <1>2, <1>3, <1>4

(* An attempt that begins is charged to its address and its username, and   *)
(* to no one else.                                                          *)
LEMMA BeginCharges ==
    ASSUME ThrottleInv, NEW a \in Addresses, NEW u \in Usernames,
           attempts' = Append(attempts, [address |-> a, username |-> u, at |-> now,
                                         outcome |-> "pending", reset |-> 0])
    PROVE  LET n == Len(attempts) + 1
           IN  /\ attempts' \in Seq(Attempt)
               /\ n \notin DOMAIN attempts
               /\ attempts'[n].at = now
               /\ \A i \in DOMAIN attempts : attempts'[i] = attempts[i]
               /\ \A i \in DOMAIN attempts' : attempts'[i].reset <= Len(attempts')
               /\ \A k \in Subjects :
                     Charged(k)' = IF k \in {a, u} THEN Charged(k) \cup {n} ELSE Charged(k)
               /\ \A x \in Usernames : OnUsername(x)' =
                     IF x = u THEN OnUsername(x) \cup {n} ELSE OnUsername(x)
<1> DEFINE n == Len(attempts) + 1
           e == [address |-> a, username |-> u, at |-> now, outcome |-> "pending", reset |-> 0]
<1>0. /\ now \in Nat /\ attempts \in Seq(Attempt)
      /\ \A i \in DOMAIN attempts : attempts[i].reset <= Len(attempts)
    BY DEF ThrottleInv
<1>1. /\ Len(attempts) \in Nat /\ DOMAIN attempts = 1..Len(attempts)
      /\ \A i \in DOMAIN attempts : attempts[i].reset \in Nat
    BY Zenon, <1>0, History DEF Attempt
<1>2. /\ e \in Attempt
      /\ e.address = a /\ e.username = u /\ e.at = now /\ e.reset = 0
    BY Zenon, <1>0 DEF Attempt
<1> HIDE DEF e
<1>3. /\ attempts' \in Seq(Attempt) /\ Len(attempts') = n
      /\ \A i \in 1..Len(attempts) : attempts'[i] = attempts[i]
      /\ attempts'[n] = e
    BY <1>0, <1>2 DEF e
<1>4. DOMAIN attempts' = DOMAIN attempts \cup {n} /\ n \notin DOMAIN attempts /\ n \in Nat
    <2>1. DOMAIN attempts' = 1..n
        BY <1>3
    <2> QED BY <1>1, <2>1
<1>5. /\ \A i \in DOMAIN attempts :
            attempts'[i] = attempts[i] /\ i < n /\ attempts[i].reset < n /\ i \in Nat /\ i > 0
      /\ \A i \in DOMAIN attempts' : attempts'[i].reset <= n
    BY <1>0, <1>1, <1>2, <1>3, <1>4
<1> HIDE DEF n
<1>6. ASSUME NEW x
      PROVE  /\ FromAddress(x)' = IF x = a THEN FromAddress(x) \cup {n} ELSE FromAddress(x)
             /\ OnUsername(x)' = IF x = u THEN OnUsername(x) \cup {n} ELSE OnUsername(x)
    BY <1>2, <1>3, <1>4, <1>5 DEF FromAddress, OnUsername
<1>7. ASSUME NEW x
      PROVE  SinceSuccess(x)' = IF x = u THEN SinceSuccess(x) \cup {n} ELSE SinceSuccess(x)
    <2>1. OnUsername(x) \subseteq DOMAIN attempts
        BY Zenon DEF OnUsername
    <2>2. CASE x = u
        <3>1. \A i \in OnUsername(x)' : (\A j \in OnUsername(x)' : i > attempts'[j].reset)
                  <=> (i = n \/ \A j \in OnUsername(x) : i > attempts[j].reset)
            BY <1>2, <1>3, <1>4, <1>5, <1>6, <2>1, <2>2
        <3> QED BY Zenon, <1>6, <2>2, <3>1, <2>1, <1>4 DEF SinceSuccess
    <2>3. CASE x # u
        BY <1>5, <1>6, <2>1, <2>3 DEF SinceSuccess
    <2> QED BY Zenon, <2>2, <2>3
<1>8. a \notin Usernames /\ u \notin Addresses
    BY Zenon, ThrottleAssumption
<1>9. \A k \in Subjects : Charged(k)' = IF k \in {a, u} THEN Charged(k) \cup {n} ELSE Charged(k)
    BY Zenon, <1>6, <1>7, <1>8 DEF Charged, Subjects
<1> QED BY <1>2, <1>3, <1>4, <1>5, <1>6, <1>9 DEF n

(* What becomes of an attempt changes no time; a success withdraws what was *)
(* charged to the username, and nothing else.                               *)
LEMMA OutcomeCharges ==
    ASSUME ThrottleInv, NEW i \in DOMAIN attempts, Fail(i) \/ Succeed(i)
    PROVE  /\ attempts' \in Seq(Attempt)
           /\ \A j \in DOMAIN attempts : attempts'[j].at = attempts[j].at
           /\ \A j \in DOMAIN attempts' : attempts'[j].reset <= Len(attempts')
           /\ \A u \in Usernames : OnUsername(u)' = OnUsername(u)
           /\ \A k \in Subjects : Charged(k)' =
                 IF Succeed(i) /\ k = attempts[i].username THEN {} ELSE Charged(k)
<1> DEFINE N == Len(attempts)
<1>0. PICK name : name = attempts[i].username
    OBVIOUS
<1>1. /\ N \in Nat /\ DOMAIN attempts = 1..N
      /\ \A j \in DOMAIN attempts : attempts[j] \in Attempt /\ attempts[j].reset <= N
      /\ attempts \in Seq(Attempt)
    BY History DEF ThrottleInv
<1>2. PICK e \in Attempt :
         /\ attempts' = [attempts EXCEPT ![i] = e]
         /\ e.address = attempts[i].address /\ e.username = attempts[i].username /\ e.at = attempts[i].at
         /\ Fail(i) => e.reset = attempts[i].reset
         /\ Succeed(i) => e.reset = N
    <2> DEFINE f == [attempts[i] EXCEPT !.outcome = "failed"]
               s == [attempts[i] EXCEPT !.outcome = "succeeded", !.reset = N]
    <2>1. attempts[i] \in Attempt
        BY <1>1
    <2>2. /\ f \in Attempt /\ f.address = attempts[i].address /\ f.username = attempts[i].username
          /\ f.at = attempts[i].at /\ f.reset = attempts[i].reset /\ f.outcome = "failed"
        BY <2>1 DEF Attempt
    <2>3. /\ s \in Attempt /\ s.address = attempts[i].address /\ s.username = attempts[i].username
          /\ s.at = attempts[i].at /\ s.reset = N /\ s.outcome = "succeeded"
        BY Zenon, <1>1, <2>1 DEF Attempt
    <2>4. Fail(i) => attempts' = [attempts EXCEPT ![i] = f]
        BY DEF Fail
    <2>5. Succeed(i) => attempts' = [attempts EXCEPT ![i] = s]
        BY Zenon DEF Succeed
    <2> HIDE DEF f, s
    <2>6. ~(Fail(i) /\ Succeed(i))
        <3>1. attempts'[i] = f /\ attempts'[i] = s => FALSE
            BY Zenon, <2>2, <2>3
        <3> QED BY <2>4, <2>5, <3>1
    <2> QED BY <2>2, <2>3, <2>4, <2>5, <2>6
<1>3. /\ attempts' \in Seq(Attempt) /\ Len(attempts') = N
      /\ \A j \in 1..N : attempts'[j] = IF j = i THEN e ELSE attempts[j]
    BY <1>1, <1>2
<1>4. DOMAIN attempts' = DOMAIN attempts
    BY <1>1, <1>3
<1>5. e.reset <= N /\ e.reset \in Nat /\ attempts[i].reset \in Nat
    BY <1>1, <1>2 DEF Attempt
<1>6. ASSUME NEW j \in DOMAIN attempts
      PROVE  /\ attempts'[j].at = attempts[j].at
             /\ attempts'[j].address = attempts[j].address
             /\ attempts'[j].username = attempts[j].username
             /\ attempts[j].username # name => attempts'[j] = attempts[j]
             /\ attempts'[j].reset <= N
    BY Zenon, <1>0, <1>1, <1>2, <1>3, <1>5
<1>7. ASSUME NEW x
      PROVE  /\ FromAddress(x)' = FromAddress(x)
             /\ OnUsername(x)' = OnUsername(x)
    <2>1. FromAddress(x)' = {j \in DOMAIN attempts : attempts'[j].address = x}
        BY Zenon, <1>4 DEF FromAddress
    <2>2. OnUsername(x)' = {j \in DOMAIN attempts : attempts'[j].username = x}
        BY Zenon, <1>4 DEF OnUsername
    <2> QED BY Zenon, <1>6, <2>1, <2>2 DEF FromAddress, OnUsername
<1>8. ASSUME NEW x, \A j \in OnUsername(x) : attempts'[j].reset = attempts[j].reset
      PROVE  SinceSuccess(x)' = SinceSuccess(x)
    BY <1>7, <1>8 DEF SinceSuccess
<1>9. ASSUME NEW x, x # name \/ Fail(i)
      PROVE  SinceSuccess(x)' = SinceSuccess(x)
    <2>1. \A j \in OnUsername(x) : j \in DOMAIN attempts /\ attempts[j].username = x
        BY Zenon DEF OnUsername
    <2>2. \A j \in OnUsername(x) : attempts'[j].reset = attempts[j].reset
        BY Zenon, <1>0, <1>1, <1>2, <1>3, <1>6, <1>9, <2>1
    <2> QED BY Zenon, <1>8, <2>2
<1>10. ASSUME Succeed(i) PROVE SinceSuccess(name)' = {}
    <2>1. i \in OnUsername(name) /\ attempts'[i].reset = N
        BY Zenon, <1>0, <1>1, <1>2, <1>3, <1>10 DEF OnUsername
    <2>2. \A j \in OnUsername(name) : ~(j > N)
        BY <1>1 DEF OnUsername
    <2>3. OnUsername(name)' = OnUsername(name)
        BY Zenon, <1>7
    <2> QED BY Zenon, <2>1, <2>2, <2>3 DEF SinceSuccess
<1>11. name \in Usernames /\ name \notin Addresses
    BY Zenon, <1>0, <1>1, ThrottleAssumption DEF Attempt
<1>12. ASSUME NEW k \in Subjects
       PROVE  Charged(k)' = IF Succeed(i) /\ k = name THEN {} ELSE Charged(k)
    <2>1. CASE k \in Addresses
        BY Zenon, <1>7, <1>11, <2>1 DEF Charged
    <2>2. CASE k \notin Addresses /\ (k # name \/ ~Succeed(i))
        <3>1. SinceSuccess(k)' = SinceSuccess(k)
            BY Zenon, <1>9, <2>2
        <3> QED BY Zenon, <2>2, <3>1 DEF Charged
    <2>3. CASE k \notin Addresses /\ k = name /\ Succeed(i)
        BY Zenon, <1>10, <2>3 DEF Charged
    <2> QED BY <2>1, <2>2, <2>3
<1>13. \A j \in DOMAIN attempts' : attempts'[j].reset <= Len(attempts')
    BY Zenon, <1>3, <1>4, <1>6
<1> QED BY <1>0, <1>3, <1>6, <1>7, <1>12, <1>13
-----------------------------------------------------------------------------
(* A check, of whatever key, that records no attempt.                       *)
LEMMA RefuseKeeps ==
    ASSUME ThrottleInv, NEW a \in Addresses, NEW u \in Usernames, Refuse(a, u)
    PROVE  ThrottleInv'
<1> DEFINE v == Check(windows, a)
<1>0. /\ now \in Nat /\ now' = now /\ attempts' = attempts /\ attempts \in Seq(Attempt)
      /\ Ready(windows, now)
      /\ \A k : Charged(k)' = Charged(k) /\ OnUsername(k)' = OnUsername(k)
    <2>1. now' = now /\ attempts' = attempts
        BY DEF Refuse
    <2> QED BY Zenon, <2>1 DEF ThrottleInv, Charged, FromAddress, OnUsername, SinceSuccess
<1>1. Ready(v, now)
    BY Zenon, <1>0, CheckReady
<1>2. \A k \in Subjects : Ledger(Charged(k), attempts, windows, k, now)
                            => Ledger(Charged(k), attempts, v, k, now)
    BY Zenon, <1>0, CheckKeepsLedger
<1>3. \A x \in Usernames : Earned(OnUsername(x), attempts, v, x)
    <2> SUFFICES ASSUME NEW x \in Usernames PROVE Earned(OnUsername(x), attempts, v, x)
        BY Zenon
    <2>1. x # a /\ IsFiniteSet(OnUsername(x))
        BY Zenon, <1>0, ThrottleAssumption, History, FS_Subset
    <2>2. Earned(OnUsername(x), attempts, windows, x)
        BY Zenon DEF ThrottleInv
    <2> QED BY Zenon, <1>0, <2>1, <2>2, CheckKeepsEarned
<1>4. CASE windows' = v
    BY Zenon, <1>0, <1>1, <1>2, <1>3, <1>4 DEF ThrottleInv
<1>5. CASE Blocked(v, u) /\ windows' = Check(v, u)
    <2>1. Ready(windows', now)
        BY Zenon, <1>0, <1>1, <1>5, CheckReady
    <2>2. \A k \in Subjects : Ledger(Charged(k), attempts, v, k, now)
                                => Ledger(Charged(k), attempts, windows', k, now)
        BY Zenon, <1>0, <1>1, <1>5, CheckKeepsLedger
    <2>3. \A x \in Usernames : Earned(OnUsername(x), attempts, windows', x)
        <3> SUFFICES ASSUME NEW x \in Usernames PROVE Earned(OnUsername(x), attempts, windows', x)
            OBVIOUS
        <3>1. IsFiniteSet(OnUsername(x))
            BY Zenon, <1>0, History, FS_Subset
        <3> QED BY <1>0, <1>1, <1>3, <1>5, <3>1, CheckKeepsEarned
    <2> HIDE DEF v
    <2> QED BY Zenon, <1>0, <1>2, <2>1, <2>2, <2>3 DEF ThrottleInv
<1> QED BY Zenon, <1>4, <1>5 DEF Refuse

(* An attempt that is let through enters two ledgers.                       *)
LEMMA BeginKeeps ==
    ASSUME ThrottleInv, NEW a \in Addresses, NEW u \in Usernames, Begin(a, u)
    PROVE  ThrottleInv'
<1> DEFINE v == Check(windows, a)
           z == Check(v, u)
           n == Len(attempts) + 1
<1>0. /\ now \in Nat /\ now' = now /\ attempts \in Seq(Attempt) /\ Ready(windows, now)
      /\ ~Blocked(windows, a) /\ ~Blocked(v, u) /\ windows' = z
      /\ a # u /\ a \in Subjects /\ u \in Subjects /\ u \notin Addresses
    BY ThrottleAssumption DEF ThrottleInv, Begin, Subjects
<1>1. /\ attempts' \in Seq(Attempt)
      /\ n \notin DOMAIN attempts
      /\ attempts'[n].at = now
      /\ \A i \in DOMAIN attempts : attempts'[i] = attempts[i]
      /\ \A i \in DOMAIN attempts' : attempts'[i].reset <= Len(attempts')
      /\ \A k \in Subjects : Charged(k)' = IF k \in {a, u} THEN Charged(k) \cup {n} ELSE Charged(k)
      /\ \A x \in Usernames : OnUsername(x)' =
            IF x = u THEN OnUsername(x) \cup {n} ELSE OnUsername(x)
    BY BeginCharges DEF Begin
<1>2. Ready(v, now) /\ Ready(z, now)
    BY <1>0, CheckReady
<1>3. a \in DOMAIN v /\ u \in DOMAIN z
    BY Zenon, <1>0, <1>2, CheckOwn
<1> HIDE DEF n
<1>4. ASSUME NEW k
      PROVE  /\ n \notin Charged(k) /\ n \notin OnUsername(k) /\ IsFiniteSet(OnUsername(k))
             /\ \A i \in Charged(k) \cup OnUsername(k) : attempts'[i].at = attempts[i].at
    BY <1>0, <1>1, History, FS_Subset
<1>5. ASSUME LoginWindow # 0, NEW k \in Subjects
      PROVE  Ledger(Charged(k)', attempts', z, k, now) /\ Bounded(Charged(k)', attempts')
    <2>1. Ledger(Charged(k), attempts, windows, k, now) /\ Bounded(Charged(k), attempts)
        BY <1>5 DEF ThrottleInv
    <2>2. CASE k = a
        <3>1. Charged(k)' = Charged(k) \cup {n}
            BY Zenon, <1>1, <2>2
        <3>2. Ledger(Charged(k) \cup {n}, attempts', v, k, now)
            BY Zenon, <1>0, <1>1, <1>4, <1>5, <2>1, <2>2, CheckRecords
        <3>3. Ledger(Charged(k) \cup {n}, attempts', z, k, now)
            BY ZenonT(40), <1>0, <1>2, <3>2, CheckKeepsLedger
        <3>4. Bounded(Charged(k) \cup {n}, attempts')
            <4> HIDE DEF v
            <4> QED BY <1>0, <1>1, <1>2, <1>3, <1>4, <2>1, <2>2, <3>2, RecordedBounded
        <3> QED BY <3>1, <3>3, <3>4
    <2>3. CASE k = u
        <3>1. Charged(k)' = Charged(k) \cup {n}
            BY Zenon, <1>1, <2>3
        <3>2. Ledger(Charged(k), attempts, v, k, now)
            BY Zenon, <1>0, <2>1, CheckKeepsLedger
        <3>3. Ledger(Charged(k) \cup {n}, attempts', z, k, now)
            <4> HIDE DEF v
            <4> QED BY ZenonT(40), <1>0, <1>1, <1>2, <1>4, <1>5, <2>3, <3>2, CheckRecords
        <3>4. Bounded(Charged(k) \cup {n}, attempts')
            <4> HIDE DEF z
            <4> QED BY <1>0, <1>1, <1>2, <1>3, <1>4, <2>1, <2>3, <3>3, RecordedBounded
        <3> QED BY <3>1, <3>3, <3>4
    <2>4. CASE k \notin {a, u}
        <3>1. Charged(k)' = Charged(k)
            BY <1>1, <2>4
        <3>2. Ledger(Charged(k), attempts, v, k, now)
            BY <1>0, <2>1, CheckKeepsLedger
        <3>3. Ledger(Charged(k), attempts, z, k, now)
            BY <1>0, <1>2, <3>2, CheckKeepsLedger
        <3>4. \A i \in Charged(k) : attempts'[i].at = attempts[i].at
            BY <1>4
        <3> QED BY ZenonT(60), <2>1, <3>1, <3>3, <3>4, SameTimes
    <2> QED BY <2>2, <2>3, <2>4
<1>6. ASSUME NEW x \in Usernames
      PROVE  Earned(OnUsername(x)', attempts', z, x)
    <2>1. Earned(OnUsername(x), attempts, windows, x) /\ x # a
        BY ThrottleAssumption DEF ThrottleInv
    <2>2. Earned(OnUsername(x), attempts, v, x)
        BY <1>0, <1>4, <2>1, CheckKeepsEarned
    <2> HIDE DEF v
    <2>3. CASE x = u
        <3>1. OnUsername(x)' = OnUsername(x) \cup {n}
            BY <1>1, <2>3
        <3>2. Earned(OnUsername(x) \cup {n}, attempts', z, x)
            BY Zenon, <1>0, <1>1, <1>2, <1>4, <2>2, <2>3, CheckEarns
        <3> QED BY <3>1, <3>2
    <2>4. CASE x # u
        <3>1. OnUsername(x)' = OnUsername(x)
            BY <1>1, <2>4
        <3>2. Earned(OnUsername(x), attempts, z, x)
            BY <1>0, <1>2, <1>4, <2>2, <2>4, CheckKeepsEarned
        <3>3. \A i \in OnUsername(x) : attempts'[i].at = attempts[i].at
            BY <1>4
        <3> QED BY ZenonT(40), <3>1, <3>2, <3>3, SameTimes
    <2> QED BY <2>3, <2>4
<1> HIDE DEF z
<1> QED BY Zenon, <1>0, <1>1, <1>2, <1>5, <1>6 DEF ThrottleInv

(* An outcome leaves every ledger alone, but for the one that a success     *)
(* empties together with its window.                                        *)
LEMMA OutcomeKeeps ==
    ASSUME ThrottleInv, NEW i \in DOMAIN attempts, Fail(i) \/ Succeed(i)
    PROVE  ThrottleInv'
<1>0. PICK name : name = attempts[i].username
    OBVIOUS
<1>1. /\ attempts' \in Seq(Attempt)
      /\ \A j \in DOMAIN attempts : attempts'[j].at = attempts[j].at
      /\ \A j \in DOMAIN attempts' : attempts'[j].reset <= Len(attempts')
      /\ \A u \in Usernames : OnUsername(u)' = OnUsername(u)
      /\ \A k \in Subjects : Charged(k)' = IF Succeed(i) /\ k = name THEN {} ELSE Charged(k)
    BY <1>0, OutcomeCharges
<1>2. now' = now /\ now \in Nat /\ attempts \in Seq(Attempt)
    BY DEF Fail, Succeed, ThrottleInv
<1>3. /\ \A k : k # name => (k \in DOMAIN windows' <=> k \in DOMAIN windows)
      /\ \A k \in DOMAIN windows' : k \in DOMAIN windows /\ windows'[k] = windows[k]
      /\ Succeed(i) => name \notin DOMAIN windows'
      /\ ~Succeed(i) => windows' = windows
    BY <1>0 DEF Fail, Succeed, Reset, Without
<1>4. Ready(windows', now)
    BY <1>3 DEF Ready, ThrottleInv
<1>5. ASSUME LoginWindow # 0, NEW k \in Subjects
      PROVE  Ledger(Charged(k)', attempts', windows', k, now) /\ Bounded(Charged(k)', attempts')
    <2>1. Ledger(Charged(k), attempts, windows, k, now) /\ Bounded(Charged(k), attempts)
        BY Zenon, <1>5 DEF ThrottleInv
    <2>2. CASE Succeed(i) /\ k = name
        <3>1. Charged(k)' = {} /\ k \notin DOMAIN windows'
            BY Zenon, <1>1, <1>3, <2>2
        <3> QED BY Zenon, <1>2, <3>1, EmptyLedger DEF Ledger
    <2>3. CASE ~(Succeed(i) /\ k = name)
        <3>1. Charged(k)' = Charged(k)
            BY Zenon, <1>1, <2>3
        <3>2. Ledger(Charged(k), attempts, windows', k, now)
            BY Zenon, <1>3, <2>1, <2>3 DEF Ledger
        <3>3. \A j \in Charged(k) : attempts'[j].at = attempts[j].at
            BY Zenon, <1>1, <1>2, History
        <3> QED BY <2>1, <3>1, <3>2, <3>3, SameTimes
    <2> QED BY Zenon, <2>2, <2>3
<1>6. ASSUME NEW u \in Usernames
      PROVE  Earned(OnUsername(u)', attempts', windows', u)
    <2>1. Earned(OnUsername(u), attempts, windows', u)
        BY <1>3 DEF ThrottleInv, Earned
    <2>2. \A j \in OnUsername(u) : attempts'[j].at = attempts[j].at
        BY <1>1, <1>2, History
    <2>3. Earned(OnUsername(u), attempts', windows', u)
        BY Zenon, <2>1, <2>2, SameTimes
    <2>4. OnUsername(u)' = OnUsername(u)
        BY Zenon, <1>1
    <2> QED BY Zenon, <2>3, <2>4
<1> QED BY <1>1, <1>2, <1>4, <1>5, <1>6 DEF ThrottleInv

(* The throttle's invariant holds at first and is kept by every step.       *)
LEMMA ThrottleInductive ==
    /\ LoginInit => ThrottleInv
    /\ ThrottleInv /\ [LoginNext]_loginVars => ThrottleInv'
<1>1. ASSUME LoginInit PROVE ThrottleInv
    <2>1. /\ now = 0 /\ DOMAIN windows = {} /\ attempts = <<>> /\ DOMAIN attempts = {}
          /\ attempts \in Seq(Attempt)
        BY <1>1 DEF LoginInit
    <2>2. \A k : Charged(k) = {}
        BY <2>1, History
    <2>3. \A k : Ledger({}, attempts, windows, k, now) /\ Bounded({}, attempts)
        BY <2>1, EmptyLedger DEF Ledger
    <2> QED BY <2>1, <2>2, <2>3 DEF ThrottleInv, Ready, Earned
<1>2. ASSUME ThrottleInv, [LoginNext]_loginVars PROVE ThrottleInv'
    <2>1. CASE LoginTick
        <3>1. now \in Nat /\ now' = now + 1 /\ windows' = windows /\ attempts' = attempts
            BY <1>2, <2>1 DEF LoginTick, Passes, ThrottleInv
        <3>2. \A k : Charged(k)' = Charged(k) /\ OnUsername(k)' = OnUsername(k)
            BY <3>1 DEF Charged, FromAddress, OnUsername, SinceSuccess
        <3>3. Ready(windows, now + 1)
            <4>1. \A j \in DOMAIN windows : WindowAt(windows[j], now)
                BY <1>2 DEF ThrottleInv, Ready
            <4>2. ASSUME NEW win, WindowAt(win, now) PROVE WindowAt(win, now + 1)
                BY <3>1, <4>2 DEF WindowAt
            <4> QED BY <4>1, <4>2 DEF Ready
        <3>4. \A k \in Subjects : Ledger(Charged(k), attempts, windows, k, now)
                                    => Ledger(Charged(k), attempts, windows, k, now + 1)
            BY Zenon, <3>1, LaterLedger
        <3> QED BY <1>2, <3>1, <3>2, <3>3, <3>4 DEF ThrottleInv
    <2>2. CASE UNCHANGED loginVars
        <3>1. now' = now /\ windows' = windows /\ attempts' = attempts
            BY <2>2 DEF loginVars
        <3>2. \A k : Charged(k)' = Charged(k) /\ OnUsername(k)' = OnUsername(k)
            BY <3>1 DEF Charged, FromAddress, OnUsername, SinceSuccess
        <3> QED BY <1>2, <3>1, <3>2 DEF ThrottleInv
    <2> QED BY <1>2, <2>1, <2>2, RefuseKeeps, BeginKeeps, OutcomeKeeps DEF LoginNext
<1> QED BY <1>1, <1>2

(* A login attempt reaches the password check at most 2 * max_attempts - 1  *)
(* times in any span as long as the window, from one address, or on one     *)
(* username between successes: for every limit and window, and any number   *)
(* of addresses, usernames and attempts under way.                          *)
THEOREM LoginsAlwaysBounded == LoginSpec => []LoginsBounded
<1>1. ThrottleInv => LoginsBounded
    <2> SUFFICES ASSUME ThrottleInv PROVE LoginsBounded
        OBVIOUS
    <2>1. ASSUME NEW k \in Subjects, NEW s \in 0..now
          PROVE  Cardinality(Within(Charged(k), s)) <= Burst
        <3>1. Within(Charged(k), s) = Spanned(Charged(k), attempts, s)
            BY Zenon DEF Within, Spanned
        <3>2. s \in Nat
            BY DEF ThrottleInv
        <3>3. CASE LoginWindow # 0
            BY Zenon, <3>1, <3>2, <3>3 DEF ThrottleInv, Bounded
        <3>4. CASE LoginWindow = 0
            <4>1. Spanned(Charged(k), attempts, s) = {}
                BY <3>2, <3>4 DEF Spanned
            <4> QED BY <3>1, <4>1, FS_EmptySet, ThrottleUnits
        <3> QED BY Zenon, <3>3, <3>4
    <2>2. \A a \in Addresses : Charged(a) = FromAddress(a)
        BY DEF Charged
    <2>3. \A u \in Usernames : Charged(u) = SinceSuccess(u)
        BY ThrottleAssumption DEF Charged
    <2>4. AddressBounded
        BY Zenon, <2>1, <2>2 DEF AddressBounded, Subjects
    <2>5. UsernameBounded
        BY Zenon, <2>1, <2>3 DEF UsernameBounded, Subjects
    <2> QED BY <2>4, <2>5 DEF LoginsBounded
<1> QED BY <1>1, ThrottleInductive, PTL DEF LoginSpec

(* A username is blocked only by as many attempts on it, within the last    *)
(* window, as the limit allows: attempts refused for their address are not  *)
(* charged to it.                                                           *)
THEOREM BlocksAreEarned == LoginSpec => []BlockEarned
<1>1. ThrottleInv => BlockEarned
    <2> SUFFICES ASSUME ThrottleInv, NEW u \in Usernames, Blocked(windows, u)
                 PROVE  Cardinality({i \in OnUsername(u) : now - attempts[i].at < LoginWindow})
                           >= MaxAttempts
        BY Zenon DEF BlockEarned
    <2> DEFINE recent == {i \in OnUsername(u) : now - attempts[i].at < LoginWindow}
    <2>1. /\ now \in Nat /\ Ready(windows, now) /\ attempts \in Seq(Attempt)
          /\ Earned(OnUsername(u), attempts, windows, u)
        BY Zenon DEF ThrottleInv
    <2>2. IsFiniteSet(OnUsername(u)) /\ \A i \in OnUsername(u) : attempts[i].at \in Nat
        BY Zenon, <2>1, History, FS_Subset DEF Attempt
    <2>3. IsFiniteSet(recent) /\ Cardinality(recent) \in Nat
        BY Zenon, <2>2, FS_Subset, FS_CardinalityType
    <2>4. CASE Live(windows, u)
        <3> DEFINE win == windows[u]
                   b == win.start
        <3>0. WindowAt(win, now) /\ now - b < LoginWindow
              /\ win.count <= Cardinality(From(OnUsername(u), attempts, b))
            BY <2>1, <2>4 DEF Live, Earned, Ready
        <3>1. win.count >= MaxAttempts
            BY Zenon, <2>1, <2>4, CheckOwn
        <3> HIDE DEF win
        <3>2. b \in Nat /\ win.count \in Nat
            BY <3>0, ThrottleUnits DEF WindowAt
        <3> HIDE DEF b
        <3>4. From(OnUsername(u), attempts, b) \subseteq recent
            <4>1. ASSUME NEW i \in OnUsername(u), attempts[i].at >= b
                  PROVE  now - attempts[i].at < LoginWindow
                <5>1. attempts[i].at \in Nat
                    BY <2>2
                <5>2. now \in Nat /\ b \in Nat /\ LoginWindow \in Nat /\ now - b < LoginWindow
                    BY <2>1, <3>0, <3>2, ThrottleUnits
                <5> QED BY <4>1, <5>1, <5>2
            <4> QED BY <4>1 DEF From
        <3>3. Cardinality(From(OnUsername(u), attempts, b)) <= Cardinality(recent)
              /\ Cardinality(From(OnUsername(u), attempts, b)) \in Nat
            BY <2>3, <3>4, FS_Subset, FS_CardinalityType
        <3> QED BY <2>3, <3>0, <3>1, <3>2, <3>3, ThrottleUnits
    <2>5. CASE ~Live(windows, u)
        BY <2>1, <2>3, <2>5, NewWindowChecked
    <2> QED BY Zenon, <2>4, <2>5
<1> QED BY <1>1, ThrottleInductive, PTL DEF LoginSpec
=============================================================================
