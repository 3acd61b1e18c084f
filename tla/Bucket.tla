------------------------------- MODULE Bucket -------------------------------
(***************************************************************************)
(* What a token-bucket rate limiter promises: every key has a level that   *)
(* fills up to Cap as time goes by, a request is let through only when the *)
(* level pays for it, and no key is ever forgotten.                        *)
(***************************************************************************)
EXTENDS Integers

CONSTANTS Keys,
          Rate,   \* what a key gains with each step of the clock
          Cost    \* what a request pays

Cap == Rate * Cost

AtMostCap(x) == IF x <= Cap THEN x ELSE Cap

VARIABLE level

BucketInit == level = [k \in Keys |-> Cap]

Fill == level' = [k \in Keys |-> AtMostCap(level[k] + Rate)]

Pass(k) ==
    /\ level[k] >= Cost
    /\ level' = [level EXCEPT ![k] = @ - Cost]

BucketNext == Fill \/ \E k \in Keys : Pass(k)

BucketSpec == BucketInit /\ [][BucketNext]_level
=============================================================================
