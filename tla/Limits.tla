------------------------------- MODULE Limits -------------------------------
(***************************************************************************)
(* The two limiters of a server: TokenBucket and LoginThrottle share the   *)
(* clock and nothing else, so a behaviour exercises one of them, chosen at *)
(* the start.                                                              *)
(***************************************************************************)
EXTENDS TokenBucket, LoginThrottle

VARIABLE subject

LimitsInit == BucketInit /\ LoginInit /\ subject \in {"requests", "logins"}

LimitsNext ==
    \/ /\ subject = "requests"
       /\ BucketNext
       /\ UNCHANGED <<windows, attempts, subject>>
    \/ /\ subject = "logins"
       /\ LoginNext
       /\ UNCHANGED <<buckets, since, passed, told, subject>>

LimitsSpec == LimitsInit /\ [][LimitsNext]_<<bucketVars, windows, attempts, subject>>
=============================================================================
