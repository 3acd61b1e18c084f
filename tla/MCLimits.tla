------------------------------ MODULE MCLimits ------------------------------
(***************************************************************************)
(* A small instance of the two limiters for TLC.                           *)
(***************************************************************************)
EXTENDS Limits, TLC

Symmetry == Permutations(Addresses) \cup Permutations(Usernames)
=============================================================================
