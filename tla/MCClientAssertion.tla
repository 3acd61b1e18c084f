-------------------------- MODULE MCClientAssertion --------------------------
(* Small instances of ClientAssertion for TLC.                              *)
EXTENDS ClientAssertion, TLC

Symmetry == Permutations(Jtis) \cup Permutations(Kids) \cup Permutations(Fetchers)
=============================================================================
