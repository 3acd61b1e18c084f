----------------------------- MODULE MCAccounts -----------------------------
(* A small instance of Accounts for TLC.                                    *)
EXTENDS Accounts, TLC

(* A client with a secret, one with its own keys, and an empty document.    *)
SomeForms ==
    {[method |-> "secret", jwks |-> "keys", jwks_uri |-> FALSE],
     [method |-> "key", jwks |-> "empty", jwks_uri |-> FALSE]}

Toggle == {[enabled |-> FALSE]}

(* The bodies that are harmless alone and not together.                     *)
Rekey ==
    {[enabled |-> FALSE], [method |-> "key"], [jwks |-> FALSE]}

RequestSymmetry == Permutations(Requests)
=============================================================================
