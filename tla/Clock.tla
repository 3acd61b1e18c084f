------------------------------- MODULE Clock --------------------------------
(***************************************************************************)
(* The clock the components read, in steps of an instance's choice.        *)
(***************************************************************************)
EXTENDS Integers

VARIABLE now

(* Time passes, up to the bound of an instance.                             *)
Passes(bound) == now < bound /\ now' = now + 1
=============================================================================
