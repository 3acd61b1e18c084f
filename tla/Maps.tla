-------------------------------- MODULE Maps --------------------------------
(***************************************************************************)
(* Python dictionaries as functions: an insert or overwrite, a delete, and *)
(* the sweep that every in-memory store of the server runs on each call.   *)
(***************************************************************************)

With(f, x, v) == [y \in DOMAIN f \cup {x} |-> IF y = x THEN v ELSE f[y]]

Without(f, gone) == [x \in DOMAIN f \ gone |-> f[x]]
=============================================================================
