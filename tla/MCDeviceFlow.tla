---------------------------- MODULE MCDeviceFlow ----------------------------
(* Small instances of DeviceFlow for TLC.                                   *)
EXTENDS DeviceFlow, TLC

RequestSymmetry == Permutations(Requests)
=============================================================================
