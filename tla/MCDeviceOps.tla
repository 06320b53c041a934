---------------------------- MODULE MCDeviceOps ----------------------------
(* Instance of DeviceOps for TLC: its calls are interchangeable.           *)
EXTENDS DeviceOps, TLC

CallSymmetry == Permutations(Calls)
=============================================================================
