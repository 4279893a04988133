-------------------------- MODULE MCDeviceCleanup --------------------------
(***************************************************************************)
(* Two profiles; a period of one tick watched with a gap of one: a profile *)
(* is due at the second observation without activity.                      *)
(***************************************************************************)
EXTENDS DeviceCleanup, TLC

Interchangeable == Permutations(Devices)
=============================================================================
