-------------------------- MODULE MCHelperScripts --------------------------
(***************************************************************************)
(* Two client names and three key pairs on two addresses: enough for a     *)
(* second client beside a torn first one.                                  *)
(***************************************************************************)
EXTENDS HelperScripts, TLC

Interchangeable == Permutations(Keys) \cup Permutations(Devices)
=============================================================================
