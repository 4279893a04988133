---------------------- MODULE MCInfrastructureAdoption ----------------------
(***************************************************************************)
(* A peer to adopt beside another personal or claimed one.                 *)
(***************************************************************************)
EXTENDS InfrastructureAdoption, TLC

Interchangeable == Permutations(Peers)
=============================================================================
