-------------------------------- MODULE MCIpc -------------------------------
(* Ipc with small constants; see the MCIpc*.cfg files. *)
EXTENDS Ipc, TLC

Symmetry == Permutations(Reqs)
=============================================================================
