----------------------------- MODULE MCSupervisor -----------------------------
(* Instances of the supervisor for model checking.                         *)
EXTENDS Supervisor, TLC

Symmetry == Permutations(Calls)
=============================================================================
