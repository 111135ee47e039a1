------------------------ MODULE MCInstallationProxy ------------------------
(***************************************************************************)
(* InstallationProxy on small instances.                                   *)
(***************************************************************************)
EXTENDS InstallationProxy, TLC

Symmetry == Permutations(Threads)
============================================================================
