------------------------------- MODULE MCLockdown -------------------------------
(***************************************************************************)
(* Lockdown on small instances.                                            *)
(***************************************************************************)
EXTENDS Lockdown
=================================================================================
