------------------------- MODULE MCNotificationProxy -------------------------
(* Small instances of NotificationProxy for TLC.                           *)
EXTENDS NotificationProxy, TLC

Symmetry == Permutations(Threads)
=============================================================================
