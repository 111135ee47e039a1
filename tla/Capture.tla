-------------------------------- MODULE Capture --------------------------------
(***************************************************************************)
(* What a capture promises the application that starts it: the callback is *)
(* made between a start and the return of the stop that follows, and gets  *)
(* the device's messages in their order, none of them twice.               *)
(***************************************************************************)
EXTENDS Naturals

CONSTANT MaxMsg

VARIABLES on, last \* a capture is on; the number of the last message delivered

vars == <<on, last>>

Init == on = FALSE /\ last = 0

Start == ~on /\ on' = TRUE /\ UNCHANGED last
Deliver == on /\ UNCHANGED on /\ \E n \in (last + 1)..MaxMsg : last' = n
Stop == on /\ on' = FALSE /\ UNCHANGED last

Spec == Init /\ [][Start \/ Deliver \/ Stop]_vars
================================================================================
