---------------------------- MODULE NotifyCallback ----------------------------
(***************************************************************************)
(* What the notification_proxy client promises the application, without    *)
(* threads, locks or connections: at most one callback is registered, and  *)
(* it alone is told the relayed names, in order and once each; after the   *)
(* client is closed nothing happens any more.                              *)
(***************************************************************************)
EXTENDS Naturals, Sequences

CONSTANTS Names, NoName, MaxReg

VARIABLES
  registered, \* the registered callback, 0 for none
  pending,    \* names relayed and not yet reported
  log,        \* callbacks made: <<callback, name>>, NoName for the error callback
  closed

vars == <<registered, pending, log, closed>>

Init == registered = 0 /\ pending = <<>> /\ log = <<>> /\ closed = FALSE

Register(i) ==
  /\ ~closed /\ registered = 0
  /\ registered' = i
  /\ UNCHANGED <<pending, log, closed>>

Remove ==
  /\ ~closed /\ registered # 0
  /\ registered' = 0
  /\ UNCHANGED <<pending, log, closed>>

Relay(n) ==
  /\ ~closed
  /\ pending' = Append(pending, n)
  /\ UNCHANGED <<registered, log, closed>>

Report ==
  /\ registered # 0 /\ pending # <<>>
  /\ log' = Append(log, <<registered, Head(pending)>>)
  /\ pending' = Tail(pending)
  /\ UNCHANGED <<registered, closed>>

ReportError ==
  /\ registered # 0
  /\ log' = Append(log, <<registered, NoName>>)
  /\ UNCHANGED <<registered, pending, closed>>

\* with no callback, closing may read and drop one name
Drop ==
  /\ ~closed /\ registered = 0 /\ pending # <<>>
  /\ pending' = Tail(pending)
  /\ UNCHANGED <<registered, log, closed>>

Close ==
  /\ registered = 0
  /\ closed' = TRUE
  /\ UNCHANGED <<registered, pending, log>>

Next ==
  \/ \E i \in 1..MaxReg : Register(i)
  \/ \E n \in Names : Relay(n)
  \/ Remove \/ Report \/ ReportError \/ Drop \/ Close

Spec == Init /\ [][Next]_vars
=============================================================================
