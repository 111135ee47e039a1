----------------------------- MODULE RequestReply -----------------------------
(***************************************************************************)
(* What a request/reply client of the library promises its callers,        *)
(* without packets, locks or connections: requests are numbered in the     *)
(* order they are issued, the device performs them in that order and each  *)
(* at most once, and a call that succeeds reports a request the device has *)
(* performed.  A call that fails says nothing: its request may have been   *)
(* performed, may be performed later, or never.                            *)
(***************************************************************************)
EXTENDS Naturals

CONSTANTS Threads, MaxCalls

VARIABLES
  issued,    \* requests issued so far
  performed, \* the last request the device has performed
  request,   \* the request of each thread's call, 0 when it has none
  outcome    \* "none" while the call is open, "ok" or "failed" when it returns

vars == <<issued, performed, request, outcome>>

Init ==
  /\ issued = 0 /\ performed = 0
  /\ request = [t \in Threads |-> 0]
  /\ outcome = [t \in Threads |-> "none"]

Issue(t) ==
  /\ request[t] = 0 /\ outcome[t] = "none" /\ issued < MaxCalls
  /\ issued' = issued + 1
  /\ request' = [request EXCEPT ![t] = issued + 1]
  /\ UNCHANGED <<performed, outcome>>

Perform ==
  /\ \E n \in 1..issued : performed < n /\ performed' = n
  /\ UNCHANGED <<issued, request, outcome>>

Succeed(t) ==
  /\ request[t] = issued /\ outcome[t] = "none" /\ performed = issued
  /\ issued > 0
  /\ outcome' = [outcome EXCEPT ![t] = "ok"]
  /\ UNCHANGED <<issued, performed, request>>

Fail(t) ==
  /\ outcome[t] = "none"
  /\ outcome' = [outcome EXCEPT ![t] = "failed"]
  /\ UNCHANGED <<issued, performed, request>>

Return(t) ==
  /\ outcome[t] # "none"
  /\ outcome' = [outcome EXCEPT ![t] = "none"]
  /\ request' = [request EXCEPT ![t] = 0]
  /\ UNCHANGED <<issued, performed>>

Next == Perform \/ \E t \in Threads : Issue(t) \/ Succeed(t) \/ Fail(t) \/ Return(t)

Spec == Init /\ [][Next]_vars
===============================================================================
