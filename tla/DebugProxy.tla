------------------------------- MODULE DebugProxy -------------------------------
(***************************************************************************)
(* tools/idevicedebugserverproxy.c: a thread for each local connection     *)
(* carries bytes between it and a debugserver of its own on the device.    *)
(* main keeps the threads in a list, closes their sockets and waits for    *)
(* them when it was told to quit, and frees the device.  The list keeps    *)
(* its head and its last element: a third connection overwrites the second.*)
(* What is carried is left out.                                            *)
(***************************************************************************)
EXTENDS Naturals, Sequences

CONSTANTS Handlers  \* connections, numbered from 1

VARIABLES
  main,     \* where main is
  quit,     \* quit_flag
  list,     \* the connections that thread_list leads to
  count,    \* connections so far
  pc,       \* where each handler is
  sock,     \* its socket: "none", "open", or closed by "main" or by "self"
  freed,    \* the device has been freed
  missed,   \* history: the signal came between the look at quit_flag and the wait
  twice     \* history: a descriptor was closed again, whoever had it by then

vars == <<main, quit, list, count, pc, sock, freed, missed, twice>>

Init ==
  /\ main = "look" /\ quit = FALSE /\ list = <<>> /\ count = 0
  /\ pc = [h \in Handlers |-> "none"] /\ sock = [h \in Handlers |-> "none"]
  /\ freed = FALSE /\ missed = FALSE /\ twice = FALSE

-----------------------------------------------------------------------------
(* main *)

LookAtQuit ==
  /\ main = "look" /\ main' = IF quit THEN "close" ELSE "accept"
  /\ UNCHANGED <<quit, list, count, pc, sock, freed, missed, twice>>

\* socket_accept waits for a connection from here on
AcceptWaits ==
  /\ main = "accept" /\ main' = "waiting"
  /\ missed' = quit
  /\ UNCHANGED <<quit, list, count, pc, sock, freed, twice>>

\* mutant: a connection becomes the new head of the list
Link_Head(h) == <<h>>

\* thread_list->next = el
Link(h) == IF list = <<>> THEN <<h>> ELSE <<list[1], h>>

Accepted ==
  /\ main = "waiting" /\ count + 1 \in Handlers
  /\ count' = count + 1 /\ list' = Link(count')
  /\ sock' = [sock EXCEPT ![count'] = "open"]
  /\ \/ pc' = [pc EXCEPT ![count'] = "start"] /\ main' = "look"
     \/ UNCHANGED pc /\ main' = "close"  \* there is no thread: what is joined is undefined
  /\ UNCHANGED <<quit, freed, missed, twice>>

\* the socket of the first in the list, which its handler may have closed already
Close ==
  /\ main = "close"
  /\ IF list = <<>> THEN main' = "free" /\ UNCHANGED <<sock, twice>>
     ELSE /\ main' = "join"
          /\ sock' = [sock EXCEPT ![list[1]] = "main"]
          /\ twice' = (twice \/ sock[list[1]] = "self")
  /\ UNCHANGED <<quit, list, count, pc, freed, missed>>

Join ==
  /\ main = "join" /\ pc[list[1]] \in {"none", "dead"}
  /\ list' = Tail(list) /\ main' = "close"
  /\ UNCHANGED <<quit, count, pc, sock, freed, missed, twice>>

FreeDevice ==
  /\ main = "free" /\ main' = "done"
  /\ freed' = TRUE
  /\ UNCHANGED <<quit, list, count, pc, sock, missed, twice>>

Main == LookAtQuit \/ AcceptWaits \/ Close \/ Join \/ FreeDevice

\* mutant: the wait goes on after the signal
Quit_Restarts ==
  /\ ~quit /\ quit' = TRUE
  /\ UNCHANGED <<main, list, count, pc, sock, freed, missed, twice>>

\* clean_exit: the signal ends a wait for a connection
Quit ==
  /\ ~quit /\ quit' = TRUE
  /\ main' = IF main = "waiting" THEN "look" ELSE main
  /\ UNCHANGED <<list, count, pc, sock, freed, missed, twice>>

-----------------------------------------------------------------------------
(* connection_handler *)

Goto(h, l) == pc' = [pc EXCEPT ![h] = l]

\* debugserver_client_start_service; without it the socket stays open
Start(h) ==
  /\ pc[h] = "start"
  /\ Goto(h, "head") \/ Goto(h, "dead")
  /\ UNCHANGED <<main, quit, list, count, sock, freed, missed, twice>>

Head0(h) ==
  /\ pc[h] = "head"
  /\ Goto(h, IF quit THEN "leave" ELSE "client")
  /\ UNCHANGED <<main, quit, list, count, sock, freed, missed, twice>>

\* what the client sends within a millisecond, or nothing; a packet of lldb is answered here
\* and not carried on; a socket that main has closed is at its end
FromClient(h) ==
  /\ pc[h] = "client"
  /\ \/ sock[h] = "open" /\ \E l \in {"device", "head"} : Goto(h, l)
     \/ Goto(h, "leave")
  /\ UNCHANGED <<main, quit, list, count, sock, freed, missed, twice>>

\* what the device has, until it has nothing more or its connection ends
FromDevice(h) ==
  /\ pc[h] = "device"
  /\ \E l \in {"device", "head", "leave"} : Goto(h, l)
  /\ UNCHANGED <<main, quit, list, count, sock, freed, missed, twice>>

\* the handler closes its socket too
Leave(h) ==
  /\ pc[h] = "leave" /\ Goto(h, "dead")
  /\ twice' = (twice \/ sock[h] = "main")
  /\ sock' = [sock EXCEPT ![h] = "self"]
  /\ UNCHANGED <<main, quit, list, count, freed, missed>>

Handler(h) == Start(h) \/ Head0(h) \/ FromClient(h) \/ FromDevice(h) \/ Leave(h)

Next == Main \/ Accepted \/ Quit \/ \E h \in Handlers : Handler(h)

-----------------------------------------------------------------------------
(* Properties *)

TypeOK ==
  /\ main \in {"look", "accept", "waiting", "close", "join", "free", "done"}
  /\ pc \in [Handlers -> {"none", "start", "head", "client", "device", "leave", "dead"}]
  /\ sock \in [Handlers -> {"none", "open", "main", "self"}]
  /\ count \in Handlers \union {0}

\* When main frees the device its handlers have ended, but for those that the list has lost:
\* all but the first and the last connection (line 335).
HandlersEnded ==
  freed => \A h \in Handlers : h \in {1, count} => pc[h] \in {"none", "dead"}
================================================================================
