------------------------------ MODULE ReverseProxy ------------------------------
(***************************************************************************)
(* src/reverse_proxy.c: a control thread waits for the device's requests   *)
(* and starts a connection thread for each; a connection thread answers    *)
(* pings and relays the device's data to a host and back.  Threads find    *)
(* out that they are to stop by looking at the client that started them:   *)
(* the control thread at client->parent, a connection thread at            *)
(* client->th_ctrl.  The control thread joins the last connection thread.  *)
(* What device and host send is chosen when it is read: a receive may      *)
(* return something, nothing (a timeout) or an error at any time.          *)
(***************************************************************************)
EXTENDS Naturals, Sequences, FiniteSets

CONSTANTS
  Conns,    \* connection threads, numbered from 1
  Fds,      \* descriptors of the process
  MaxSess,  \* bound: relayed sessions
  MaxItems  \* bound: items the device sends on all the connections

Sessions == 1..MaxSess

VARIABLES
  app,      \* where the application thread is in start_proxy and client_free
  parent,   \* client->parent # NULL
  thCtrl,   \* client->th_ctrl: "none" or "ctrl"
  freed,    \* the client has been freed
  cpc,      \* where the control thread is
  thConn,   \* its th_conn, 0 for none
  pc,       \* where each connection thread is
  res,      \* what its handler is to return: "ok" or "error"
  taken,    \* items it has read from its connection to the device
  fd,       \* the descriptor of its socket
  sess,     \* the session it relays, 0 for none
  open,     \* the session at the other end of each descriptor, 0 when closed
  begun,    \* history: the number of the request item of each session that goes on
  hostGot,  \* history: the numbers of the items that its host received
  nsess,    \* sessions so far
  dropped,  \* history: threads whose handle was overwritten or forgotten
  early,    \* history: free saw no control thread although it was still running
  used,     \* history: a thread looked at the client after it was freed
  nulled,   \* history: a thread looked through client->parent after free had cleared it
  opening,  \* history: a request to connect was under way when free began
  foreign   \* history: a descriptor was closed that belonged to another thread

clientVars == <<app, parent, thCtrl, freed, early>>
ctrlVars == <<cpc, thConn, dropped>>
hostVars == <<open, begun, hostGot, nsess, foreign>>
crash == <<nulled, opening>>
connVars == <<pc, res, taken, fd, sess>>
vars == <<clientVars, ctrlVars, connVars, hostVars, used, crash>>

Init ==
  /\ app = "idle" /\ parent = TRUE /\ thCtrl = "none" /\ freed = FALSE /\ early = FALSE
  /\ cpc = "none" /\ thConn = 0 /\ dropped = {}
  /\ pc = [c \in Conns |-> "none"]
  /\ res = [c \in Conns |-> "ok"]
  /\ taken = [c \in Conns |-> 0]
  /\ fd = [c \in Conns |-> 0]
  /\ sess = [c \in Conns |-> 0]
  /\ open = [f \in Fds |-> 0]
  /\ begun = [s \in Sessions |-> 0]
  /\ hostGot = [s \in Sessions |-> <<>>]
  /\ nsess = 0 /\ foreign = FALSE /\ used = FALSE /\ nulled = FALSE /\ opening = FALSE

Goto(c, l) == pc' = [pc EXCEPT ![c] = l]
Alive(c) == pc[c] \notin {"none", "dead"}
CtrlAlive == cpc \notin {"none", "dead"}
UseClient == used' = (used \/ freed)

-----------------------------------------------------------------------------
(* The application *)

\* reverse_proxy_client_start_proxy: the exchange of either protocol version
Start ==
  /\ app = "idle" /\ cpc = "none"
  /\ app' = "starting"
  /\ UNCHANGED <<parent, thCtrl, freed, early, ctrlVars, connVars, hostVars, used, crash>>

StartFails ==
  /\ app = "starting" /\ app' = "idle"
  /\ UNCHANGED <<parent, thCtrl, freed, early, ctrlVars, connVars, hostVars, used, crash>>

StartThread ==
  /\ app = "starting" /\ app' = "idle"
  /\ thCtrl' = "ctrl" /\ cpc' = "head"
  /\ UNCHANGED <<parent, freed, early, thConn, dropped, connVars, hostVars, used, crash>>

\* reverse_proxy_client_free
Free ==
  /\ app = "idle" /\ app' = "look"
  /\ parent' = FALSE
  /\ opening' = (cpc = "recv" \/ \E c \in Conns : pc[c] = "open")
  /\ UNCHANGED <<thCtrl, freed, early, ctrlVars, connVars, hostVars, used, nulled>>

FreeLook ==
  /\ app = "look"
  /\ app' = IF thCtrl = "none" THEN "end" ELSE "join"
  /\ early' = (early \/ (thCtrl = "none" /\ CtrlAlive))
  /\ UNCHANGED <<parent, thCtrl, freed, ctrlVars, connVars, hostVars, used, crash>>

\* the handle is read again: the join of a NULL handle either ends the process or
\* returns at once
FreeReread ==
  /\ app = "join"
  /\ app' = IF thCtrl = "none" THEN "end" ELSE "joining"
  /\ early' = (early \/ (thCtrl = "none" /\ CtrlAlive))
  /\ UNCHANGED <<parent, thCtrl, freed, ctrlVars, connVars, hostVars, used, crash>>

FreeJoin ==
  /\ app = "joining" /\ cpc = "dead"
  /\ app' = "end" /\ thCtrl' = "none"
  /\ UNCHANGED <<parent, freed, early, ctrlVars, connVars, hostVars, used, crash>>

FreeEnd ==
  /\ app = "end"
  /\ app' = "done" /\ freed' = TRUE
  /\ UNCHANGED <<parent, thCtrl, early, ctrlVars, connVars, hostVars, used, crash>>

FreeSteps == ~nulled /\ (FreeLook \/ FreeReread \/ FreeJoin \/ FreeEnd)

-----------------------------------------------------------------------------
(* The control thread *)

\* mutant: client->parent is not looked at
CtrlHead_Deaf ==
  /\ cpc = "head" /\ cpc' = "recv"
  /\ UseClient
  /\ UNCHANGED <<clientVars, thConn, dropped, connVars, hostVars, crash>>

CtrlHead ==
  /\ cpc = "head"
  /\ cpc' = IF parent THEN "recv" ELSE "down"
  /\ UseClient
  /\ UNCHANGED <<clientVars, thConn, dropped, connVars, hostVars, crash>>

\* a timeout, or fewer bytes than a request has
CtrlNothing ==
  /\ cpc = "recv" /\ cpc' = "head"
  /\ UseClient
  /\ UNCHANGED <<clientVars, thConn, dropped, connVars, hostVars, crash>>

\* the connection is lost, free has taken client->parent away, or the request is to shut
\* down or unknown
CtrlStop ==
  /\ cpc = "recv" /\ cpc' = "down"
  /\ UseClient
  /\ UNCHANGED <<clientVars, thConn, dropped, connVars, hostVars, crash>>

\* a request to connect, which may have come before free: it overwrites th_conn
CtrlConnect ==
  /\ cpc = "recv"
  /\ dropped' = IF thConn = 0 THEN dropped ELSE dropped \union {thConn}
  /\ \/ \E c \in Conns :
          /\ pc[c] = "none" /\ \A d \in Conns : d < c => pc[d] # "none"
          /\ Goto(c, "open") /\ thConn' = c /\ cpc' = "head"
     \/ thConn' = 0 /\ cpc' = "down" /\ UNCHANGED pc \* thread_new failed
  /\ UseClient
  /\ UNCHANGED <<clientVars, res, taken, fd, sess, hostVars, crash>>

CtrlDown ==
  /\ cpc = "down"
  /\ cpc' = "join" /\ thCtrl' = "none"
  /\ UseClient
  /\ UNCHANGED <<app, parent, freed, early, thConn, dropped, connVars, hostVars, crash>>

\* mutant: the thread is not waited for
CtrlJoin_NoJoin ==
  /\ cpc = "join" /\ cpc' = "bye"
  /\ UNCHANGED <<clientVars, thConn, dropped, connVars, hostVars, used, crash>>

CtrlJoin ==
  /\ cpc = "join"
  /\ thConn = 0 \/ (thConn \in Conns /\ pc[thConn] = "dead")
  /\ cpc' = "bye"
  /\ UNCHANGED <<clientVars, thConn, dropped, connVars, hostVars, used, crash>>

CtrlBye ==
  /\ cpc = "bye" /\ cpc' = "dead"
  /\ UseClient
  /\ UNCHANGED <<clientVars, thConn, dropped, connVars, hostVars, crash>>

ControlThread ==
  /\ ~used /\ ~nulled
  /\ \/ CtrlHead \/ CtrlNothing \/ CtrlStop \/ CtrlConnect \/ CtrlDown \/ CtrlJoin \/ CtrlBye

-----------------------------------------------------------------------------
(* A connection thread *)

\* the device is found through client->parent
ConnOpen(c) ==
  /\ pc[c] = "open"
  /\ Goto(c, "connect")
  /\ nulled' = (nulled \/ (~freed /\ ~parent))
  /\ UseClient
  /\ UNCHANGED <<clientVars, ctrlVars, res, taken, fd, sess, hostVars, opening>>

\* its own connection to the device
ConnConnect(c) ==
  /\ pc[c] = "connect"
  /\ \E l \in {"hello", "leave"} : Goto(c, l)
  /\ UseClient
  /\ UNCHANGED <<clientVars, ctrlVars, res, taken, fd, sess, hostVars, crash>>

ConnHello(c) ==
  /\ pc[c] = "hello"
  /\ \E l \in {"head", "leave"} : Goto(c, l)
  /\ UNCHANGED <<clientVars, ctrlVars, res, taken, fd, sess, hostVars, used, crash>>

\* mutant: the client is not looked at
ConnHead_Blind(c) ==
  /\ pc[c] = "head" /\ Goto(c, "recv")
  /\ UNCHANGED <<clientVars, ctrlVars, res, taken, fd, sess, hostVars, used, crash>>

ConnHead(c) ==
  /\ pc[c] = "head"
  /\ Goto(c, IF thCtrl = "none" THEN "leave" ELSE "recv")
  /\ UseClient
  /\ UNCHANGED <<clientVars, ctrlVars, res, taken, fd, sess, hostVars, crash>>

Take(c) ==
  /\ Cardinality({i \in Conns \X (1..MaxItems) : i[2] <= taken[i[1]]}) < MaxItems
  /\ taken' = [taken EXCEPT ![c] = @ + 1]

\* the two bytes that name a request: nothing, an end, something else, or a request
ConnReceive(c) ==
  /\ pc[c] = "recv"
  /\ \/ \E l \in {"head", "leave"} : Goto(c, l) /\ UNCHANGED taken
     \/ Take(c) /\ \E l \in {"leave", "plist", "proxy"} : Goto(c, l)
  /\ UNCHANGED <<clientVars, ctrlVars, res, fd, sess, hostVars, used, crash>>

\* _reverse_proxy_handle_plist_cmd: a ping is answered, all else ends the thread
ConnPlist(c) ==
  /\ pc[c] = "plist"
  /\ \E l \in {"head", "leave"} : Goto(c, l)
  /\ UNCHANGED <<clientVars, ctrlVars, res, taken, fd, sess, hostVars, used, crash>>

FreeFd == {f \in Fds : open[f] = 0}

\* _reverse_proxy_handle_proxy_cmd up to the connection to the host: the request, its
\* acknowledgement and its echo; a request without a host is ignored
ConnProxy(c) ==
  /\ pc[c] = "proxy"
  /\ \/ /\ \E l \in {"head", "leave"} : Goto(c, l)
        /\ UNCHANGED <<fd, sess, hostVars>>
     \/ /\ nsess < MaxSess
        /\ \E f \in FreeFd :
             /\ \A g \in FreeFd : f <= g
             /\ fd' = [fd EXCEPT ![c] = f]
             /\ open' = [open EXCEPT ![f] = nsess + 1]
        /\ Goto(c, "out")
        /\ nsess' = nsess + 1
        /\ sess' = [sess EXCEPT ![c] = nsess + 1]
        /\ begun' = [begun EXCEPT ![nsess + 1] = taken[c]]
        /\ UNCHANGED <<hostGot, foreign>>
  /\ UNCHANGED <<clientVars, ctrlVars, res, taken, used, crash>>

\* nothing from the device within 100 ms, or the end of its connection
OutNothing(c) ==
  /\ pc[c] = "out"
  /\ \/ Goto(c, "in") /\ UNCHANGED res
     \/ Goto(c, "close") /\ res' = [res EXCEPT ![c] = "error"]
  /\ UNCHANGED <<clientVars, ctrlVars, taken, fd, sess, hostVars, used, crash>>

\* mutant: what could not be sent is left out, and the relay goes on
OutFails_GoesOn(c) ==
  /\ pc[c] = "out" /\ Take(c) /\ Goto(c, "in")
  /\ UNCHANGED <<clientVars, ctrlVars, res, fd, sess, hostVars, used, crash>>

CloseFd(c) ==
  /\ open' = [open EXCEPT ![fd[c]] = 0]
  /\ foreign' = (foreign \/ open[fd[c]] \notin {0, sess[c]})

\* the host does not take it: the socket is closed here, and once more at the end
OutFails(c) ==
  /\ pc[c] = "out" /\ Take(c)
  /\ CloseFd(c)
  /\ res' = [res EXCEPT ![c] = "error"]
  /\ Goto(c, "close")
  /\ UNCHANGED <<clientVars, ctrlVars, fd, sess, begun, hostGot, nsess, used, crash>>

Out(c) ==
  /\ pc[c] = "out" /\ open[fd[c]] # 0 /\ Take(c)
  /\ hostGot' = [hostGot EXCEPT ![open[fd[c]]] = Append(@, taken'[c])]
  /\ Goto(c, "in")
  /\ UNCHANGED <<clientVars, ctrlVars, res, fd, sess, open, begun, nsess, foreign, used, crash>>

\* the host sends something or nothing, or closes, or an error; all but a failed send to
\* the device leave the thread waiting for another request
In(c) ==
  /\ pc[c] = "in"
  /\ \/ \E l \in {"out", "close"} : Goto(c, l) /\ UNCHANGED res
     \/ Goto(c, "close") /\ res' = [res EXCEPT ![c] = "error"]
  /\ UNCHANGED <<clientVars, ctrlVars, taken, fd, sess, hostVars, used, crash>>

Close(c) ==
  /\ pc[c] = "close"
  /\ CloseFd(c)
  /\ fd' = [fd EXCEPT ![c] = 0]
  /\ sess' = [sess EXCEPT ![c] = 0]
  /\ res' = [res EXCEPT ![c] = "ok"]
  /\ begun' = [begun EXCEPT ![sess[c]] = 0]
  /\ hostGot' = [hostGot EXCEPT ![sess[c]] = <<>>]
  /\ Goto(c, IF res[c] = "ok" THEN "head" ELSE "leave")
  /\ UNCHANGED <<clientVars, ctrlVars, taken, nsess, used, crash>>

ConnLeave(c) ==
  /\ pc[c] = "leave" /\ Goto(c, "dead")
  /\ UNCHANGED <<clientVars, ctrlVars, res, taken, fd, sess, hostVars, used, crash>>

ConnectionThread(c) ==
  /\ ~used /\ ~nulled
  /\ \/ ConnOpen(c) \/ ConnConnect(c) \/ ConnHello(c) \/ ConnHead(c) \/ ConnReceive(c)
     \/ ConnPlist(c) \/ ConnProxy(c) \/ OutNothing(c) \/ OutFails(c) \/ Out(c) \/ In(c) \/ Close(c) \/ ConnLeave(c)

-----------------------------------------------------------------------------
Application == Start \/ StartFails \/ StartThread \/ Free \/ FreeSteps
\* nothing can be said of a program that has used freed memory, and one that has looked
\* through a NULL pointer is gone: its threads stop here
Next == Application \/ ControlThread \/ \E c \in Conns : ConnectionThread(c)

-----------------------------------------------------------------------------
(* Properties *)

AppPcs == {"idle", "starting", "look", "join", "joining", "end", "done"}
CtrlPcs == {"none", "head", "recv", "down", "join", "bye", "dead"}
ConnPcs == {"none", "open", "connect", "hello", "head", "recv", "plist", "proxy", "out", "in", "close",
            "leave", "dead"}

\* Every variable has a value of its type, and a socket belongs to a relayed session.
TypeOK ==
  /\ app \in AppPcs /\ parent \in BOOLEAN /\ thCtrl \in {"none", "ctrl"}
  /\ freed \in BOOLEAN /\ early \in BOOLEAN /\ used \in BOOLEAN /\ foreign \in BOOLEAN
  /\ nulled \in BOOLEAN /\ opening \in BOOLEAN
  /\ cpc \in CtrlPcs /\ thConn \in Conns \union {0} /\ dropped \subseteq Conns
  /\ pc \in [Conns -> ConnPcs] /\ res \in [Conns -> {"ok", "error"}]
  /\ fd \in [Conns -> Fds \union {0}] /\ sess \in [Conns -> Nat]
  /\ open \in [Fds -> Nat]
  /\ begun \in [Sessions -> Nat] /\ hostGot \in [Sessions -> Seq(Nat)]
  /\ nsess \in Nat /\ taken \in [Conns -> Nat]

\* A thread looks at the client after reverse_proxy_client_free has freed it only in the
\* two ways the code leaves open: the handle of a connection thread was overwritten by
\* that of a later one (line 497) before it was joined, or free read th_ctrl after the
\* control thread had cleared it (line 519) and did not wait for it.
NoUseAfterFree == used => dropped # {} \/ early

\* A connection thread looks through client->parent (lines 353 and 362) after free has cleared
\* it (line 649) only if the request for its connection was being taken, or it had started
\* and not yet looked, when free began: no connection is begun once free is under way.
OnlyWhileOpening == nulled => opening

\* The client is used as long as it is there, and by those the code knows of.
UseSafe == TypeOK /\ NoUseAfterFree /\ OnlyWhileOpening

\* The host of a session receives the items that the device sent after the session's
\* request, in their order and without a gap (_reverse_proxy_handle_proxy_cmd), unless
\* the second close of a descriptor (lines 227 and 264) hit another thread's socket.
RelayFaithful ==
  foreign \/ \A s \in Sessions :
    \A i \in 1..Len(hostGot[s]) : hostGot[s][i] = begun[s] + i

\* A connection thread is in the loop of a relay.
Relaying == \E c \in Conns : pc[c] \in {"out", "in"}
================================================================================
