------------------------------- MODULE EventThread -------------------------------
(***************************************************************************)
(* src/companion_proxy.c and src/preboard.c: clients without a lock whose  *)
(* thread receives events on the connection that the application's calls   *)
(* use too.  The thread stops when client->parent is gone, and takes its   *)
(* own handle out of the client; start, stop and free look at that handle. *)
(* The application has one thread.  Messages are chosen when they are      *)
(* read: an event may be there at any time once the device was asked for   *)
(* them, and answers come in the order of their requests.                  *)
(***************************************************************************)
EXTENDS Naturals, Sequences

CONSTANTS
  Clients,    \* the clients to look at: "companion_proxy", "preboard"
  Listeners,  \* threads that may be started, numbered from 1
  MaxAsked    \* bound: requests sent by the application

VARIABLES
  client,  \* which client this is
  app,     \* where the application's thread is
  parent,  \* client->parent # NULL
  handle,  \* client->event_thread or receive_status_thread, 0 for none
  freed,   \* the client has been freed
  made,    \* the thread that thread_new has started, until its handle is stored
  pc,      \* where each listener is
  asked,   \* requests sent
  owed,    \* requests whose answers have not been read
  events,  \* history: the device was asked for events
  late,    \* history: a call has given up waiting for its answer
  took,    \* history: what the last call took: its number, or 0 for another message
  used     \* history: a listener looked at the client after it was freed

vars == <<client, app, parent, handle, freed, made, pc, asked, owed, events, late, took, used>>
streamVars == <<asked, owed, events, late, took>>

Init ==
  /\ client \in Clients
  /\ app = "idle" /\ parent = TRUE /\ handle = 0 /\ freed = FALSE /\ made = 0
  /\ pc = [l \in Listeners |-> "none"]
  /\ asked = 0 /\ owed = <<>> /\ events = FALSE /\ late = FALSE /\ took = 0 /\ used = FALSE

Listening(l) == pc[l] \in {"send", "head", "receive", "waiting", "callback"}

-----------------------------------------------------------------------------
(* Calls of the application *)

\* mutant: the request is sent, and the call returns without its answer
Call_Forgets ==
  /\ client = "companion_proxy" /\ app = "idle" /\ asked < MaxAsked
  /\ asked' = asked + 1 /\ owed' = Append(owed, asked') /\ app' \in {"idle", "answer"}
  /\ UNCHANGED <<client, parent, handle, freed, made, pc, events, late, took, used>>

\* companion_proxy_get_device_registry, _get_value_from_registry and the two that forward
\* ports: a request that could not be sent ends the call
Call ==
  /\ client = "companion_proxy" /\ app = "idle" /\ asked < MaxAsked
  /\ asked' = asked + 1 /\ owed' = Append(owed, asked') /\ app' = "answer"
  /\ UNCHANGED <<client, parent, handle, freed, made, pc, events, late, took, used>>

\* companion_proxy_receive: nothing in 10 seconds, an answer, or what else is there
CallReceive ==
  /\ app = "answer" /\ app' = "idle"
  /\ \/ late' = TRUE /\ took' = asked /\ UNCHANGED owed
     \/ owed # <<>> /\ owed' = Tail(owed) /\ took' = Head(owed) /\ UNCHANGED late
     \/ events /\ took' = 0 /\ late' = TRUE /\ UNCHANGED owed
  /\ UNCHANGED <<client, parent, handle, freed, made, pc, asked, events, used>>

\* mutant: a listener that runs is not noticed
Busy_Never == FALSE

Busy == handle # 0

\* thread_new has started the thread and has not stored its handle yet
NewListener(label) ==
  \/ /\ Busy /\ UNCHANGED <<app, made, pc>>                \* OP_IN_PROGRESS
  \/ /\ ~Busy
     /\ \E l \in Listeners :
          /\ pc[l] = "none" /\ \A k \in Listeners : k < l => pc[k] # "none"
          /\ pc' = [pc EXCEPT ![l] = label] /\ made' = l
     /\ app' = "store"
  \/ ~Busy /\ UNCHANGED <<app, made, pc>>                  \* there is no thread

\* companion_proxy_start_listening_for_devices
StartListening ==
  /\ client = "companion_proxy" /\ app = "idle"
  /\ NewListener("send")
  /\ UNCHANGED <<client, parent, handle, freed, streamVars, used>>

\* preboard_create_stashbag and preboard_commit_stashbag: the command is sent also when the
\* statuses of an earlier one are still received
Stashbag ==
  /\ client = "preboard" /\ app = "idle" /\ asked < MaxAsked
  /\ asked' = asked + 1 /\ events' = TRUE
  /\ \/ NewListener("head")
     \/ UNCHANGED <<app, made, pc>>                        \* without a callback
  /\ UNCHANGED <<client, parent, handle, freed, owed, late, took, used>>

\* a thread may have ended by now, and have taken a handle away that was not there yet
StoreHandle ==
  /\ app = "store" /\ app' = "idle"
  /\ handle' = made /\ made' = 0
  /\ UNCHANGED <<client, parent, freed, pc, streamVars, used>>

\* mutant: the parent stays
Stop_Keeps ==
  /\ client = "companion_proxy" /\ app = "idle" /\ app' = "stop_look"
  /\ UNCHANGED <<client, parent, handle, freed, made, pc, streamVars, used>>

\* companion_proxy_stop_listening_for_devices takes the parent away for a while
Stop ==
  /\ client = "companion_proxy" /\ app = "idle" /\ app' = "stop_look"
  /\ parent' = FALSE
  /\ UNCHANGED <<client, handle, freed, made, pc, streamVars, used>>

\* companion_proxy_client_free and preboard_client_free
Free ==
  /\ app = "idle" /\ app' = "free_look"
  /\ parent' = FALSE
  /\ UNCHANGED <<client, handle, freed, made, pc, streamVars, used>>

Look ==
  /\ \/ app = "stop_look" /\ app' = (IF handle = 0 THEN "stop_end" ELSE "stop_join")
     \/ app = "free_look" /\ app' = (IF handle = 0 THEN "free_end" ELSE "free_join")
  /\ UNCHANGED <<client, parent, handle, freed, made, pc, streamVars, used>>

\* the handle is read again: when the listener has taken it away, the join of NULL ends the
\* process or returns at once
Join ==
  /\ handle = 0 \/ (handle \in Listeners /\ pc[handle] = "dead")
  /\ \/ app = "stop_join" /\ app' = "stop_end"
     \/ app = "free_join" /\ app' = "free_end"
  /\ handle' = 0
  /\ UNCHANGED <<client, parent, freed, made, pc, streamVars, used>>

StopEnd ==
  /\ app = "stop_end" /\ app' = "idle"
  /\ parent' = TRUE
  /\ UNCHANGED <<client, handle, freed, made, pc, streamVars, used>>

FreeEnd ==
  /\ app = "free_end" /\ app' = "done"
  /\ freed' = TRUE
  /\ UNCHANGED <<client, parent, handle, made, pc, streamVars, used>>

-----------------------------------------------------------------------------
(* The listener *)

Goto(l, label) == pc' = [pc EXCEPT ![l] = label]
UseClient == used' = (used \/ freed)

\* StartListeningForDevices, sent by the thread
ListenSend(l) ==
  /\ pc[l] = "send"
  /\ \/ Goto(l, "head") /\ asked' = asked /\ events' = TRUE
     \/ Goto(l, "clear") /\ UNCHANGED <<asked, events>>
  /\ UseClient
  /\ UNCHANGED <<client, app, parent, handle, freed, made, owed, late, took>>

ListenHead(l) ==
  /\ pc[l] = "head"
  /\ Goto(l, IF parent THEN "receive" ELSE "clear")
  /\ UseClient
  /\ UNCHANGED <<client, app, parent, handle, freed, made, streamVars>>

\* the parent is read again: one that is gone by now is an invalid argument
ListenParent(l) ==
  /\ pc[l] = "receive"
  /\ Goto(l, IF parent THEN "waiting" ELSE "clear")
  /\ UseClient
  /\ UNCHANGED <<client, app, parent, handle, freed, made, streamVars>>

\* nothing in a second, an error, an event or the answer to a call
ListenReceive(l) ==
  /\ pc[l] = "waiting"
  /\ \/ \E label \in {"head", "clear"} : Goto(l, label) /\ UNCHANGED owed
     \/ events /\ Goto(l, "callback") /\ UNCHANGED owed
     \/ owed # <<>> /\ owed' = Tail(owed) /\ Goto(l, "callback")
  /\ UNCHANGED <<client, app, parent, handle, freed, made, asked, events, late, took, used>>

ListenCallback(l) ==
  /\ pc[l] = "callback" /\ Goto(l, "head")
  /\ UNCHANGED <<client, app, parent, handle, freed, made, streamVars, used>>

\* mutant: the handle is taken away before the client is looked at for the last time
ListenClear_Early(l) ==
  /\ pc[l] = "clear"
  /\ IF handle = l THEN handle' = 0 /\ UNCHANGED pc ELSE Goto(l, "dead") /\ UNCHANGED handle
  /\ UseClient
  /\ UNCHANGED <<client, app, parent, freed, made, streamVars>>

\* the last look at the client
ListenClear(l) ==
  /\ pc[l] = "clear" /\ Goto(l, "dead")
  /\ handle' = 0
  /\ UseClient
  /\ UNCHANGED <<client, app, parent, freed, made, streamVars>>

Listener(l) ==
  \/ ListenSend(l) \/ ListenHead(l) \/ ListenParent(l) \/ ListenReceive(l) \/ ListenCallback(l)
  \/ ListenClear(l)

Ending == Look \/ Join \/ StopEnd \/ FreeEnd
Calls == Call \/ StartListening \/ Stashbag \/ Stop \/ Free

Next == Calls \/ CallReceive \/ StoreHandle \/ Ending \/ \E l \in Listeners : Listener(l)

Running == CallReceive \/ StoreHandle \/ Ending

-----------------------------------------------------------------------------
(* Properties *)

TypeOK ==
  /\ parent \in BOOLEAN /\ freed \in BOOLEAN /\ made \in Listeners \union {0}
  /\ handle \in Listeners \union {0} /\ asked \in 0..MaxAsked /\ took \in 0..MaxAsked

\* One thread at most receives events, it is the one that the client's handle names or that
\* thread_new is about to store (companion_proxy.c:235, preboard.c:194), and it does not look
\* at a client that has been freed: free waits for it, or finds that it has had its last look.
ListenerKnown ==
  /\ ~used
  /\ \A l \in Listeners : Listening(l) => l \in {handle, made}

\* A call returns the answer to its own request, unless the device was asked for events, or a
\* call before it has given up (companion_proxy_receive, line 136: nothing but the order of
\* the messages says which of them is an answer, and to what).
AnswerToCall == app = "idle" /\ asked # 0 /\ ~events /\ ~late => took = asked

\* Stopping and freeing come to an end: the listener looks for the parent every second.
StopReturns == app \in {"stop_look", "free_look"} ~> app \in {"idle", "done"}
================================================================================
