-------------------------- MODULE NotificationProxy --------------------------
(***************************************************************************)
(* The notification_proxy client of src/notification_proxy.c: application  *)
(* threads post and observe notifications, set or remove the notify        *)
(* callback and finally free the client, while the notifier thread polls   *)
(* the connection and calls the callback.  client->mutex guards the        *)
(* connection; client->parent is both the connection pointer and the flag  *)
(* that tells the notifier to stop.                                        *)
(***************************************************************************)
EXTENDS Naturals, Sequences, FiniteSets, SequencesExt

CONSTANTS
  Threads,      \* application threads that share one np_client_t
  Names,        \* notification names the device relays
  NoName,       \* the empty string that reports an error
  ProxyDeath,   \* the device's answer to Shutdown
  Junk,         \* any other command, or a malformed notification
  None,         \* no thread: the mutex is free, nobody frees the client
  MaxReg,       \* bound: calls of np_set_notify_callback
  MaxMsg,       \* bound: messages the device sends
  MaxBatch,     \* bound: names in one np_observe_notifications call
  CallbackPosts \* TRUE: the callback calls np_post_notification itself

Regs == 1..MaxReg

ASSUME ConstAssumption ==
  /\ MaxReg \in Nat
  /\ MaxMsg \in Nat
  /\ MaxBatch \in Nat
  /\ CallbackPosts \in BOOLEAN
  /\ None \notin Threads
  /\ None \notin Nat
  /\ Threads \cap Nat = {}

ASSUME NamesAssumption == Names \cap {ProxyDeath, Junk, NoName} = {}

Messages == Names \union {ProxyDeath, Junk}

VARIABLES
  mutex,      \* client->mutex: the thread that holds it, or None
  parent,     \* client->parent # NULL
  notifier,   \* client->notifier: id of the thread, 0 is THREAD_T_NULL
  conn,       \* the connection object: "open", "lost" (device gone), "freed"
  apc,        \* where each application thread is
  saved,      \* the local copy of client->parent in set_notify_callback and free
  todo,       \* plists the call still has to send
  wanted,     \* the callback argument: the call's number, 0 for NULL
  res,        \* what the thread's last call returned
  npc,        \* where each notifier thread is
  held,       \* the notification a notifier has received and not yet reported
  inbox,      \* messages from the device that nobody has read
  freer,      \* the thread inside np_client_free (or past it), or None
  calls,      \* history: calls of np_set_notify_callback
  sent,       \* history: names the device relayed
  taken,      \* history: how many of these names have been read from the connection
  delivered   \* history: callbacks <<notifier, name>>, NoName for the empty one

connVars == <<mutex, parent, notifier, conn>>
appVars  == <<apc, saved, todo, wanted, res, freer>>
npVars   == <<npc, held>>
histVars == <<calls, sent, taken, delivered>>
vars == <<connVars, appVars, npVars, inbox, histVars>>

AppPcs == {"idle", "send_lock", "sending", "cb_lock", "cb_check", "cb_join",
           "cb_new", "free_send", "free_null", "free_join", "free_recv",
           "free_close", "done"}
NpPcs == {"unborn", "head", "enter", "lock", "begin", "recv", "cb", "post_lock",
          "post_send", "fail", "sleep", "exited"}
Results == {"none", "SUCCESS", "UNKNOWN_ERROR", "INVALID_ARG", "CONN_FAILED"}

Init ==
  /\ mutex = None /\ parent = TRUE /\ notifier = 0 /\ conn = "open"
  /\ apc = [t \in Threads |-> "idle"]
  /\ saved = [t \in Threads |-> FALSE]
  /\ todo = [t \in Threads |-> 0]
  /\ wanted = [t \in Threads |-> 0]
  /\ res = [t \in Threads |-> "none"]
  /\ npc = [i \in Regs |-> "unborn"]
  /\ held = [i \in Regs |-> NoName]
  /\ inbox = <<>> /\ freer = None
  /\ calls = 0 /\ sent = <<>> /\ taken = 0 /\ delivered = <<>>

Goto(t, pc) == apc' = [apc EXCEPT ![t] = pc]
NpGoto(i, pc) == npc' = [npc EXCEPT ![i] = pc]

(* property_list_service_send_xml_plist and its np_error code *)
SendResult == IF ~parent THEN "INVALID_ARG"
              ELSE IF conn = "lost" THEN "CONN_FAILED" ELSE "SUCCESS"

-----------------------------------------------------------------------------
(* Application calls.  A call starts only while nobody frees the client.   *)

Call(t, pc) == apc[t] = "idle" /\ freer = None /\ Goto(t, pc)

\* np_post_notification and np_observe_notification send one plist,
\* np_observe_notifications one for each name of its array
SendCall(t, k) ==
  /\ Call(t, "send_lock")
  /\ todo' = [todo EXCEPT ![t] = k]
  /\ res' = [res EXCEPT ![t] = "UNKNOWN_ERROR"]
  /\ UNCHANGED <<connVars, saved, wanted, freer, npVars, inbox, histVars>>

\* mutant: np_lock does not wait
SendLock_NoWait(t) ==
  /\ apc[t] = "send_lock"
  /\ mutex' = t
  /\ Goto(t, "sending")
  /\ UNCHANGED <<parent, notifier, conn, saved, todo, wanted, res, freer, npVars,
                 inbox, histVars>>

SendLock(t) ==
  /\ apc[t] = "send_lock" /\ mutex = None
  /\ mutex' = t
  /\ Goto(t, "sending")
  /\ UNCHANGED <<parent, notifier, conn, saved, todo, wanted, res, freer, npVars,
                 inbox, histVars>>

\* mutant: the end of the array is not looked at
SendPlist_PastEnd(t) ==
  /\ apc[t] = "sending"
  /\ res' = [res EXCEPT ![t] = SendResult]
  /\ todo' = [todo EXCEPT ![t] = @ - 1]
  /\ UNCHANGED <<connVars, apc, saved, wanted, freer, npVars, inbox, histVars>>

SendPlist(t) ==
  /\ apc[t] = "sending" /\ todo[t] > 0
  /\ res' = [res EXCEPT ![t] = SendResult]
  /\ todo' = [todo EXCEPT ![t] = IF SendResult = "SUCCESS" THEN @ - 1 ELSE 0]
  /\ UNCHANGED <<connVars, apc, saved, wanted, freer, npVars, inbox, histVars>>

SendReturn(t) ==
  /\ apc[t] = "sending" /\ todo[t] = 0
  /\ mutex' = None
  /\ Goto(t, "idle")
  /\ UNCHANGED <<parent, notifier, conn, saved, todo, wanted, res, freer, npVars,
                 inbox, histVars>>

\* np_set_notify_callback(client, cb): cb # NULL registers, NULL removes
SetCallbackCall(t, cb) ==
  /\ calls < MaxReg
  /\ Call(t, "cb_lock")
  /\ calls' = calls + 1
  /\ wanted' = [wanted EXCEPT ![t] = IF cb THEN calls + 1 ELSE 0]
  /\ UNCHANGED <<connVars, saved, todo, res, freer, npVars, inbox, sent,
                 taken, delivered>>

SetCallbackLock(t) ==
  /\ apc[t] = "cb_lock" /\ mutex = None
  /\ mutex' = t
  /\ Goto(t, "cb_check")
  /\ UNCHANGED <<parent, notifier, conn, saved, todo, wanted, res, freer, npVars,
                 inbox, histVars>>

\* mutant: the running notifier is not stopped
SetCallbackStop_Keep(t) ==
  /\ apc[t] = "cb_check"
  /\ Goto(t, "cb_new")
  /\ UNCHANGED <<connVars, saved, todo, wanted, res, freer, npVars, inbox,
                 histVars>>

\* With a notifier running: clear client->parent to stop it, then join it.
SetCallbackStop(t) ==
  /\ apc[t] = "cb_check"
  /\ IF notifier # 0
     THEN /\ saved' = [saved EXCEPT ![t] = parent]
          /\ parent' = FALSE
          /\ Goto(t, "cb_join")
     ELSE Goto(t, "cb_new") /\ UNCHANGED <<saved, parent>>
  /\ UNCHANGED <<mutex, notifier, conn, todo, wanted, res, freer, npVars, inbox,
                 histVars>>

\* mutant: the thread is asked to stop and not waited for
SetCallbackJoin_NoWait(t) ==
  /\ apc[t] = "cb_join"
  /\ notifier' = 0
  /\ parent' = saved[t]
  /\ Goto(t, "cb_new")
  /\ UNCHANGED <<mutex, conn, saved, todo, wanted, res, freer, npVars, inbox,
                 histVars>>

\* mutant: client->parent is not restored
SetCallbackJoin_KeepNull(t) ==
  /\ apc[t] = "cb_join" /\ npc[notifier] = "exited"
  /\ notifier' = 0
  /\ Goto(t, "cb_new")
  /\ UNCHANGED <<mutex, parent, conn, saved, todo, wanted, res, freer, npVars,
                 inbox, histVars>>

\* thread_join, with client->mutex still held
SetCallbackJoin(t) ==
  /\ apc[t] = "cb_join" /\ npc[notifier] = "exited"
  /\ notifier' = 0
  /\ parent' = saved[t]
  /\ Goto(t, "cb_new")
  /\ UNCHANGED <<mutex, conn, saved, todo, wanted, res, freer, npVars, inbox,
                 histVars>>

\* thread_new may fail; a NULL callback creates nothing and returns res as
\* it was initialised, NP_E_UNKNOWN_ERROR; the call's variables end with it
SetCallbackNew(t) ==
  /\ apc[t] = "cb_new"
  /\ \/ /\ wanted[t] # 0
        /\ notifier' = wanted[t]
        /\ NpGoto(wanted[t], "head")
        /\ res' = [res EXCEPT ![t] = "SUCCESS"]
     \/ /\ res' = [res EXCEPT ![t] = "UNKNOWN_ERROR"]
        /\ UNCHANGED <<notifier, npc>>
  /\ mutex' = None
  /\ wanted' = [wanted EXCEPT ![t] = 0]
  /\ saved' = [saved EXCEPT ![t] = FALSE]
  /\ Goto(t, "idle")
  /\ UNCHANGED <<parent, conn, todo, freer, held, inbox, histVars>>

-----------------------------------------------------------------------------
(* np_client_free: takes no lock.  Called once, by a thread that knows the *)
(* others are not inside the client any more.                              *)

FreeCall(t) ==
  /\ \A u \in Threads : apc[u] = "idle"
  /\ Call(t, "free_send")
  /\ freer' = t
  /\ UNCHANGED <<connVars, saved, todo, wanted, res, npVars, inbox, histVars>>

\* The Shutdown command; the device answers ProxyDeath.  The result is ignored.
FreeSendShutdown(t) ==
  /\ apc[t] = "free_send"
  /\ inbox' = IF SendResult = "SUCCESS" THEN Append(inbox, ProxyDeath) ELSE inbox
  /\ Goto(t, "free_null")
  /\ UNCHANGED <<connVars, saved, todo, wanted, res, freer, npVars, histVars>>

\* mutant: np_client_free holds the mutex while it stops the notifier
FreeNullParent_Locked(t) ==
  /\ apc[t] = "free_null" /\ mutex = None
  /\ mutex' = t
  /\ saved' = [saved EXCEPT ![t] = parent]
  /\ parent' = FALSE
  /\ Goto(t, IF notifier # 0 THEN "free_join" ELSE "free_recv")
  /\ UNCHANGED <<notifier, conn, todo, wanted, res, freer, npVars, inbox,
                 histVars>>

\* mutant: np_client_free does not join the notifier
FreeNullParent_NoJoin(t) ==
  /\ apc[t] = "free_null"
  /\ saved' = [saved EXCEPT ![t] = parent]
  /\ parent' = FALSE
  /\ Goto(t, "free_recv")
  /\ UNCHANGED <<mutex, notifier, conn, todo, wanted, res, freer, npVars, inbox,
                 histVars>>

FreeNullParent(t) ==
  /\ apc[t] = "free_null"
  /\ saved' = [saved EXCEPT ![t] = parent]
  /\ parent' = FALSE
  /\ Goto(t, IF notifier # 0 THEN "free_join" ELSE "free_recv")
  /\ UNCHANGED <<mutex, notifier, conn, todo, wanted, res, freer, npVars, inbox,
                 histVars>>

\* mutant: the join returns before the thread has exited
FreeJoin_NoWait(t) ==
  /\ apc[t] = "free_join"
  /\ notifier' = 0
  /\ Goto(t, "free_close")
  /\ UNCHANGED <<mutex, parent, conn, saved, todo, wanted, res, freer, npVars,
                 inbox, histVars>>

FreeJoin(t) ==
  /\ apc[t] = "free_join" /\ npc[notifier] = "exited"
  /\ notifier' = 0
  /\ Goto(t, "free_close")
  /\ UNCHANGED <<mutex, parent, conn, saved, todo, wanted, res, freer, npVars, inbox,
                 histVars>>

\* With no notifier: read one answer, whatever it is, or time out
FreeReceive(t) ==
  /\ apc[t] = "free_recv"
  /\ inbox' = IF inbox = <<>> THEN inbox ELSE Tail(inbox)
  /\ taken' = IF inbox # <<>> /\ Head(inbox) \in Names THEN taken + 1 ELSE taken
  /\ Goto(t, "free_close")
  /\ UNCHANGED <<connVars, saved, todo, wanted, res, freer, npVars, calls, sent,
                 delivered>>

FreeClose(t) ==
  /\ apc[t] = "free_close"
  /\ conn' = "freed"
  /\ res' = [res EXCEPT ![t] = "SUCCESS"]
  /\ Goto(t, "done")
  /\ UNCHANGED <<mutex, parent, notifier, saved, todo, wanted, freer, npVars, inbox,
                 histVars>>

-----------------------------------------------------------------------------
(* The notifier thread                                                     *)

\* while (npt->client->parent)
NotifierHead(i) ==
  /\ npc[i] = "head"
  /\ NpGoto(i, IF parent THEN "enter" ELSE "exited")
  /\ UNCHANGED <<connVars, appVars, held, inbox, histVars>>

\* np_get_notification: the early return when client->parent is NULL
NotifierEnter(i) ==
  /\ npc[i] = "enter"
  /\ NpGoto(i, IF parent THEN "lock" ELSE "fail")
  /\ UNCHANGED <<connVars, appVars, held, inbox, histVars>>

NotifierLock(i) ==
  /\ npc[i] = "lock" /\ mutex = None
  /\ mutex' = i
  /\ NpGoto(i, "begin")
  /\ UNCHANGED <<parent, notifier, conn, appVars, held, inbox, histVars>>

\* client->parent is read again for the call: NULL is PROPERTY_LIST_SERVICE_E_INVALID_ARG
NotifierReceiveBegin(i) ==
  /\ npc[i] = "begin"
  /\ IF parent
     THEN NpGoto(i, "recv") /\ mutex' = mutex
     ELSE NpGoto(i, "fail") /\ mutex' = None
  /\ UNCHANGED <<parent, notifier, conn, appVars, held, inbox, histVars>>

\* the 500 ms receive ends and the mutex is released
NotifierReceiveEnd(i) ==
  /\ npc[i] = "recv"
  /\ mutex' = None
  /\ \/ /\ inbox # <<>>
        /\ inbox' = Tail(inbox)
        /\ IF Head(inbox) \in Names
           THEN /\ held' = [held EXCEPT ![i] = Head(inbox)] /\ taken' = taken + 1
                /\ NpGoto(i, "cb")
           ELSE UNCHANGED <<held, taken>> /\ NpGoto(i, "fail")
     \/ /\ inbox = <<>>
        /\ NpGoto(i, IF conn = "open" THEN "sleep" ELSE "fail")
        /\ UNCHANGED <<held, inbox, taken>>
  /\ UNCHANGED <<parent, notifier, conn, appVars, calls, sent, delivered>>

\* mutant: a notifier that has been asked to stop drops what it has read
NotifierCallback_Stopped(i) ==
  /\ npc[i] = "cb"
  /\ delivered' = IF parent THEN Append(delivered, <<i, held[i]>>) ELSE delivered
  /\ held' = [held EXCEPT ![i] = NoName]
  /\ NpGoto(i, "sleep")
  /\ UNCHANGED <<connVars, appVars, inbox, calls, sent, taken>>

\* cbfunc(notification): the application may use the client from inside it
NotifierCallback(i) ==
  /\ npc[i] = "cb"
  /\ delivered' = Append(delivered, <<i, held[i]>>)
  /\ held' = [held EXCEPT ![i] = NoName]
  /\ \/ NpGoto(i, "sleep")
     \/ CallbackPosts /\ NpGoto(i, "post_lock")
  /\ UNCHANGED <<connVars, appVars, inbox, calls, sent, taken>>

NotifierPostLock(i) ==
  /\ npc[i] = "post_lock" /\ mutex = None
  /\ mutex' = i
  /\ NpGoto(i, "post_send")
  /\ UNCHANGED <<parent, notifier, conn, appVars, held, inbox, histVars>>

NotifierPostSend(i) ==
  /\ npc[i] = "post_send"
  /\ mutex' = None
  /\ NpGoto(i, "sleep")
  /\ UNCHANGED <<parent, notifier, conn, appVars, held, inbox, histVars>>

\* np_get_notification failed: cbfunc(NoName) and leave the loop
NotifierFail(i) ==
  /\ npc[i] = "fail"
  /\ delivered' = Append(delivered, <<i, NoName>>)
  /\ NpGoto(i, "exited")
  /\ UNCHANGED <<connVars, appVars, held, inbox, calls, sent, taken>>

NotifierSleep(i) ==
  /\ npc[i] = "sleep"
  /\ NpGoto(i, "head")
  /\ UNCHANGED <<connVars, appVars, held, inbox, histVars>>

-----------------------------------------------------------------------------
(* The device and the link (external)                                      *)

DeviceRelay(n) ==
  /\ conn = "open" /\ Len(sent) < MaxMsg
  /\ inbox' = Append(inbox, n)
  /\ sent' = Append(sent, n)
  /\ UNCHANGED <<connVars, appVars, npVars, calls, taken, delivered>>

\* an unknown command, or a RelayNotification without a name
DeviceJunk ==
  /\ conn = "open" /\ Len(sent) < MaxMsg
  /\ Junk \notin {inbox[k] : k \in 1..Len(inbox)}
  /\ inbox' = Append(inbox, Junk)
  /\ UNCHANGED <<connVars, appVars, npVars, histVars>>

DeviceLost ==
  /\ conn = "open"
  /\ conn' = "lost"
  /\ UNCHANGED <<mutex, parent, notifier, appVars, npVars, inbox, histVars>>

-----------------------------------------------------------------------------
AppStep(t) ==
  \/ SendLock(t) \/ SendPlist(t) \/ SendReturn(t)
  \/ SetCallbackLock(t) \/ SetCallbackStop(t) \/ SetCallbackJoin(t)
  \/ SetCallbackNew(t)
  \/ FreeSendShutdown(t) \/ FreeNullParent(t) \/ FreeJoin(t) \/ FreeReceive(t)
  \/ FreeClose(t)

NotifierStep(i) ==
  \/ NotifierHead(i) \/ NotifierEnter(i) \/ NotifierLock(i)
  \/ NotifierReceiveBegin(i) \/ NotifierReceiveEnd(i)
  \/ NotifierCallback(i) \/ NotifierPostLock(i) \/ NotifierPostSend(i)
  \/ NotifierFail(i) \/ NotifierSleep(i)

AppCall(t) ==
  \/ \E k \in 0..MaxBatch : SendCall(t, k)
  \/ \E cb \in BOOLEAN : SetCallbackCall(t, cb)
  \/ FreeCall(t)

Device == \/ \E n \in Names : DeviceRelay(n)
          \/ DeviceJunk
          \/ DeviceLost

Finished == conn = "freed" /\ UNCHANGED vars

Next ==
  \/ \E t \in Threads : AppCall(t) \/ AppStep(t)
  \/ \E i \in Regs : NotifierStep(i)
  \/ Device
  \/ Finished

Spec == Init /\ [][Next]_vars

\* Every thread that can run eventually does; nothing is assumed of the
\* device or of what the application decides to call.
FairSpec == /\ Spec
            /\ \A t \in Threads : WF_vars(AppStep(t))
            /\ \A i \in Regs : WF_vars(NotifierStep(i))

\* The same with a starvation-free mutex
StrongFairSpec == /\ Spec
                  /\ \A t \in Threads : SF_vars(AppStep(t))
                  /\ \A i \in Regs : SF_vars(NotifierStep(i))

-----------------------------------------------------------------------------
(* Properties                                                              *)

Alive(i) == npc[i] \notin {"unborn", "exited"}

\* Every variable has its type.
TypeOK ==
  /\ mutex \in Threads \union Regs \union {None}
  /\ parent \in BOOLEAN
  /\ notifier \in 0..MaxReg
  /\ conn \in {"open", "lost", "freed"}
  /\ apc \in [Threads -> AppPcs]
  /\ saved \in [Threads -> BOOLEAN]
  /\ todo \in [Threads -> 0..MaxBatch]
  /\ wanted \in [Threads -> 0..MaxReg]
  /\ res \in [Threads -> Results]
  /\ freer \in Threads \union {None}
  /\ npc \in [Regs -> NpPcs]
  /\ held \in [Regs -> Names \union {NoName}]
  /\ inbox \in Seq(Messages)
  /\ calls \in 0..MaxReg
  /\ sent \in Seq(Names) /\ taken \in Nat
  /\ delivered \in Seq(Regs \X (Names \union {NoName}))

\* Who is between np_lock and np_unlock.
Locked(t) == apc[t] \in {"sending", "cb_check", "cb_join", "cb_new"}
NpLocked(i) == npc[i] \in {"begin", "recv", "post_send"}

\* The connection is used by one thread at a time: a thread between np_lock
\* and np_unlock is the one that holds the mutex, so a request of one thread
\* and the poll of the notifier never interleave (notification_proxy.c:54).
MutexHeld ==
  /\ \A t \in Threads : Locked(t) => mutex = t
  /\ \A i \in Regs : NpLocked(i) => mutex = i

\* No notifier outlives its handle: whatever thread is running is the one
\* client->notifier names, so the next join reaches it and two callbacks are
\* never active together (np_set_notify_callback, np_client_free).
NoOrphanNotifier == \A i \in Regs : Alive(i) => i = notifier

\* Once np_client_free has closed the connection and freed the client no
\* thread is still inside a function that uses either.
NoUseAfterFree ==
  conn = "freed" => /\ \A i \in Regs : ~Alive(i)
                    /\ \A t \in Threads : apc[t] \in {"idle", "done"}

\* client->parent, borrowed as a stop flag by np_set_notify_callback, is
\* always given back: it is NULL only while a thread waits in the join or the
\* client is being freed.
ParentGivenBack ==
  ~parent => (\E t \in Threads : apc[t] = "cb_join") \/ freer # None

(* The parts of the inductive invariant that the properties above rest on. *)
FreePcs == {"free_send", "free_null", "free_join", "free_recv", "free_close",
            "done"}

\* Whoever is in np_client_free is the freer, and alone in the client.
FreerAlone ==
  /\ \A t \in Threads : apc[t] \in FreePcs => freer = t
  /\ \A t \in Threads : freer # None /\ t # freer => apc[t] = "idle"
  /\ \A t \in Threads : freer = t => apc[t] \in FreePcs

\* When the handle is set and when it is not.
HandleState ==
  /\ \A t \in Threads : apc[t] \in {"cb_join", "free_join"} => notifier # 0
  /\ \A t \in Threads :
       apc[t] \in {"cb_new", "free_recv", "free_close", "done"} => notifier = 0

\* The pointer to restore is the one the client had.
SavedParent == \A t \in Threads : apc[t] = "cb_join" => saved[t]

\* Only the thread that has finished np_client_free has freed the client.
FreedByFreer == conn = "freed" => \E t \in Threads : apc[t] = "done"

\* A notifier holds a notification exactly while it is about to call back.
HeldForCallback == \A i \in Regs : held[i] # NoName <=> npc[i] = "cb"

\* The inductive invariant: one notifier, named by its handle; one thread on the connection,
\* with the mutex; a parent that is always given back; and one thread that frees.
IInv == /\ TypeOK /\ MutexHeld /\ NoOrphanNotifier /\ FreerAlone
        /\ HandleState /\ SavedParent /\ ParentGivenBack /\ FreedByFreer
        /\ HeldForCallback

(* Where the notifications are.                                            *)
InHand == IF notifier # 0 /\ held[notifier] # NoName THEN <<held[notifier]>> ELSE <<>>
Told == [k \in 1..Len(delivered) |-> delivered[k][2]]

\* The names in q are s[from + 1..to], in this order: q has that many, and its k-th name
\* is the k-th of them.
Places(q) == {p \in 1..Len(q) : q[p] \in Names}
Rank(q, p) == Cardinality({k \in Places(q) : k <= p})
Carries(q, s, from, to) ==
  /\ from + Cardinality(Places(q)) = to
  /\ \A p \in Places(q) : q[p] = s[from + Rank(q, p)]

\* np_client_free has read the answer it throws away.
Drained == \E t \in Threads : apc[t] \in {"free_close", "done"}

\* No notification is lost, repeated or reordered: what is unread is what the device
\* relayed and nobody has taken, and until np_client_free throws its answer away what the
\* callbacks were told and what the notifier holds are the rest, across any change of
\* callback.
NothingLost ==
  /\ Carries(inbox, sent, taken, Len(sent))
  /\ ~Drained => /\ Carries(Told, sent, 0, taken - Len(InHand))
                 /\ InHand # <<>> => InHand[1] = sent[taken]

\* A callback comes only from the registered notifier: after
\* np_set_notify_callback returns, the previous callback is never called.
OnlyRegisteredCalled ==
  [][delivered' # delivered => Last(delivered')[1] = notifier]_vars

\* The client refines NotifyCallback: registering, removing and freeing take
\* effect as single steps, and each callback is one of the abstract reports.
Abstract == INSTANCE NotifyCallback WITH
              registered <- notifier,
              pending <- InHand \o SubSeq(sent, taken + 1, Len(sent)),
              log <- delivered, closed <- (conn = "freed")
ImplementsNotifyCallback == Abstract!Spec

\* np_client_free always returns, whatever the notifier was doing.
FreeReturns == (freer # None) ~> (conn = "freed")

\* include/libimobiledevice/notification_proxy.h:189-190: a previously set
\* callback is removed automatically, so the call that removes it gets past
\* the join.
PreviousCallbackRemoved ==
  \A t \in Threads : (apc[t] = "cb_join") ~> (apc[t] # "cb_join")
=============================================================================
