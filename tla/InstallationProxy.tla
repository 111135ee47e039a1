-------------------------- MODULE InstallationProxy --------------------------
(***************************************************************************)
(* The installation_proxy client of src/installation_proxy.c.  A command   *)
(* is sent, then a loop receives status messages for it until one ends the *)
(* command: in the calling thread (sync), or in a status thread whose      *)
(* handle is client->receive_status_thread (async).  The mutex covers one  *)
(* send or one receive, not the command.                                   *)
(***************************************************************************)
EXTENDS Naturals, Sequences

CONSTANTS
  Threads,   \* application threads that share one instproxy_client_t
  None,      \* the mutex is free
  Kinds,     \* the kinds of message the device sends
  MaxCmd,    \* bound: commands
  MaxMsg     \* bound: messages the device sends

AllKinds == {"Progress", "Note", "Complete", "Failed", "FailedProgress", "Junk"}
Cmds == 1..MaxCmd
Loops == Threads \union Cmds \* a status thread has the number of its command

ASSUME ConstAssumption ==
  /\ MaxCmd \in Nat /\ MaxMsg \in Nat
  /\ Kinds \subseteq AllKinds
  /\ Threads \cap Nat = {} /\ None \notin Threads \union Nat

Types == {"sync", "async"}
NoMsg == <<0, "none">>
Messages == Cmds \X Kinds

VARIABLES
  mutex,     \* client->mutex
  parent,    \* client->parent # NULL
  handle,    \* client->receive_status_thread, 0 is THREAD_T_NULL
  conn,      \* the connection: "open", "lost" (device gone), "freed" (and the client)
  pc,        \* where each application or status thread is
  cmd,       \* the command an application thread performs, and of which type
  type,
  sent,      \* history: commands that went out
  res,       \* the instproxy_error_t of each loop
  complete,  \* its flag complete
  node,      \* the message it has received
  joining,   \* the thread instproxy_client_free is about to join
  commands,  \* history: commands begun
  devq,      \* commands the device has received and not finished
  inbox,     \* messages nobody has read
  msgs,      \* history: messages sent by the device
  reported,  \* history: <<command, message>> for every call of a status callback
  abandoned  \* history: a command was left while the device works on it

clientVars == <<mutex, parent, handle, conn>>
callVars == <<cmd, type, joining, commands>>
loopVars == <<res, complete, node>>
devVars == <<devq, inbox, msgs>>
histVars == <<sent, reported, abandoned>>
vars == <<pc, clientVars, callVars, loopVars, devVars, histVars>>

Init ==
  /\ mutex = None /\ parent = TRUE /\ handle = 0 /\ conn = "open"
  /\ pc = [p \in Loops |-> "idle"]
  /\ cmd = [t \in Threads |-> 0]
  /\ type = [t \in Threads |-> "sync"]
  /\ sent = {} /\ joining = 0 /\ commands = 0
  /\ res = [p \in Loops |-> "none"]
  /\ complete = [p \in Loops |-> FALSE]
  /\ node = [p \in Loops |-> NoMsg]
  /\ devq = <<>> /\ inbox = <<>> /\ msgs = 0
  /\ reported = {} /\ abandoned = FALSE

Goto(p, l) == pc' = [pc EXCEPT ![p] = l]
Result(p, r) == res' = [res EXCEPT ![p] = r]
CommandOf(p) == IF p \in Threads THEN cmd[p] ELSE p

FreePcs == {"free_check", "free_join", "free_close", "freed"}
Freeing == \E t \in Threads : pc[t] \in FreePcs

-----------------------------------------------------------------------------
(* instproxy_perform_command: two looks at the handle without the mutex     *)

\* mutant: a command is sent while a status thread runs
Call_WhileBusy(t, ty) ==
  /\ pc[t] = "idle" /\ ~Freeing /\ commands < MaxCmd
  /\ commands' = commands + 1
  /\ cmd' = [cmd EXCEPT ![t] = commands + 1]
  /\ type' = [type EXCEPT ![t] = ty]
  /\ Goto(t, "send_lock") /\ Result(t, "UNKNOWN_ERROR")
  /\ UNCHANGED <<clientVars, complete, node, joining, devVars, histVars>>

Call(t, ty) ==
  /\ pc[t] = "idle" /\ ~Freeing /\ commands < MaxCmd
  /\ commands' = commands + 1
  /\ cmd' = [cmd EXCEPT ![t] = commands + 1]
  /\ type' = [type EXCEPT ![t] = ty]
  /\ IF handle # 0 THEN Result(t, "OP_IN_PROGRESS") /\ UNCHANGED pc
     ELSE Goto(t, "send_lock") /\ Result(t, "UNKNOWN_ERROR")
  /\ UNCHANGED <<clientVars, complete, node, joining, devVars, histVars>>

SendLock(t) ==
  /\ pc[t] = "send_lock" /\ mutex = None
  /\ mutex' = t
  /\ Goto(t, "send")
  /\ UNCHANGED <<parent, handle, conn, callVars, loopVars, devVars, histVars>>

\* the result of instproxy_send_command is overwritten
Send(t) ==
  /\ pc[t] = "send"
  /\ mutex' = None
  /\ Goto(t, "check")
  /\ IF conn = "open"
     THEN devq' = Append(devq, cmd[t]) /\ sent' = sent \union {cmd[t]}
     ELSE UNCHANGED <<devq, sent>>
  /\ UNCHANGED <<parent, handle, conn, callVars, loopVars, inbox, msgs, reported, abandoned>>

Check(t) ==
  /\ pc[t] = "check"
  /\ IF handle # 0 THEN Goto(t, "idle") /\ Result(t, "OP_IN_PROGRESS")
     ELSE UNCHANGED res /\ Goto(t, IF type[t] = "async" THEN "new" ELSE "lock")
  /\ complete' = [complete EXCEPT ![t] = FALSE]
  /\ UNCHANGED <<clientVars, callVars, node, devVars, histVars>>

NewThread(t) ==
  /\ pc[t] = "new"
  /\ \/ /\ handle' = cmd[t]
        /\ pc' = [pc EXCEPT ![t] = "idle", ![cmd[t]] = "lock"]
        /\ Result(t, "SUCCESS")
        /\ UNCHANGED abandoned
     \/ /\ Goto(t, "idle") /\ UNCHANGED <<handle, res>> \* thread_new failed
        /\ abandoned' = TRUE
  /\ UNCHANGED <<mutex, parent, conn, callVars, complete, node, devVars, sent, reported>>

-----------------------------------------------------------------------------
(* instproxy_receive_status_loop, in an application or a status thread      *)

LoopLock(p) ==
  /\ pc[p] = "lock" /\ mutex = None
  /\ mutex' = p
  /\ Goto(p, "receive")
  /\ UNCHANGED <<parent, handle, conn, callVars, loopVars, devVars, histVars>>

\* the communication error that ends a loop
LoopError ==
  IF ~parent THEN "INVALID_ARG"
  ELSE IF inbox = <<>> THEN IF conn = "lost" THEN "CONN_FAILED" ELSE "none"
  ELSE IF Head(inbox)[2] = "Junk" THEN "PLIST_ERROR" ELSE "none"

\* where a loop goes when it is over
LoopEnd(p) == IF p \in Threads THEN "idle" ELSE "clean_lock"

\* mutant: breaks out of the loop before the unlock
LoopReceiveError_KeepsLock(p) ==
  /\ pc[p] = "receive" /\ LoopError # "none"
  /\ Result(p, LoopError)
  /\ Goto(p, LoopEnd(p))
  /\ UNCHANGED <<clientVars, callVars, complete, node, devVars, histVars>>

LoopReceiveError(p) ==
  /\ pc[p] = "receive" /\ LoopError # "none"
  /\ mutex' = None
  /\ Result(p, LoopError)
  /\ inbox' = IF LoopError = "PLIST_ERROR" THEN Tail(inbox) ELSE inbox
  /\ abandoned' = (abandoned \/ LoopError = "PLIST_ERROR")
  /\ Goto(p, LoopEnd(p))
  /\ UNCHANGED <<parent, handle, conn, callVars, complete, node, devq, msgs, sent, reported>>

\* one second without a message
LoopTimeout(p) ==
  /\ pc[p] = "receive" /\ parent /\ inbox = <<>>
  /\ mutex' = None
  /\ Result(p, "RECEIVE_TIMEOUT")
  /\ Goto(p, "head")
  /\ UNCHANGED <<parent, handle, conn, callVars, complete, node, devVars, histVars>>

LoopReceive(p) ==
  /\ pc[p] = "receive" /\ LoopError = "none" /\ inbox # <<>>
  /\ mutex' = None
  /\ node' = [node EXCEPT ![p] = Head(inbox)]
  /\ inbox' = Tail(inbox)
  /\ Goto(p, "status")
  /\ UNCHANGED <<parent, handle, conn, callVars, res, complete, devq, msgs, histVars>>

HasError(kind) == kind \in {"Failed", "FailedProgress"}

\* mutant: the error name instead of its code
StatusResult_Name(kind) == kind

\* the result a message leaves: its error, unless a Status other than Complete
\* overwrites it
StatusResult(kind) ==
  IF kind \in {"Progress", "FailedProgress"} THEN "OP_IN_PROGRESS"
  ELSE IF kind = "Failed" THEN "FAILED" ELSE "SUCCESS"

\* mutant: a message without Status ends the command
LoopStatus_NoteEnds(p) ==
  /\ pc[p] = "status"
  /\ Result(p, StatusResult(node[p][2]))
  /\ complete' = [complete EXCEPT ![p] = node[p][2] # "Progress"]
  /\ reported' = reported \union {<<CommandOf(p), node[p]>>}
  /\ node' = [node EXCEPT ![p] = NoMsg]
  /\ Goto(p, "head")
  /\ UNCHANGED <<clientVars, callVars, devVars, sent, abandoned>>

LoopStatus(p) ==
  /\ pc[p] = "status"
  /\ Result(p, StatusResult(node[p][2]))
  /\ complete' = [complete EXCEPT ![p] = @ \/ HasError(node[p][2]) \/ node[p][2] = "Complete"]
  /\ reported' = reported \union {<<CommandOf(p), node[p]>>}
  /\ node' = [node EXCEPT ![p] = NoMsg]
  /\ Goto(p, "head")
  /\ UNCHANGED <<clientVars, callVars, devVars, sent, abandoned>>

\* mutant: a loop that is complete clears the handle, and goes on for the rest
LoopHead_ClearsEarly(p) ==
  /\ pc[p] = "head"
  /\ handle' = IF complete[p] THEN 0 ELSE handle
  /\ Goto(p, IF ~parent THEN LoopEnd(p) ELSE "lock")
  /\ UNCHANGED <<mutex, parent, conn, callVars, loopVars, devVars, histVars>>

\* while (!complete && client->parent)
LoopHead(p) ==
  /\ pc[p] = "head"
  /\ Goto(p, IF complete[p] \/ ~parent THEN LoopEnd(p) ELSE "lock")
  /\ UNCHANGED <<clientVars, callVars, loopVars, devVars, histVars>>

-----------------------------------------------------------------------------
(* The end of a status thread, which clears its own handle                  *)

CleanLock(i) ==
  /\ pc[i] = "clean_lock" /\ mutex = None
  /\ mutex' = i
  /\ Goto(i, "clean")
  /\ UNCHANGED <<parent, handle, conn, callVars, loopVars, devVars, histVars>>

Clean(i) ==
  /\ pc[i] = "clean"
  /\ handle' = 0
  /\ Goto(i, "clean_unlock")
  /\ UNCHANGED <<mutex, parent, conn, callVars, loopVars, devVars, histVars>>

CleanUnlock(i) ==
  /\ pc[i] = "clean_unlock"
  /\ mutex' = None
  /\ Goto(i, "exited")
  /\ UNCHANGED <<parent, handle, conn, callVars, loopVars, devVars, histVars>>

-----------------------------------------------------------------------------
(* instproxy_client_free, called once and with no command in progress in an *)
(* application thread                                                      *)

\* mutant: the status thread is not told to end
FreeCall_KeepsParent(t) ==
  /\ \A u \in Threads : pc[u] = "idle"
  /\ Goto(t, "free_check")
  /\ UNCHANGED <<clientVars, callVars, loopVars, devVars, histVars>>

FreeCall(t) ==
  /\ \A u \in Threads : pc[u] = "idle"
  /\ parent' = FALSE
  /\ Goto(t, "free_check")
  /\ UNCHANGED <<mutex, handle, conn, callVars, loopVars, devVars, histVars>>

\* mutant: the status thread is not joined
FreeCheck_NoJoin(t) ==
  /\ pc[t] = "free_check"
  /\ joining' = handle
  /\ Goto(t, "free_close")
  /\ UNCHANGED <<clientVars, cmd, type, commands, loopVars, devVars, histVars>>

FreeCheck(t) ==
  /\ pc[t] = "free_check"
  /\ joining' = handle
  /\ Goto(t, IF handle # 0 THEN "free_join" ELSE "free_close")
  /\ UNCHANGED <<clientVars, cmd, type, commands, loopVars, devVars, histVars>>

\* the handle is read again, or not; thread_join(THREAD_T_NULL) does not wait
FreeJoin(t) ==
  /\ pc[t] = "free_join"
  /\ \E h \in {joining, handle} : h # 0 => pc[h] = "exited"
  /\ handle' = 0
  /\ Goto(t, "free_close")
  /\ UNCHANGED <<mutex, parent, conn, callVars, loopVars, devVars, histVars>>

FreeClose(t) ==
  /\ pc[t] = "free_close"
  /\ conn' = "freed"
  /\ Goto(t, "freed")
  /\ UNCHANGED <<mutex, parent, handle, callVars, loopVars, devVars, histVars>>

-----------------------------------------------------------------------------
(* The device (external): messages for the command it works on, the last of *)
(* which ends it; or the connection is lost                                *)

DeviceStatus ==
  /\ conn = "open" /\ devq # <<>> /\ msgs < MaxMsg
  /\ \E k \in Kinds :
       /\ inbox' = Append(inbox, <<Head(devq), k>>)
       /\ devq' = IF HasError(k) \/ k = "Complete" THEN Tail(devq) ELSE devq
  /\ msgs' = msgs + 1
  /\ UNCHANGED <<pc, clientVars, callVars, loopVars, histVars>>

DeviceLost ==
  /\ conn = "open"
  /\ conn' = "lost"
  /\ UNCHANGED <<pc, mutex, parent, handle, callVars, loopVars, devVars, histVars>>

AppStep(t) == SendLock(t) \/ Send(t) \/ Check(t) \/ NewThread(t)
              \/ FreeCheck(t) \/ FreeJoin(t) \/ FreeClose(t)
LoopStep(p) == LoopLock(p) \/ LoopReceiveError(p) \/ LoopTimeout(p) \/ LoopReceive(p)
               \/ LoopStatus(p) \/ LoopHead(p)
CleanStep(i) == CleanLock(i) \/ Clean(i) \/ CleanUnlock(i)

Finished ==
  /\ conn = "freed" /\ \A i \in Cmds : pc[i] \in {"idle", "exited"}
  /\ UNCHANGED vars

Next ==
  \/ \E t \in Threads : (\E ty \in Types : Call(t, ty)) \/ FreeCall(t) \/ AppStep(t)
  \/ \E p \in Loops : LoopStep(p)
  \/ \E i \in Cmds : CleanStep(i)
  \/ DeviceStatus \/ DeviceLost \/ Finished

Spec == Init /\ [][Next]_vars

\* every receive ends after a second, so each thread goes on; the application calls
\* and the device acts as it likes
FairSpec ==
  /\ Spec
  /\ \A t \in Threads : WF_vars(AppStep(t))
  /\ \A p \in Loops : WF_vars(LoopStep(p))
  /\ \A i \in Cmds : WF_vars(CleanStep(i))

-----------------------------------------------------------------------------
(* Properties                                                              *)

LoopPcs == {"lock", "receive", "status", "head"}
Holding == {"send", "receive", "clean", "clean_unlock"}
Results == {"none", "UNKNOWN_ERROR", "OP_IN_PROGRESS", "SUCCESS", "INVALID_ARG",
            "CONN_FAILED", "PLIST_ERROR", "RECEIVE_TIMEOUT", "FAILED"}

\* Every variable keeps its type.
TypeOK ==
  /\ mutex \in Loops \union {None}
  /\ parent \in BOOLEAN /\ handle \in {0} \union Cmds
  /\ conn \in {"open", "lost", "freed"}
  /\ pc \in [Loops -> LoopPcs \union Holding \union FreePcs \union
                      {"idle", "send_lock", "check", "new", "clean_lock", "exited"}]
  /\ cmd \in [Threads -> {0} \union Cmds] /\ type \in [Threads -> Types]
  /\ sent \subseteq Cmds
  /\ res \in [Loops -> Results]
  /\ complete \in [Loops -> BOOLEAN]
  /\ node \in [Loops -> Messages \union {NoMsg}]
  /\ joining \in {0} \union Cmds
  /\ commands \in 0..MaxCmd /\ msgs \in 0..MaxMsg
  /\ devq \in Seq(Cmds) /\ inbox \in Seq(Messages)
  /\ reported \subseteq Cmds \X Messages
  /\ abandoned \in BOOLEAN

\* One thread at a time uses the connection, and it holds the mutex.
MutexHeld == \A p \in Loops : pc[p] \in Holding <=> mutex = p

\* A status message reaches the callback of the command it is about, and a sync command that
\* returns SUCCESS was received and completed by the device, although the result of the send
\* is dropped; unless an earlier command was left half-way: after a malformed message, or
\* without a thread.
StatusToOwnCommand ==
  ~abandoned =>
    /\ \A r \in reported : r[1] = r[2][1]
    /\ \A t \in Threads :
         pc[t] = "idle" /\ type[t] = "sync" /\ res[t] = "SUCCESS" =>
           cmd[t] \in sent /\ <<cmd[t], <<cmd[t], "Complete">>>> \in reported

\* A command is accepted only when no status thread is receiving any more: a thread
\* clears the handle after its last callback, and nobody else does.
HandleNamesReceiver ==
  \A i \in Cmds : pc[i] \in LoopPcs \union {"clean_lock", "clean"} => handle = i

\* Once instproxy_client_free has freed the client no status callback is made and
\* nothing is received, wherever the status thread was when it began.
NoCallbackAfterFree == conn = "freed" => \A i \in Cmds : pc[i] \notin LoopPcs

\* What instproxy_lock and the handle are for: one user of the connection, one receiver of
\* status messages, which the handle names, and none once the client is freed.
Inv == TypeOK /\ MutexHeld /\ HandleNamesReceiver /\ NoCallbackAfterFree

\* instproxy_client_free returns: a status thread that waits for messages or for the
\* mutex, or that is in a callback, ends within a turn of its loop.
FreeReturns == \A t \in Threads : pc[t] = "free_check" ~> pc[t] = "freed"
=============================================================================
