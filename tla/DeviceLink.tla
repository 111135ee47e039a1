------------------------------ MODULE DeviceLink ------------------------------
(***************************************************************************)
(* The services that speak the DeviceLink protocol: the handshake, the     *)
(* messages and the disconnect of src/device_link_service.c, and on top of *)
(* them the calls of src/mobilesync.c (a session on a data class, with a   *)
(* direction), src/mobilebackup.c, src/mobilebackup2.c and                 *)
(* src/screenshotr.c.  A client has no lock and one thread.  A call sends  *)
(* at most one request and takes the next message for its answer, whatever *)
(* that was sent for.                                                      *)
(***************************************************************************)
EXTENDS Naturals, Sequences

CONSTANTS
  Services,       \* the services to look at
  DataClasses,    \* of mobilesync
  ClientVersion,  \* the version of the protocol a client accepts, <<major, minor>>
  DeviceVersions, \* those a device may have
  MaxCalls,       \* bound: calls of the application
  MaxUnread       \* bound: messages of the device that are under way

SyncCalls == {"start", "finish", "get", "receiveChanges", "clear", "acknowledge",
              "ready", "sendChanges", "remap", "cancel"}
CallsOf == [mobilesync |-> SyncCalls,
            mobilebackup |-> {"backup", "restore", "send", "receive", "fileReceived",
                              "receiveRestored", "complete", "error"},
            mobilebackup2 |-> {"hello", "request", "status", "receive"},
            screenshotr |-> {"screenshot"}]
Calls == UNION {CallsOf[s] : s \in DOMAIN CallsOf}

ASSUME ConstAssumption ==
  /\ Services \subseteq DOMAIN CallsOf /\ "none" \notin DataClasses
  /\ ClientVersion \in Nat \X Nat /\ DeviceVersions \subseteq Nat \X Nat
  /\ MaxCalls \in Nat /\ MaxUnread \in Nat

\* the message that a call waits for; the calls that are not here wait for none
Awaited == [start |-> "started", finish |-> "finished", receiveChanges |-> "changes",
            clear |-> "willClear", ready |-> "readyToReceive", remap |-> "remap",
            backup |-> "backupOk", restore |-> "restoreOk", receive |-> "any",
            receiveRestored |-> "restored", complete |-> "disconnect",
            hello |-> "response", screenshot |-> "image"]
\* the calls that only wait
Receives == {"receiveChanges", "ready", "remap", "receive", "receiveRestored"}

VARIABLES
  service,    \* of the client
  version,    \* of the device
  parent,     \* "none": no client, "open", "null": client->parent is NULL
  dataClass,  \* client->data_class, "none" is NULL
  direction,  \* client->direction
  pc,         \* the step of the call in progress
  call,       \* the call in progress, or the last one
  typed,      \* it was given a pointer for the type of the sync
  class,      \* the data class it was given
  ret,        \* its result
  answer,     \* the message it has taken
  conn,       \* the connection: "open" or "lost"
  toDevice,   \* requests that the device has not read
  inbox,      \* messages of the device that nobody has read
  calls,      \* history: calls made, the number of the last one
  behind,     \* history: on this connection a message was left unread for a later call
  stage,      \* the device in the handshake: "greet", "offered", "ready"
  devClass,   \* the data class of its session, "none" when it is in none
  asked       \* it has asked for changes in this session

syncVars == <<dataClass, direction>>
callVars == <<call, typed, class, calls>>
devVars == <<stage, devClass, asked>>
vars == <<service, version, parent, syncVars, pc, callVars, ret, answer, conn, toDevice, inbox, behind, devVars>>

Nothing == [kind |-> "none", to |-> 0, newer |-> FALSE]

Init ==
  /\ service \in Services /\ version \in DeviceVersions
  /\ parent = "none" /\ dataClass = "none" /\ direction = "deviceToComputer"
  /\ pc = "idle" /\ call = "none" /\ typed = FALSE /\ class = "none" /\ ret = "none"
  /\ answer = Nothing /\ conn = "open" /\ toDevice = <<>> /\ inbox = <<>>
  /\ calls = 0 /\ behind = FALSE
  /\ stage = "greet" /\ devClass = "none" /\ asked = FALSE

\* property_list_service_send_binary_plist: without a connection nothing goes out
Sent(kind, c) ==
  IF conn = "open" THEN Append(toDevice, [kind |-> kind, to |-> calls', class |-> c]) ELSE toDevice
SendError == IF conn = "open" THEN "SUCCESS" ELSE "MUX_ERROR"

\* device_link_service_receive: the next message, or nothing in 30 seconds
Receive(r) ==
  \/ /\ inbox # <<>> /\ r = Head(inbox) /\ inbox' = Tail(inbox)
  \/ /\ inbox = <<>> /\ r = Nothing /\ UNCHANGED inbox
Messages == {Nothing} \union (IF inbox = <<>> THEN {} ELSE {Head(inbox)})
ReceiveError == IF conn = "open" THEN "RECEIVE_TIMEOUT" ELSE "MUX_ERROR"

-----------------------------------------------------------------------------
(* *_client_new with device_link_service_version_exchange, *_client_free   *)

New ==
  /\ pc = "idle" /\ parent = "none" /\ calls < MaxCalls
  /\ calls' = calls + 1 /\ call' = "new" /\ pc' = "version" /\ parent' = "open"
  /\ dataClass' = "none" /\ direction' = "deviceToComputer"
  /\ conn' = "open" /\ toDevice' = <<>> /\ inbox' = <<>> /\ behind' = FALSE
  /\ stage' = "greet" /\ devClass' = "none" /\ asked' = FALSE
  /\ UNCHANGED <<service, version, typed, class, ret, answer>>

\* the connection ends after DLMessageDisconnect, which is the last thing sent on it
Close(e) ==
  /\ ret' = e /\ pc' = "idle" /\ parent' = "none" /\ conn' = "lost"
  /\ toDevice' = <<>> /\ dataClass' = "none" /\ direction' = "deviceToComputer"
  /\ devClass' = "none" /\ asked' = FALSE

Newer ==
  \/ version[1] > ClientVersion[1]
  \/ version[1] = ClientVersion[1] /\ version[2] > ClientVersion[2]

ReceiveVersion(r) ==
  /\ pc = "version" /\ Receive(r) /\ answer' = r /\ UNCHANGED callVars
  /\ LET e == IF r = Nothing THEN ReceiveError ELSE IF r.kind # "version" THEN "PLIST_ERROR"
              ELSE IF Newer THEN "BAD_VERSION" ELSE SendError
     IN IF e = "SUCCESS"
        THEN /\ toDevice' = Sent("versionsOk", "none") /\ pc' = "deviceReady"
             /\ UNCHANGED <<parent, syncVars, ret, conn, devClass, asked>>
        ELSE Close(e)
  /\ UNCHANGED <<service, version, behind, stage>>

ReceiveReady(r) ==
  /\ pc = "deviceReady" /\ Receive(r) /\ answer' = r
  /\ IF r.kind = "deviceReady"
     THEN /\ ret' = "SUCCESS" /\ pc' = "idle"
          /\ UNCHANGED <<parent, syncVars, conn, toDevice, devClass, asked>>
     ELSE Close(IF r = Nothing THEN ReceiveError ELSE "PLIST_ERROR")
  /\ UNCHANGED <<service, version, callVars, behind, stage>>

Free ==
  /\ pc = "idle" /\ parent # "none" /\ calls < MaxCalls
  /\ calls' = calls + 1 /\ call' = "free" /\ Close("SUCCESS") /\ answer' = Nothing
  /\ UNCHANGED <<service, version, typed, class, inbox, behind, stage>>

-----------------------------------------------------------------------------
(* The calls: what they refuse, send and take for an answer                *)

Refusal_AnyParent(op) ==
  IF op \in SyncCalls /\ (op = "start" <=> dataClass # "none") THEN "INVALID_ARG"
  ELSE IF \/ op = "ready" /\ direction # "deviceToComputer"
          \/ op \in {"sendChanges", "remap"} /\ direction # "computerToDevice"
       THEN "WRONG_DIRECTION" ELSE "none"

\* the checks at the head of every call
Refusal(op) ==
  IF parent = "null" \/ (op \in SyncCalls /\ (op = "start" <=> dataClass # "none")) THEN "INVALID_ARG"
  ELSE IF \/ op = "ready" /\ direction # "deviceToComputer"
          \/ op \in {"sendChanges", "remap"} /\ direction # "computerToDevice"
       THEN "WRONG_DIRECTION" ELSE "none"

Session_OnSuccess(op, e) ==
  IF op = "start" /\ e = "SUCCESS" THEN /\ dataClass' = class' /\ direction' = "deviceToComputer"
  ELSE IF op \in {"finish", "cancel"} THEN /\ dataClass' = "none" /\ direction' = "deviceToComputer"
  ELSE UNCHANGED syncVars

\* the session of the client when start, finish or cancel is over, whatever came of it
Session(op, e) ==
  IF op = "start" THEN /\ dataClass' = class' /\ direction' = "deviceToComputer"
  ELSE IF op \in {"finish", "cancel"} THEN /\ dataClass' = "none" /\ direction' = "deviceToComputer"
  ELSE UNCHANGED syncVars

Call(op, c, t) ==
  /\ pc = "idle" /\ parent # "none" /\ calls < MaxCalls
  /\ calls' = calls + 1 /\ call' = op /\ class' = c /\ typed' = t /\ answer' = Nothing
  /\ IF Refusal(op) # "none"
     THEN /\ ret' = Refusal(op) /\ UNCHANGED <<pc, syncVars, toDevice, behind>>
     ELSE /\ toDevice' = IF op \in Receives THEN toDevice ELSE Sent(op, c)
          /\ IF op \in Receives \/ (op \in DOMAIN Awaited /\ conn = "open")
             THEN /\ pc' = "receive" /\ UNCHANGED <<ret, syncVars, behind>>
             ELSE /\ ret' = SendError /\ Session(op, ret') /\ UNCHANGED pc
                  /\ behind' = (behind \/ (op = "cancel" /\ (inbox # <<>> \/ toDevice # <<>>)))
  /\ UNCHANGED <<service, version, parent, conn, inbox, devVars>>

Result_AnyReady(op, r) ==
  IF r = Nothing THEN ReceiveError
  ELSE IF r.kind = "cancelled" /\ op \in SyncCalls \ {"finish"} THEN "CANCELLED"
  ELSE IF r.kind = "refused" /\ op = "start" THEN "SYNC_REFUSED"
  ELSE IF op \in {"finish", "receiveChanges", "receive", "ready"} THEN "SUCCESS"
  ELSE IF r.kind # Awaited[op] THEN "PLIST_ERROR"
  ELSE IF r.newer THEN "BAD_VERSION" ELSE "SUCCESS"

SyncResult_NoRefusal(op, r) ==
  IF r.kind = "cancelled" /\ op # "finish" THEN "CANCELLED"
  ELSE IF op \in {"finish", "receiveChanges"} \/ (op = "start" /\ (~typed \/ r.kind = "refused")) THEN "SUCCESS"
  ELSE IF r.kind = Awaited[op] THEN "SUCCESS"
  ELSE IF op = "ready" THEN "NOT_READY" ELSE "PLIST_ERROR"

SyncResult_AnyReady(op, r) ==
  IF r.kind = "cancelled" /\ op # "finish" THEN "CANCELLED"
  ELSE IF r.kind = "refused" /\ op = "start" THEN "SYNC_REFUSED"
  ELSE IF op \in {"finish", "receiveChanges", "ready"} \/ (op = "start" /\ ~typed) THEN "SUCCESS"
  ELSE IF r.kind = Awaited[op] THEN "SUCCESS" ELSE "PLIST_ERROR"

\* what a call of mobilesync makes of the message it has taken for its answer
SyncResult(op, r) ==
  IF r.kind = "cancelled" /\ op # "finish" THEN "CANCELLED"
  ELSE IF r.kind = "refused" /\ op = "start" THEN "SYNC_REFUSED"
  ELSE IF op \in {"finish", "receiveChanges"} \/ (op = "start" /\ ~typed) THEN "SUCCESS"
  ELSE IF r.kind = Awaited[op] THEN "SUCCESS"
  ELSE IF op = "ready" THEN "NOT_READY" ELSE "PLIST_ERROR"

\* and one of the other services; PLIST_ERROR is also REPLY_NOT_OK and NO_COMMON_VERSION
MessageResult(op, r) ==
  IF op = "receive" THEN "SUCCESS"
  ELSE IF r.kind # Awaited[op] THEN "PLIST_ERROR"
  ELSE IF r.newer THEN "BAD_VERSION" ELSE "SUCCESS"

Result(op, r) ==
  IF r = Nothing THEN ReceiveError
  ELSE IF op \in SyncCalls THEN SyncResult(op, r) ELSE MessageResult(op, r)

\* the answer to a call was, or may still be, left to a later one
LeavesBehind(op, r) ==
  \/ Result(op, r) \notin {"SUCCESS", "CANCELLED", "SYNC_REFUSED", "BAD_VERSION"}
  \/ op \in {"start", "finish"} /\ r.kind \notin {Awaited[op], "refused", "cancelled"}

\* ready answers with a ping, backup with the reply it got, both in a step of their own;
\* restoreComplete drops the connection that the device has closed
ReceiveAnswer(r) ==
  /\ pc = "receive" /\ Receive(r) /\ answer' = r /\ UNCHANGED callVars
  /\ LET e == Result(call, r) IN
     /\ behind' = (behind \/ LeavesBehind(call, r))
     /\ IF e = "SUCCESS" /\ call \in {"ready", "backup"}
        THEN /\ pc' = "reply" /\ UNCHANGED <<ret, parent, syncVars>>
        ELSE /\ pc' = "idle" /\ ret' = e
             /\ parent' = IF call = "complete" /\ e = "SUCCESS" THEN "null" ELSE parent
             /\ Session(call, e)
     /\ conn' = IF parent' = "null" THEN "lost" ELSE conn
     /\ toDevice' = IF parent' = "null" THEN <<>> ELSE toDevice
  /\ UNCHANGED <<service, version, devVars>>

Reply ==
  /\ pc = "reply" /\ pc' = "idle" /\ ret' = SendError
  /\ UNCHANGED callVars
  /\ toDevice' = Sent(IF call = "ready" THEN "ping" ELSE "backupOk", "none")
  /\ direction' = IF call = "ready" /\ conn = "open" THEN "computerToDevice" ELSE direction
  /\ UNCHANGED <<service, version, parent, dataClass, answer, conn, inbox, behind, devVars>>

-----------------------------------------------------------------------------
(* The device                                                              *)

About(m, kind) == [kind |-> kind, to |-> m.to, newer |-> FALSE]
Said(m, kind) == Append(inbox, About(m, kind))

DeviceGreet ==
  /\ conn = "open" /\ parent = "open" /\ stage = "greet" /\ stage' = "offered"
  /\ inbox' = Said([to |-> calls], "version")
  /\ UNCHANGED <<service, version, parent, syncVars, pc, callVars, ret, answer, conn, toDevice, behind, devClass, asked>>

\* outside a session the device ignores what belongs to one, a finish perhaps not
SyncAnswer(m) ==
  \/ /\ m.kind = "start" /\ devClass = "none" /\ devClass' = m.class /\ asked' = FALSE
     /\ inbox' = Said(m, "started")
  \/ m.kind = "start" /\ inbox' = Said(m, "refused") /\ UNCHANGED <<devClass, asked>>
  \/ /\ m.kind = "finish" /\ inbox' = Said(m, "finished")
     /\ devClass' = "none" /\ asked' = FALSE
  \/ m.kind = "cancel" /\ devClass' = "none" /\ asked' = FALSE /\ UNCHANGED inbox
  \/ /\ devClass # "none" /\ UNCHANGED <<devClass, asked>>
     /\ \/ m.kind = "get" /\ inbox' \in {Said(m, "changes"), Append(Said(m, "changes"), About(m, "changes"))}
        \/ m.kind = "clear" /\ inbox' = Said(m, "willClear")
        \/ m.kind = "sendChanges" /\ inbox' \in {inbox, Said(m, "remap")}
        \/ m.kind = "ping" /\ UNCHANGED inbox
  \/ /\ devClass # "none" /\ m.kind = "acknowledge" /\ inbox' = Said(m, "readyToReceive")
     /\ asked' = TRUE /\ UNCHANGED devClass
  \/ devClass = "none" /\ m.kind \notin {"start", "cancel"} /\ UNCHANGED <<inbox, devClass, asked>>

OtherAnswer(m) ==
  /\ UNCHANGED <<devClass, asked>>
  /\ \/ /\ m.kind \in {"backup", "restore"}
        /\ \E new \in BOOLEAN : inbox' = Append(inbox, [kind |-> Awaited[m.kind], to |-> m.to, newer |-> new])
     \/ m.kind \in {"backup", "restore", "hello", "screenshot"} /\ inbox' = Said(m, "failure")
     \/ m.kind \in {"hello", "screenshot", "complete"} /\ inbox' = Said(m, Awaited[m.kind])
     \/ m.kind \in {"backupOk", "fileReceived", "error", "request", "status"} /\ inbox' \in {inbox, Said(m, "file")}
     \/ m.kind = "send" /\ inbox' = Said(m, "restored")

DeviceAnswer ==
  /\ conn = "open" /\ toDevice # <<>> /\ Len(inbox) < MaxUnread /\ toDevice' = Tail(toDevice)
  /\ LET m == Head(toDevice) IN
     IF m.kind = "versionsOk"
     THEN stage' = "ready" /\ inbox' = Said(m, "deviceReady") /\ UNCHANGED <<devClass, asked>>
     ELSE UNCHANGED stage /\ IF service = "mobilesync" THEN SyncAnswer(m) ELSE OtherAnswer(m)
  /\ UNCHANGED <<service, version, parent, syncVars, pc, callVars, ret, answer, conn, behind>>

DeviceCancel ==
  /\ conn = "open" /\ devClass # "none" /\ Len(inbox) < MaxUnread
  /\ inbox' = Said([to |-> 0], "cancelled") /\ devClass' = "none" /\ asked' = FALSE
  /\ UNCHANGED <<service, version, parent, syncVars, pc, callVars, ret, answer, conn, toDevice, behind, stage>>

DeviceLost ==
  /\ conn = "open" /\ parent # "none" /\ conn' = "lost" /\ toDevice' = <<>>
  /\ devClass' = "none" /\ asked' = FALSE
  /\ UNCHANGED <<service, version, parent, syncVars, pc, callVars, ret, answer, inbox, behind, stage>>

Next ==
  \/ New \/ Free \/ Reply
  \/ \E r \in Messages : ReceiveVersion(r) \/ ReceiveReady(r) \/ ReceiveAnswer(r)
  \/ \E c \in DataClasses, t \in BOOLEAN : service = "mobilesync" /\ Call("start", c, t)
  \/ \E op \in CallsOf[service] \ {"start"} : Call(op, "none", FALSE)
  \/ DeviceGreet \/ DeviceAnswer \/ DeviceCancel \/ DeviceLost

Spec == Init /\ [][Next]_vars

-----------------------------------------------------------------------------
(* Properties                                                              *)

\* The variables have their types; a call is in progress only on a connection that the
\* client holds, never on the one it has given up (mobilebackup_send_restore_complete).
TypeOK ==
  /\ service \in Services /\ version \in DeviceVersions
  /\ parent \in {"none", "open", "null"} /\ conn \in {"open", "lost"}
  /\ dataClass \in DataClasses \union {"none"} /\ class \in DataClasses \union {"none"}
  /\ direction \in {"deviceToComputer", "computerToDevice"}
  /\ pc \in {"idle", "version", "deviceReady", "receive", "reply"} /\ typed \in BOOLEAN
  /\ call \in Calls \union {"none", "new", "free"} /\ calls \in 0..MaxCalls /\ behind \in BOOLEAN
  /\ stage \in {"greet", "offered", "ready"}
  /\ devClass \in DataClasses \union {"none"} /\ asked \in BOOLEAN
  /\ pc # "idle" => parent = "open"

\* The client never forgets a session the device is in: between two calls, when no finish
\* or cancel is under way to the device, client->data_class is the class of its session,
\* also after a start whose answer came late or was an error.
SessionKnown ==
  (pc = "idle" /\ devClass # "none" /\ \A i \in DOMAIN toDevice : toDevice[i].kind \notin {"finish", "cancel"})
    => dataClass = devClass

\* What the client keeps between two calls is right: its connection and its session.
Inv == TypeOK /\ SessionKnown

\* A call that succeeds got the message it waits for, and one that made a request got the
\* answer to this request, as long as nothing was left unread on the connection.
AnswerOwn ==
  (pc = "idle" /\ ret = "SUCCESS" /\ call \in DOMAIN Awaited \ {"receiveChanges", "receive", "finish"} /\ ~behind)
    => /\ answer.kind = Awaited[call]
       /\ call \notin Receives => answer.to = calls

\* Changes are sent only to a device that has asked for them in this session: as long as
\* nothing was left unread, the direction of the client is computer to device only while
\* the device has asked or its session has ended.
ChangesAsked ==
  (direction = "computerToDevice" /\ devClass # "none" /\ ~behind) => asked

=============================================================================
