-------------------------------- MODULE Services --------------------------------
(***************************************************************************)
(* The services that exchange one property list for each call, over        *)
(* src/property_list_service.c and src/service.c: diagnostics_relay,       *)
(* sbservices, misagent, mobileactivation, house_arrest, file_relay,       *)
(* heartbeat, restore, and the calls of lockdown within a session.  They   *)
(* differ in whether a call stops when its request could not be sent, in   *)
(* what they take for success, in whether an answer must have the name of  *)
(* its request (lockdown), and in what they keep between calls: a lock     *)
(* (sbservices), the status of the last call (misagent) and the mode of    *)
(* the connection (house_arrest).                                          *)
(* A device answers requests in order.  What it answers, and whether in    *)
(* time, is chosen when the answer is read.                                *)
(***************************************************************************)
EXTENDS Naturals, Sequences

CONSTANTS
  Names,     \* the services to look at
  Threads,   \* threads that share a client that has a lock
  MaxCalls   \* bound: calls made

\* What tells operations apart: whether a request is sent, whether a request that could not
\* be sent ends the call, what is received ("plist", "raw" bytes or "none"), and whether the
\* answer is looked at or every answer is a success.
Op(sends, stops, receives, checked) ==
  [sends |-> sends, stops |-> stops, receives |-> receives, checked |-> checked, name |-> "any"]

\* lockdown_check_result compares the name of the answer with that of the request
Named(o, name) == [o EXCEPT !.name = name]

Asks == Op(TRUE, TRUE, "plist", TRUE)      \* the plain exchange
AsksOn == Op(TRUE, FALSE, "plist", TRUE)   \* receives even if its request was not sent
Fetches == Op(TRUE, TRUE, "plist", FALSE)  \* every answer is a success
Tells == Op(TRUE, TRUE, "none", FALSE)
Listens == Op(FALSE, TRUE, "plist", FALSE)

\* diagnostics_relay
goodbye == AsksOn
sleep == AsksOn
action == AsksOn
request_diagnostics == Asks
query_mobilegestalt == Asks
query_ioregistry_entry == Asks
query_ioregistry_plane == AsksOn

\* sbservices
get_icon_state == Fetches
set_icon_state == Op(TRUE, FALSE, "raw", FALSE)
get_icon_pngdata == Fetches
get_interface_orientation == Fetches
get_home_screen_wallpaper_pngdata == Fetches

\* misagent
install == Asks
copy == Asks
copy_all == Asks
remove == Asks

\* mobileactivation
send_command == AsksOn

\* house_arrest
send_request == Tells
get_result == Listens

\* file_relay
request_sources == Asks

\* heartbeat
heartbeat_send == Tells
heartbeat_receive == Listens

\* restore
query_type == AsksOn
query_value == Asks
start_restore == Tells
reboot == Fetches
restored_goodbye == Op(TRUE, FALSE, "plist", FALSE)

\* lockdown
get_value == Named(Asks, "GetValue")
get_sync_data_classes == get_value
set_value == Named(Asks, "SetValue")
remove_value == Named(Asks, "RemoveValue")
start_service == Named(Asks, "StartService")
activate == Named(AsksOn, "Activate")
deactivate == Named(AsksOn, "Deactivate")
enter_recovery == Named(AsksOn, "EnterRecovery")
lockdownd_goodbye == Named(AsksOn, "Goodbye")

Operations(s) ==
  IF s = "diagnostics_relay" THEN
    {goodbye, sleep, action, request_diagnostics, query_mobilegestalt, query_ioregistry_entry,
     query_ioregistry_plane}
  ELSE IF s = "sbservices" THEN {get_icon_state, set_icon_state, get_icon_pngdata, get_interface_orientation,
     get_home_screen_wallpaper_pngdata}
  ELSE IF s = "misagent" THEN {install, copy, copy_all, remove}
  ELSE IF s = "mobileactivation" THEN {send_command}
  ELSE IF s = "house_arrest" THEN {send_request, get_result}
  ELSE IF s = "file_relay" THEN {request_sources}
  ELSE IF s = "heartbeat" THEN {heartbeat_send, heartbeat_receive}
  ELSE IF s = "lockdown" THEN {get_value, get_sync_data_classes, set_value, remove_value, start_service,
     activate, deactivate, enter_recovery, lockdownd_goodbye}
  ELSE {query_type, query_value, start_restore, reboot, restored_goodbye}

VARIABLES
  service,  \* which of the services this is
  lock,     \* the thread that holds client->mutex, 0 for none
  pc, op,   \* where each thread is, and the operation it performs
  id,       \* the number of the request its answer belongs to
  res,      \* its result: "none", "ok", "error" or "refused"
  from,     \* history: the request that the answer it took was for, 0 for none
  behind,   \* history: when its request was sent another answer was outstanding
  owed,     \* requests that the device has and whose answers have not been read: number and name
  skew,     \* the stream from the device begins in the middle of a message
  half,     \* the stream to the device ends in the middle of a message
  status,   \* misagent: last_error, "unknown", "zero" or "code"
  mode,     \* house_arrest: "normal" or "afc"
  calls     \* requests made

streamVars == <<owed, skew, half>>
keptVars == <<status, mode>>
vars == <<service, lock, pc, op, id, res, from, behind, streamVars, keptVars, calls>>

Init ==
  /\ service \in Names
  /\ lock = 0
  /\ pc = [t \in Threads |-> "idle"] /\ op = [t \in Threads |-> Tells]
  /\ id = [t \in Threads |-> 0] /\ from = [t \in Threads |-> 0]
  /\ res = [t \in Threads |-> "none"] /\ behind = [t \in Threads |-> FALSE]
  /\ owed = <<>> /\ skew = FALSE /\ half = FALSE
  /\ status = "zero" /\ mode = "normal"
  /\ calls = 0

Goto(t, l) == pc' = [pc EXCEPT ![t] = l]
Result(t, r) == res' = [res EXCEPT ![t] = r]
Locked == service = "sbservices"
Users == IF Locked THEN Threads ELSE {1}
Last == IF owed = <<>> THEN calls ELSE owed[Len(owed)].id

-----------------------------------------------------------------------------
(* A call *)

\* mutant: the status of the call before is kept
Begin_KeepsStatus(t) == UNCHANGED <<status, mode>>

\* what a call does to the client before it sends anything
Begin(t) ==
  /\ status' = IF service = "misagent" THEN "unknown" ELSE status
  /\ UNCHANGED mode

Call(t) ==
  /\ pc[t] = "idle" /\ t \in Users /\ calls < MaxCalls
  /\ mode = "normal"
  /\ \E o \in Operations(service) :
       /\ op' = [op EXCEPT ![t] = o]
       /\ Goto(t, IF Locked THEN "lock" ELSE IF o.sends THEN "send" ELSE "recv")
       /\ id' = [id EXCEPT ![t] = IF o.sends THEN calls + 1 ELSE Last]
  /\ Begin(t)
  /\ Result(t, "none")
  /\ from' = [from EXCEPT ![t] = 0]
  /\ behind' = [behind EXCEPT ![t] = Len(owed) > 1]
  /\ calls' = calls + 1
  /\ UNCHANGED <<service, lock, streamVars>>

\* mutant: the lock is not taken
Lock_Free(t) ==
  /\ pc[t] = "lock" /\ Goto(t, "send")
  /\ UNCHANGED <<service, lock, op, id, res, from, behind, streamVars, keptVars, calls>>

Lock(t) ==
  /\ pc[t] = "lock" /\ lock = 0
  /\ lock' = t
  /\ Goto(t, "send")
  /\ UNCHANGED <<service, op, id, res, from, behind, streamVars, keptVars, calls>>

\* internal_plist_send: the length and the body of the request
Sent(t) ==
  /\ Goto(t, IF op[t].receives = "none" THEN "leave" ELSE "recv")
  /\ Result(t, IF op[t].receives = "plist" THEN "none" ELSE "ok")
  /\ \* a device in the middle of a message takes the request for the rest of it
     IF half THEN UNCHANGED owed
     ELSE \/ owed' = Append(owed, [id |-> id[t], name |-> op[t].name])
          \/ op[t].receives = "none" /\ UNCHANGED owed
  /\ UNCHANGED half

NotSent(t) ==
  /\ Goto(t, IF op[t].stops THEN "leave" ELSE "recv")
  /\ Result(t, "error")
  /\ half' \in {half, TRUE} \* nothing was sent, or the length and not all of the body
  /\ UNCHANGED owed

Send(t) ==
  /\ pc[t] = "send"
  /\ Sent(t) \/ NotSent(t)
  /\ behind' = [behind EXCEPT ![t] = \E i \in 1..Len(owed) : owed[i].name = op[t].name]
  /\ UNCHANGED <<service, lock, op, id, from, skew, keptVars, calls>>

\* internal_plist_receive_timeout: no length within the time, or an error; in a stream that
\* begins in the middle of a message nothing else comes out
ReceiveNothing(t) ==
  /\ pc[t] = "recv" /\ op[t].receives = "plist"
  /\ Result(t, "error")
  /\ Goto(t, "leave")
  /\ UNCHANGED <<service, lock, op, id, from, behind, streamVars, keptVars, calls>>

\* an error after the length: the rest of the body will be taken for a length
ReceiveBroken(t) ==
  /\ pc[t] = "recv" /\ owed # <<>> /\ op[t].receives = "plist"
  /\ skew' = TRUE /\ owed' = Tail(owed)
  /\ Result(t, "error")
  /\ Goto(t, "leave")
  /\ UNCHANGED <<service, lock, op, id, from, behind, half, keptVars, calls>>

\* mutant: the name of an answer is not looked at
Answers_Any(t) == TRUE

Answers(t) == Head(owed).name = op[t].name

\* the check_result of the services: what an answer makes of the call and of the client
Success(t, yes) == yes \/ ~op[t].checked
Keep(t, yes) ==
  /\ status' = IF service # "misagent" THEN status ELSE IF yes THEN "zero" ELSE "code"
  /\ UNCHANGED mode

Receive(t) ==
  /\ pc[t] = "recv" /\ ~skew /\ owed # <<>> /\ op[t].receives = "plist"
  /\ Answers(t)
  /\ owed' = Tail(owed)
  /\ from' = [from EXCEPT ![t] = Head(owed).id]
  /\ \E yes \in BOOLEAN :
       Result(t, IF Success(t, yes) THEN "ok" ELSE "refused") /\ Keep(t, yes)
  /\ Goto(t, "leave")
  /\ UNCHANGED <<service, lock, op, id, behind, skew, half, calls>>

\* an answer that is no answer: not a dictionary, without a status, or of another name
ReceiveOdd(t) ==
  /\ pc[t] = "recv" /\ ~skew /\ owed # <<>> /\ op[t].receives = "plist"
  /\ owed' = Tail(owed)
  /\ Result(t, "error")
  /\ Goto(t, "leave")
  /\ UNCHANGED <<service, lock, op, id, from, behind, skew, half, keptVars, calls>>

\* sbservices_set_icon_state reads four bytes, whatever they are: an answer of no more, or
\* the length of one with a body
ReceiveRaw(t) ==
  /\ pc[t] = "recv" /\ op[t].receives = "raw"
  /\ \/ UNCHANGED <<owed, skew>>
     \/ /\ owed # <<>> /\ owed' = Tail(owed)
        /\ skew' \in {skew, TRUE}
  /\ Goto(t, "leave")
  /\ UNCHANGED <<service, lock, op, id, res, from, behind, half, keptVars, calls>>

\* where a result is returned
Leave(t) ==
  /\ pc[t] = "leave"
  /\ Goto(t, "idle")
  /\ lock' = IF Locked THEN 0 ELSE lock
  /\ UNCHANGED <<service, op, id, res, from, behind, streamVars, keptVars, calls>>

\* afc_client_new_from_house_arrest_client: the connection is AFC's from now on
Handover ==
  /\ service = "house_arrest" /\ mode = "normal" /\ pc[1] = "idle"
  /\ mode' = "afc"
  /\ UNCHANGED <<service, lock, pc, op, id, res, from, behind, streamVars, status, calls>>

CallSteps(t) ==
  \/ Lock(t) \/ Send(t) \/ ReceiveNothing(t) \/ ReceiveBroken(t) \/ Receive(t) \/ ReceiveOdd(t)
  \/ ReceiveRaw(t) \/ Leave(t)

Next == Handover \/ \E t \in Threads : Call(t) \/ CallSteps(t)

Spec == Init /\ [][Next]_vars

-----------------------------------------------------------------------------
(* Properties *)

\* Every variable has a value of its type.
TypeOK ==
  /\ service \in Names /\ lock \in Threads \union {0}
  /\ pc \in [Threads -> {"idle", "lock", "send", "recv", "leave"}]
  /\ \A t \in Threads : op[t] \in Operations(service) \union {Tells}
  /\ res \in [Threads -> {"none", "ok", "error", "refused"}]
  /\ id \in [Threads -> 0..MaxCalls] /\ from \in [Threads -> 0..MaxCalls]
  /\ behind \in [Threads -> BOOLEAN]
  /\ \A i \in 1..Len(owed) : owed[i].id \in 1..MaxCalls
  /\ skew \in BOOLEAN /\ half \in BOOLEAN
  /\ status \in {"unknown", "zero", "code"} /\ mode \in {"normal", "afc"}
  /\ calls \in 0..MaxCalls

\* A call that reports what an answer said reports the answer to its own request, also
\* when threads share an sbservices client, unless an earlier answer (in lockdown: of the same
\* name) was still to come when its request was sent (property_list_service.c:194: a timeout leaves the answer there).
OwnAnswer ==
  \A t \in Threads :
    pc[t] = "leave" /\ from[t] # 0 => from[t] = id[t] \/ behind[t]

\* misagent_get_status_code after a call is the status of that call: 0 exactly when it
\* succeeded, a code when the device refused it, and UNKNOWN_ERROR when no status came.
StatusOfCall ==
  \A t \in Threads :
    pc[t] = "leave" /\ service = "misagent" =>
      status = (IF res[t] = "ok" THEN "zero" ELSE IF res[t] = "refused" THEN "code" ELSE "unknown")
================================================================================
