------------------------------- MODULE Lockdown -------------------------------
(***************************************************************************)
(* The lockdownd client of src/lockdown.c with the pair record of          *)
(* common/userpref.c and the service connection of src/service.c: the      *)
(* handshake that every service start goes through (type, version, class,  *)
(* pairing, validation, session, SSL), the calls on a client that has a    *)
(* session, and its end.  Every call is a sequence of exchanges, and a     *)
(* reply is matched by the name of its request only: one that comes after  *)
(* the timeout is read by the next exchange.                               *)
(***************************************************************************)
EXTENDS Naturals, Sequences

CONSTANTS
  Versions,   \* of the device: "old" is before iOS 7
  Classes,    \* of the device, "watch" or not
  MaxCalls,   \* bound: calls of the application
  MaxPair     \* bound: host ids generated

AllVersions == {"old", "new"}
AllClasses == {"watch", "phone"}
HostIds == 1..MaxPair
Keys == {"ProductVersion", "DeviceClass", "DevicePublicKey", "WiFiAddress"}

ASSUME ConstAssumption ==
  /\ Versions \subseteq AllVersions /\ Classes \subseteq AllClasses
  /\ MaxCalls \in Nat /\ MaxPair \in Nat

\* the exchanges, each with the name of the request it makes and matches
Verb == [query |-> "QueryType", version |-> "GetValue", class |-> "GetValue",
         key |-> "GetValue", wifi |-> "GetValue", pair |-> "Pair",
         validate |-> "ValidatePair", start |-> "StartSession", stop |-> "StopSession",
         service |-> "StartService", unpair |-> "Unpair"]
Exchanges == DOMAIN Verb

VARIABLES
  version,    \* device->version, "none" when it is not known
  class,      \* device->device_class, "none" when it is not known, or "unknown"
  session,    \* client->session_id, 0 is NULL
  ssl,        \* client->ssl_enabled
  tls,        \* connection->ssl_data # NULL
  conn,       \* the connection: "none" (no client), "open", "lost"
  record,     \* the host id of the stored pair record, 0 when there is none
  pc,         \* the step of the call in progress
  sent,       \* its request is sent and its reply awaited
  call,       \* the call in progress, or the last one
  ret,        \* its result
  host,       \* its host_id, 0 is NULL
  fresh,      \* the host id of the record that it generates
  back,       \* the step after a pairing or the end of a session
  desc,       \* the service descriptor: "none", "plain", "ssl"
  service,    \* the connection to the service: "none", "plain", "tls"
  calls,      \* history: calls made
  ids,        \* history: host ids generated
  late,       \* history: a receive has timed out: "now" on this connection, or "before"
  sslFailed,  \* history: SSL could not be enabled on this connection
  diskFailed, \* history: the record could not be saved, deleted or read
  devVersion, devClass, \* the device
  trusted,    \* host ids that the device trusts
  dsession,   \* its session, 0 when there is none
  dtls,       \* it expects TLS on the connection
  sessions,   \* history: sessions it has started
  forgot,     \* history: it was reset and trusts nobody of before
  devq,       \* requests it has received
  inbox       \* replies nobody has read

deviceVars == <<version, class>>
connVars == <<session, ssl, tls, conn, sslFailed>>
callVars == <<call, host, fresh, back, calls, ids>>
serviceVars == <<desc, service>>
diskVars == <<record, diskFailed>>
devVars == <<devVersion, devClass, trusted, dsession, dtls, sessions, forgot>>
vars == <<deviceVars, connVars, pc, sent, ret, callVars, serviceVars, diskVars, late, devVars, devq, inbox>>

Init ==
  /\ version = "none" /\ class = "none"
  /\ session = 0 /\ ssl = FALSE /\ tls = FALSE /\ conn = "none" /\ sslFailed = FALSE
  /\ pc = "idle" /\ sent = FALSE /\ call = "none" /\ ret = "none"
  /\ host = 0 /\ fresh = 0 /\ back = "none"
  /\ desc = "none" /\ service = "none"
  /\ calls = 0 /\ ids = 0 /\ late = "no"
  /\ record = 0 /\ diskFailed = FALSE
  /\ devVersion \in Versions /\ devClass \in Classes
  /\ trusted = {} /\ dsession = 0 /\ dtls = FALSE /\ sessions = 0 /\ forgot = FALSE
  /\ devq = <<>> /\ inbox = <<>>

-----------------------------------------------------------------------------
(* One exchange: lockdownd_send and lockdownd_receive                      *)

Argument ==
  [query |-> 0, version |-> "ProductVersion", class |-> "DeviceClass", key |-> "DevicePublicKey",
   wifi |-> "WiFiAddress", pair |-> fresh, validate |-> record, start |-> host,
   stop |-> session, service |-> 0, unpair |-> record][pc]

NoReply == [name |-> "none", result |-> "TIMEOUT", value |-> "none", session |-> 0, tls |-> FALSE]

\* lockdown_check_result: the reply to a request of this name, and what it says
CheckResult(r, name) ==
  IF r = NoReply THEN "TIMEOUT" ELSE IF r.name = name THEN r.result ELSE "UNKNOWN_ERROR"

\* do_pair matches no name for Unpair, and reports the error of a reply of any name
PairResult(r, name) ==
  IF r = NoReply \/ r.result # "SUCCESS" THEN r.result
  ELSE IF name \in {r.name, "Unpair"} THEN "SUCCESS" ELSE "PAIRING_FAILED"

Send ==
  /\ pc \in Exchanges /\ ~sent
  /\ sent' = TRUE
  /\ devq' = IF conn = "open" THEN Append(devq, [name |-> Verb[pc], arg |-> Argument, tls |-> tls]) ELSE devq
  /\ UNCHANGED <<deviceVars, connVars, pc, ret, callVars, serviceVars, diskVars, late, devVars, inbox>>

\* Step(x, r): exchange x ends with reply r.  A receive fails when nothing comes in
\* 30 s or the connection is lost, and when what comes is not in the mode it reads.
Step(x, r) ==
  /\ pc = x /\ sent
  /\ sent' = FALSE
  /\ UNCHANGED devq
  /\ \/ /\ inbox # <<>> /\ r = (IF Head(inbox).tls = tls THEN Head(inbox) ELSE NoReply)
        /\ inbox' = Tail(inbox) /\ UNCHANGED late
     \/ /\ inbox = <<>> /\ r = NoReply
        /\ late' = IF conn = "open" THEN "now" ELSE late
        /\ UNCHANGED inbox

Replies == {NoReply} \union (IF inbox = <<>> THEN {} ELSE {Head(inbox)})

-----------------------------------------------------------------------------
(* lockdownd_client_new                                                    *)

Handshake ==
  /\ pc = "idle" /\ conn = "none" /\ calls < MaxCalls /\ ids + 2 <= MaxPair
  /\ calls' = calls + 1 /\ call' = "handshake" /\ pc' = "query" /\ ret' = "SUCCESS"
  /\ conn' = "open" /\ session' = 0 /\ ssl' = FALSE /\ tls' = FALSE /\ sslFailed' = FALSE /\ host' = 0
  /\ dsession' = 0 /\ dtls' = FALSE /\ devq' = <<>> /\ inbox' = <<>> /\ late' = IF late = "no" THEN late ELSE "before"
  /\ UNCHANGED <<deviceVars, sent, fresh, back, ids, serviceVars, diskVars,
                 devVersion, devClass, trusted, sessions, forgot>>

\* a failed or wrong reply only means that nothing more is asked
Query(r) ==
  /\ Step("query", r)
  /\ pc' = IF r.name # "QueryType" THEN "record" ELSE IF version = "none" THEN "version"
           ELSE IF class = "none" THEN "class" ELSE "record"
  /\ UNCHANGED <<deviceVars, connVars, ret, callVars, serviceVars, diskVars, devVars>>

Version(r) ==
  /\ Step("version", r)
  /\ version' = IF CheckResult(r, "GetValue") = "SUCCESS" /\ r.value \in AllVersions THEN r.value ELSE version
  /\ pc' = IF class = "none" THEN "class" ELSE "record"
  /\ UNCHANGED <<class, connVars, ret, callVars, serviceVars, diskVars, devVars>>

\* mutant: the class is stored without a look at the reply
Class_Unchecked(r) ==
  /\ Step("class", r)
  /\ class' = IF r.value \in AllClasses THEN r.value ELSE "unknown"
  /\ pc' = "record"
  /\ UNCHANGED <<version, connVars, ret, callVars, serviceVars, diskVars, devVars>>

\* any string is taken for a class
Class(r) ==
  /\ Step("class", r)
  /\ class' = IF CheckResult(r, "GetValue") # "SUCCESS" THEN class
              ELSE IF r.value \in AllClasses THEN r.value ELSE "unknown"
  /\ pc' = "record"
  /\ UNCHANGED <<version, connVars, ret, callVars, serviceVars, diskVars, devVars>>

-----------------------------------------------------------------------------
(* lockdownd_client_new_with_handshake after that                          *)

\* what userpref_read_pair_record can say
Reads == {"RECEIVE_TIMEOUT", "INVALID_CONF"} \union (IF record # 0 THEN {"SUCCESS"} ELSE {})

\* how a read ends that found something to say: a missing record is INVALID_CONF too
Read(u) ==
  /\ u \in Reads
  /\ diskFailed' = (diskFailed \/ (u # "SUCCESS" /\ record # 0) \/ u = "RECEIVE_TIMEOUT")
  /\ UNCHANGED record

\* a record that cannot be read is one that is not there, unless usbmuxd timed out
ReadRecord ==
  /\ pc = "record"
  /\ \E u \in Reads :
       /\ Read(u)
       /\ host' = IF u = "SUCCESS" THEN record ELSE 0
       /\ pc' = IF u = "SUCCESS" THEN "old" ELSE IF u = "INVALID_CONF" THEN "key" ELSE "close"
       /\ ret' = IF u = "RECEIVE_TIMEOUT" THEN u ELSE ret
  /\ back' = "old"
  /\ UNCHANGED <<deviceVars, connVars, sent, call, fresh, calls, ids, serviceVars, late, devVars, devq, inbox>>

\* whatever ret is, an old device is asked to validate the pairing
Old ==
  /\ pc = "old"
  /\ pc' = IF version # "new" /\ class # "watch" THEN "validate_read" ELSE "session"
  /\ UNCHANGED <<deviceVars, connVars, sent, ret, callVars, serviceVars, diskVars, late, devVars, devq, inbox>>

ValidateRead ==
  /\ pc = "validate_read"
  /\ \E u \in Reads :
       /\ Read(u)
       /\ ret' = u
       /\ pc' = IF u = "SUCCESS" THEN "validate" ELSE "session"
  /\ UNCHANGED <<deviceVars, connVars, sent, callVars, serviceVars, late, devVars, devq, inbox>>

\* mutant: a device that does not know the host is asked until it does
Validate_Retries(r) ==
  /\ Step("validate", r)
  /\ ret' = PairResult(r, "ValidatePair")
  /\ pc' = IF ret' = "INVALID_HOST_ID" THEN "validate_read" ELSE "session"
  /\ UNCHANGED <<deviceVars, connVars, callVars, serviceVars, diskVars, devVars>>

\* a device that does not know the host is paired, once, and asked again
Validate(r) ==
  /\ Step("validate", r)
  /\ ret' = PairResult(r, "ValidatePair")
  /\ IF ret' = "INVALID_HOST_ID" /\ back # "revalidate"
     THEN pc' = "key" /\ host' = 0 /\ back' = "revalidate"
     ELSE pc' = "session" /\ UNCHANGED <<host, back>>
  /\ UNCHANGED <<deviceVars, connVars, call, fresh, calls, ids, serviceVars, diskVars, devVars>>

Session ==
  /\ pc = "session"
  /\ IF ret # "SUCCESS" THEN pc' = "close" /\ UNCHANGED <<ret, host, diskVars>>
     ELSE IF host # 0 THEN pc' = "start" /\ UNCHANGED <<ret, host, diskVars>>
     ELSE \E u \in Reads :
            /\ Read(u)
            /\ ret' = u
            /\ host' = IF u = "SUCCESS" THEN record ELSE 0
            /\ pc' = IF u = "SUCCESS" THEN "start" ELSE "close"
  /\ UNCHANGED <<deviceVars, connVars, sent, call, fresh, back, calls, ids, serviceVars, late, devVars, devq, inbox>>

-----------------------------------------------------------------------------
(* lockdownd_do_pair with a record of its own                              *)

\* where a pairing with this result returns to
Paired(result) ==
  /\ ret' = result
  /\ pc' = IF back # "revalidate" THEN back
           ELSE IF result = "SUCCESS" THEN "validate_read" ELSE "session"

\* pair_record_generate: a reply without a key makes no certificate
Key(r) ==
  /\ Step("key", r)
  /\ IF CheckResult(r, "GetValue") = "SUCCESS" /\ r.value = "DevicePublicKey"
     THEN \/ fresh' = ids + 1 /\ ids' = ids + 1 /\ pc' = "wifi" /\ UNCHANGED ret
          \/ Paired("SSL_ERROR") /\ UNCHANGED <<fresh, ids>>
     ELSE /\ Paired(IF CheckResult(r, "GetValue") = "SUCCESS" THEN "SSL_ERROR" ELSE CheckResult(r, "GetValue"))
          /\ UNCHANGED <<fresh, ids>>
  /\ UNCHANGED <<deviceVars, connVars, call, host, back, calls, serviceVars, diskVars, devVars>>

\* the address is not needed
Wifi(r) ==
  /\ Step("wifi", r)
  /\ pc' = "pair"
  /\ UNCHANGED <<deviceVars, connVars, ret, callVars, serviceVars, diskVars, devVars>>

\* mutant: the record is saved before the answer is looked at
Pair_SavesFirst(r) ==
  /\ Step("pair", r)
  /\ Paired(PairResult(r, "Pair"))
  /\ record' = fresh
  /\ UNCHANGED <<deviceVars, connVars, callVars, serviceVars, diskFailed, devVars>>

\* the result of the save is not looked at
Pair(r) ==
  /\ Step("pair", r)
  /\ Paired(PairResult(r, "Pair"))
  /\ IF PairResult(r, "Pair") = "SUCCESS"
     THEN \/ record' = fresh /\ UNCHANGED diskFailed
          \/ diskFailed' = TRUE /\ UNCHANGED record
     ELSE UNCHANGED diskVars
  /\ UNCHANGED <<deviceVars, connVars, callVars, serviceVars, devVars>>

UnpairRead ==
  /\ pc = "unpair_read"
  /\ \E u \in Reads :
       /\ Read(u)
       /\ IF u = "SUCCESS" THEN pc' = "unpair" /\ UNCHANGED ret ELSE pc' = "idle" /\ ret' = u
  /\ UNCHANGED <<deviceVars, connVars, sent, callVars, serviceVars, late, devVars, devq, inbox>>

Unpair(r) ==
  /\ Step("unpair", r)
  /\ ret' = PairResult(r, "Unpair") /\ pc' = "idle"
  /\ IF PairResult(r, "Unpair") = "SUCCESS"
     THEN \/ record' = 0 /\ UNCHANGED diskFailed
          \/ diskFailed' = TRUE /\ UNCHANGED record
     ELSE UNCHANGED diskVars
  /\ UNCHANGED <<deviceVars, connVars, callVars, serviceVars, devVars>>

-----------------------------------------------------------------------------
(* lockdownd_start_session, lockdownd_stop_session and the client's end     *)

\* a handshake without a session frees its client
Started(result) ==
  /\ ret' = result
  /\ pc' = IF call = "handshake" /\ result # "SUCCESS" THEN "close" ELSE "idle"

StartSession(r) ==
  /\ Step("start", r)
  /\ IF CheckResult(r, "StartSession") # "SUCCESS"
     THEN /\ Started(IF r = NoReply THEN "PLIST_ERROR" ELSE CheckResult(r, "StartSession"))
          /\ UNCHANGED <<session, ssl>>
     ELSE /\ session' = r.session
          /\ IF r.value = "ssl" THEN pc' = "enable" /\ UNCHANGED <<ret, ssl>>
             ELSE Started("SUCCESS") /\ ssl' = FALSE
  /\ UNCHANGED <<deviceVars, tls, conn, sslFailed, callVars, serviceVars, diskVars, devVars>>

\* mutant: the result of the SSL handshake is not looked at
EnableSsl_Unchecked ==
  /\ pc = "enable"
  /\ Started("SUCCESS")
  /\ \/ conn = "open" /\ dtls /\ tls' = TRUE /\ ssl' = TRUE
     \/ ssl' = FALSE /\ UNCHANGED tls
  /\ UNCHANGED sslFailed
  /\ UNCHANGED <<deviceVars, session, conn, sent, callVars, serviceVars, diskVars, late, devVars, devq, inbox>>

\* idevice_connection_enable_ssl, which refuses a connection that has SSL already
EnableSsl ==
  /\ pc = "enable"
  /\ \/ /\ ~tls /\ conn = "open" /\ dtls
        /\ Started("SUCCESS") /\ tls' = TRUE /\ ssl' = TRUE /\ UNCHANGED sslFailed
     \/ /\ Started(IF tls THEN "INVALID_ARG" ELSE "SSL_ERROR")
        /\ ssl' = FALSE /\ sslFailed' = TRUE /\ UNCHANGED tls
  /\ UNCHANGED <<deviceVars, session, conn, sent, callVars, serviceVars, diskVars, late, devVars, devq, inbox>>

\* mutant: the flag is cleared, the SSL layer kept
StopSession_KeepsLayer(r) ==
  /\ Step("stop", r)
  /\ pc' = back
  /\ ret' = IF call # "stop" THEN ret ELSE IF r = NoReply THEN "PLIST_ERROR" ELSE CheckResult(r, "StopSession")
  /\ IF r = NoReply THEN UNCHANGED <<session, ssl>> ELSE session' = 0 /\ ssl' = FALSE
  /\ UNCHANGED <<deviceVars, tls, conn, sslFailed, callVars, serviceVars, diskVars, devVars>>

\* without a reply the session and its SSL layer stay
StopSession(r) ==
  /\ Step("stop", r)
  /\ pc' = back
  /\ ret' = IF call # "stop" THEN ret ELSE IF r = NoReply THEN "PLIST_ERROR" ELSE CheckResult(r, "StopSession")
  /\ IF r = NoReply THEN UNCHANGED <<session, ssl, tls>>
     ELSE session' = 0 /\ ssl' = FALSE /\ tls' = (tls /\ ~ssl)
  /\ UNCHANGED <<deviceVars, conn, sslFailed, callVars, serviceVars, diskVars, devVars>>

\* lockdownd_client_free
Close ==
  /\ pc = "close"
  /\ pc' = IF session # 0 THEN "stop" ELSE "end"
  /\ back' = "end"
  /\ UNCHANGED <<deviceVars, connVars, sent, ret, call, host, fresh, calls, ids, serviceVars, diskVars, late, devVars, devq, inbox>>

End ==
  /\ pc = "end"
  /\ pc' = "idle"
  /\ conn' = "none" /\ session' = 0 /\ ssl' = FALSE /\ tls' = FALSE /\ sslFailed' = FALSE
  /\ devq' = <<>> /\ inbox' = <<>> /\ dsession' = 0 /\ dtls' = FALSE
  /\ UNCHANGED <<deviceVars, sent, ret, callVars, serviceVars, diskVars, late, devVersion, devClass, trusted, sessions, forgot>>

-----------------------------------------------------------------------------
(* Calls on a client that has made its handshake                           *)

\* Begin(c, x, b): call c starts at step x, and returns to step b from a pairing or stop
Begin(c, x, b) ==
  /\ pc = "idle" /\ conn # "none" /\ calls < MaxCalls
  /\ calls' = calls + 1 /\ call' = c /\ pc' = x /\ back' = b /\ ret' = "none"
  /\ UNCHANGED <<deviceVars, connVars, sent, fresh, ids, service, diskVars, late, devVars, devq, inbox>>

CallStartSession ==
  /\ record # 0
  /\ Begin("start", IF session # 0 THEN "stop" ELSE "start", "start")
  /\ host' = record
  /\ UNCHANGED desc

CallStopSession == session # 0 /\ Begin("stop", "stop", "idle") /\ UNCHANGED <<host, desc>>
CallPair == ids < MaxPair /\ Begin("pair", "key", "idle") /\ UNCHANGED <<host, desc>>
CallUnpair == Begin("unpair", "unpair_read", "idle") /\ UNCHANGED <<host, desc>>
CallFree == Begin("free", "close", "end") /\ UNCHANGED <<host, desc>>

\* the descriptor is reset first
CallStartService == Begin("service", "service", "idle") /\ desc' = "none" /\ UNCHANGED host

\* mutant: the descriptor is filled before the result is looked at
StartService_FillsFirst(r) ==
  /\ Step("service", r)
  /\ ret' = CheckResult(r, "StartService") /\ pc' = "idle"
  /\ desc' = r.value
  /\ UNCHANGED <<deviceVars, connVars, callVars, service, diskVars, devVars>>

StartService(r) ==
  /\ Step("service", r)
  /\ ret' = CheckResult(r, "StartService") /\ pc' = "idle"
  /\ desc' = IF CheckResult(r, "StartService") = "SUCCESS" THEN r.value ELSE desc
  /\ UNCHANGED <<deviceVars, connVars, callVars, service, diskVars, devVars>>

\* service_client_new: a service whose SSL cannot be enabled is used without
ServiceNew ==
  /\ pc = "idle" /\ desc # "none" /\ service = "none" /\ calls < MaxCalls
  /\ calls' = calls + 1 /\ call' = "service_new"
  /\ \/ ret' = "MUX_ERROR" /\ UNCHANGED service
     \/ ret' = "SUCCESS" /\ service' \in (IF desc = "ssl" THEN {"tls", "plain"} ELSE {"plain"})
  /\ UNCHANGED <<deviceVars, connVars, pc, sent, host, fresh, back, ids, desc, diskVars, late, devVars, devq, inbox>>

-----------------------------------------------------------------------------
(* The device (external)                                                   *)

Answer(result, value, n) ==
  /\ devq' = Tail(devq)
  /\ inbox' = Append(inbox, [name |-> Head(devq).name, result |-> result, value |-> value,
                             session |-> n, tls |-> dtls])
  /\ UNCHANGED <<deviceVars, connVars, pc, sent, ret, callVars, serviceVars, diskVars, late,
                 devVersion, devClass, forgot>>

Request(name) == conn = "open" /\ devq # <<>> /\ Head(devq).tls = dtls /\ Head(devq).name = name

\* a request it cannot decode ends the connection
DeviceGarbage ==
  /\ conn = "open" /\ devq # <<>> /\ Head(devq).tls # dtls
  /\ conn' = "lost"
  /\ UNCHANGED <<deviceVars, session, ssl, tls, sslFailed, pc, sent, ret, callVars, serviceVars, diskVars, late, devVars, devq, inbox>>

DeviceValue ==
  /\ Request("GetValue") \/ Request("QueryType")
  /\ \/ Answer("SUCCESS", IF Head(devq).name = "QueryType" THEN "lockdown"
                         ELSE IF Head(devq).arg = "ProductVersion" THEN devVersion
                         ELSE IF Head(devq).arg = "DeviceClass" THEN devClass ELSE Head(devq).arg, 0)
     \/ Head(devq).name = "GetValue" /\ Answer("GET_PROHIBITED", "none", 0)
  /\ UNCHANGED <<trusted, dsession, dtls, sessions>>

DevicePair ==
  /\ Request("Pair")
  /\ \/ Answer("SUCCESS", "none", 0) /\ trusted' = trusted \union {Head(devq).arg}
     \/ Answer("USER_DENIED_PAIRING", "none", 0) /\ UNCHANGED trusted
  /\ UNCHANGED <<dsession, dtls, sessions>>

DeviceValidate ==
  /\ Request("ValidatePair")
  /\ Answer(IF Head(devq).arg \in trusted THEN "SUCCESS" ELSE "INVALID_HOST_ID", "none", 0)
  /\ UNCHANGED <<trusted, dsession, dtls, sessions>>

DeviceUnpair ==
  /\ Request("Unpair")
  /\ Answer("SUCCESS", "none", 0) /\ trusted' = trusted \ {Head(devq).arg}
  /\ UNCHANGED <<dsession, dtls, sessions>>

DeviceStartSession ==
  /\ Request("StartSession")
  /\ IF Head(devq).arg \in trusted
     THEN \E useSsl \in BOOLEAN :
            /\ Answer("SUCCESS", IF useSsl THEN "ssl" ELSE "plain", sessions + 1)
            /\ dsession' = sessions + 1 /\ sessions' = sessions + 1 /\ dtls' = useSsl
     ELSE Answer("INVALID_HOST_ID", "none", 0) /\ UNCHANGED <<dsession, dtls, sessions>>
  /\ UNCHANGED trusted

DeviceStopSession ==
  /\ Request("StopSession")
  /\ IF Head(devq).arg = dsession
     THEN Answer("SUCCESS", "none", 0) /\ dsession' = 0 /\ dtls' = FALSE
     ELSE Answer("INVALID_SESSION_ID", "none", 0) /\ UNCHANGED <<dsession, dtls>>
  /\ UNCHANGED <<trusted, sessions>>

DeviceStartService ==
  /\ Request("StartService")
  /\ \/ dsession # 0 /\ \E d \in {"plain", "ssl"} : Answer("SUCCESS", d, 0)
     \/ Answer("INVALID_SERVICE", "none", 0)
  /\ UNCHANGED <<trusted, dsession, dtls, sessions>>

\* settings are reset, or the cable is pulled
DeviceForget ==
  /\ ~forgot /\ trusted # {}
  /\ forgot' = TRUE /\ trusted' = {}
  /\ UNCHANGED <<deviceVars, connVars, pc, sent, ret, callVars, serviceVars, diskVars, late,
                 devVersion, devClass, dsession, dtls, sessions, devq, inbox>>

DeviceLost ==
  /\ conn = "open"
  /\ conn' = "lost"
  /\ UNCHANGED <<deviceVars, session, ssl, tls, sslFailed, pc, sent, ret, callVars, serviceVars, diskVars, late, devVars, devq, inbox>>

Calls == Handshake \/ CallStartSession \/ CallStopSession \/ CallPair \/ CallUnpair
         \/ CallStartService \/ CallFree \/ ServiceNew
Reply(r) == Query(r) \/ Version(r) \/ Class(r) \/ Key(r) \/ Wifi(r) \/ Pair(r) \/ Validate(r)
            \/ StartSession(r) \/ StopSession(r) \/ StartService(r) \/ Unpair(r)
AppStep == Send \/ (\E r \in Replies : Reply(r)) \/ ReadRecord \/ Old \/ ValidateRead \/ UnpairRead \/ Session
           \/ EnableSsl \/ Close \/ End
Device == DeviceGarbage \/ DeviceValue \/ DevicePair \/ DeviceValidate \/ DeviceUnpair
          \/ DeviceStartSession \/ DeviceStopSession \/ DeviceStartService \/ DeviceForget \/ DeviceLost

Next == Calls \/ AppStep \/ Device
Spec == Init /\ [][Next]_vars

\* every receive of a reply ends after 30 s; the application calls and the device
\* answers when they like
FairSpec == Spec /\ WF_vars(AppStep)

-----------------------------------------------------------------------------
(* Properties                                                              *)

Steps == Exchanges \union {"idle", "record", "old", "validate_read", "unpair_read", "session", "enable", "close", "end"}
Errors == {"none", "SUCCESS", "TIMEOUT", "UNKNOWN_ERROR", "PAIRING_FAILED", "USER_DENIED_PAIRING",
           "INVALID_HOST_ID", "INVALID_CONF", "RECEIVE_TIMEOUT", "PLIST_ERROR", "SSL_ERROR", "INVALID_ARG",
           "GET_PROHIBITED", "INVALID_SESSION_ID", "INVALID_SERVICE", "MUX_ERROR"}

\* Every variable keeps its type.
TypeOK ==
  /\ version \in AllVersions \union {"none"} /\ class \in AllClasses \union {"none", "unknown"}
  /\ ssl \in BOOLEAN /\ tls \in BOOLEAN /\ conn \in {"none", "open", "lost"}
  /\ session \in 0..sessions /\ dsession \in 0..sessions /\ sessions \in Nat
  /\ {record, host, fresh} \subseteq 0..ids /\ ids \in 0..MaxPair /\ trusted \subseteq 1..ids
  /\ pc \in Steps /\ sent \in BOOLEAN /\ ret \in Errors
  /\ back \in {"none", "old", "revalidate", "idle", "start", "end"}
  /\ desc \in {"none", "plain", "ssl"} /\ service \in {"none", "plain", "tls"}

\* Until a reply is late, a client between two calls and the device agree on the session
\* and on TLS, whatever sequence of session calls failed or succeeded before; and a
\* handshake that succeeds has a session.
SessionAgrees ==
  pc = "idle" /\ conn = "open" /\ late # "now" =>
    /\ session = dsession
    /\ tls = dtls \/ sslFailed
    /\ call = "handshake" => ret = "SUCCESS" /\ session # 0

\* client->ssl_enabled says whether the connection has an SSL layer, late replies or not.
SslAgrees == ssl = tls

\* The client and the device agree on the session and on what the connection carries.
Inv == TypeOK /\ SessionAgrees /\ SslAgrees

\* Until a reply is late, a pair record that is stored is one the device trusts: it is
\* saved after the device's answer and deleted with its consent.
RecordTrusted == late = "no" /\ ~diskFailed /\ ~forgot => record \in trusted \union {0} \/ pc = "unpair"

\* The version and the class that outlive the client in idevice_t are the device's own,
\* until a reply is late.
CacheRight == late = "no" => version \in {"none", devVersion} /\ class \in {"none", devClass}

\* Every call returns: the handshake pairs and validates at most twice.
CallReturns == pc # "idle" ~> pc = "idle"
===============================================================================
