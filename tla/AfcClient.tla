------------------------------ MODULE AfcClient ------------------------------
(***************************************************************************)
(* The AFC client of src/afc.c: threads share one afc_client_t and call    *)
(* file operations.  Each takes client->mutex, fills the shared packet     *)
(* buffer, sends the packet (and a payload), receives the reply in up to   *)
(* three reads and releases the mutex.                                     *)
(*                                                                         *)
(* The bytes the device sends are one stream.  It is modelled by positions *)
(* instead of contents: reply n begins at start[n], the client has read up *)
(* to pos, the device has written up to end.  A unit is half a header or a *)
(* piece of a body; a read that begins anywhere but at the start of a      *)
(* reply finds no AFC magic.                                               *)
(***************************************************************************)
EXTENDS Integers, FiniteSets

CONSTANTS
  Threads,    \* threads that share one afc_client_t
  Ops,        \* the operations they call
  Replies,    \* the replies the device may give
  PathLens,   \* data lengths of the operations that name a path
  Word,       \* 2^32: how many values a uint32_t has
  PayloadLen, \* bytes one afc_file_write writes
  Ssl,        \* whether the service connection may be encrypted: a set of BOOLEANs
  None,       \* the mutex is free
  MaxCalls    \* bound: calls

DeviceInfoOps == {"afc_get_device_info", "afc_get_device_info_plist",
                  "afc_get_device_info_key"}
PathInfoOps == {"afc_read_directory", "afc_get_file_info", "afc_get_file_info_plist"}
PathChangeOps == {"afc_remove_path", "afc_rename_path", "afc_make_directory"}
PathChange2Ops == {"afc_truncate", "afc_make_link", "afc_set_file_time",
                   "afc_remove_path_and_contents"}
HandleInfoOps == {"afc_file_read", "afc_file_tell"}
HandleChangeOps == {"afc_file_close", "afc_file_lock", "afc_file_seek",
                    "afc_file_truncate"}
PathOps == PathInfoOps \union PathChangeOps \union PathChange2Ops \union {"afc_file_open"}
HandleOps == HandleInfoOps \union HandleChangeOps \union {"afc_file_write"}
AllOps == DeviceInfoOps \union PathOps \union HandleOps

\* What the client tells apart in a reply: the units of its body in this_length
\* (-1: shorter than a header) and entire_length, and the code of a status
ReplyOps == {"STATUS", "DATA", "FILE_OPEN_RES", "FILE_TELL_RES", "OTHER"}
StatusCodes == {"SUCCESS", "UNKNOWN_ERROR", "OBJECT_NOT_FOUND"}
Reply == [op : ReplyOps, this : -1..1, entire : 0..2, status : StatusCodes]

HeaderUnits == 2
HeaderBytes == 40

ASSUME ConstAssumption ==
  /\ MaxCalls \in Nat /\ PayloadLen \in Nat
  /\ Word \in Nat \ {0}
  /\ PathLens \subseteq Nat
  /\ Ssl \subseteq BOOLEAN
  /\ Ops \subseteq AllOps
  /\ Replies \subseteq {r \in Reply : r.this <= r.entire} /\ Replies # {}
  /\ IsFiniteSet(Threads) /\ None \notin Threads

Calls == 1..MaxCalls

VARIABLES
  pc,           \* where each thread is
  op,           \* the operation it called
  need,         \* bytes of data its packet carries
  num,          \* history: packet_num of its request, 0 before there is one
  got,          \* history: the reply whose header it accepted, 0 for none
  left,         \* units of the body it has still to read
  written,      \* *bytes_written
  res,          \* its afc_error_t
  mutex,        \* client->mutex
  packet_num,   \* client->afc_packet->packet_num
  packet_extra, \* client->packet_extra
  ssl,          \* client->parent->connection->ssl_data # NULL
  link,         \* the connection: "up", "down", "freed"
  wire,         \* the request of which the device still expects the payload
  garbled,      \* the device was sent something else instead
  dispatched,   \* the last request the device received entirely
  answered,     \* the last request it answered
  start, reply, \* where in the stream each answer begins, and what it is
  pos, end,     \* how far the stream is read and written
  desynced,     \* history: a call returned and left the stream behind
  aborted       \* the process is gone

callVars == <<op, need, num, got, left, written, res>>
clientVars == <<mutex, packet_num, packet_extra>>
outVars == <<ssl, link, wire, garbled, dispatched>>
inVars == <<answered, start, reply, end>>
histVars == <<desynced, aborted>>
vars == <<pc, callVars, clientVars, outVars, inVars, pos, histVars>>

Goto(t, l) == pc' = [pc EXCEPT ![t] = l]

Init ==
  /\ pc = [t \in Threads |-> "idle"]
  /\ op = [t \in Threads |-> "none"]
  /\ need = [t \in Threads |-> 0]
  /\ num = [t \in Threads |-> 0]
  /\ got = [t \in Threads |-> 0]
  /\ left = [t \in Threads |-> 0]
  /\ written = [t \in Threads |-> 0]
  /\ res = [t \in Threads |-> "none"]
  /\ mutex = None /\ packet_num = 0 /\ packet_extra = 1024
  /\ ssl \in Ssl /\ link = "up" /\ wire = 0 /\ garbled = FALSE /\ dispatched = 0
  /\ answered = 0 /\ start = [n \in Calls |-> 0]
  /\ reply = [n \in Calls |-> CHOOSE r \in Replies : TRUE]
  /\ pos = 0 /\ end = 0
  /\ desynced = FALSE /\ aborted = FALSE

-----------------------------------------------------------------------------
(* A call, up to the packet in the shared buffer                           *)

Call(t, o, len) ==
  /\ pc[t] = "idle" /\ link # "freed" /\ ~aborted
  /\ packet_num + Cardinality({u \in Threads : pc[u] \in {"lock", "prepare"}}) < MaxCalls
  /\ Goto(t, "lock")
  /\ op' = [op EXCEPT ![t] = o]
  /\ need' = [need EXCEPT ![t] = len]
  /\ UNCHANGED <<num, got, left, written, res, clientVars, outVars, inVars, pos, histVars>>

\* the data length each operation puts in its packet
DataLens(o) == IF o \in DeviceInfoOps THEN {0}
               ELSE IF o \in PathOps THEN PathLens
               ELSE IF o \in {"afc_file_close", "afc_file_tell", "afc_file_write"} THEN {8}
               ELSE IF o = "afc_file_seek" THEN {24} ELSE {16}

\* mutant: rounds down
GrownExtra_Down(len) == len - 8 * ((len \div 8) % 2)

\* (data_len & ~8) + 8
GrownExtra(len) == len - 8 * ((len \div 8) % 2) + 8

CheckPacketBuffer(t) ==
  packet_extra' = IF op[t] \in PathOps /\ need[t] > packet_extra
                  THEN GrownExtra(need[t]) ELSE packet_extra

\* mutant: afc_lock does not wait
Lock_NoWait(t) ==
  /\ pc[t] = "lock" /\ ~aborted
  /\ mutex' = t
  /\ CheckPacketBuffer(t)
  /\ Goto(t, "prepare")
  /\ UNCHANGED <<callVars, packet_num, outVars, inVars, pos, histVars>>

Lock(t) ==
  /\ pc[t] = "lock" /\ mutex = None /\ ~aborted
  /\ mutex' = t
  /\ CheckPacketBuffer(t)
  /\ Goto(t, "prepare")
  /\ UNCHANGED <<callVars, packet_num, outVars, inVars, pos, histVars>>

\* mutant: the packet number is not incremented
Prepare_SameNumber(t) ==
  /\ pc[t] = "prepare" /\ ~aborted
  /\ packet_num' = 1
  /\ num' = [num EXCEPT ![t] = 1]
  /\ Goto(t, "send")
  /\ UNCHANGED <<op, need, got, left, written, res, mutex, packet_extra, outVars,
                 inVars, pos, histVars>>

Prepare(t) ==
  /\ pc[t] = "prepare" /\ ~aborted
  /\ packet_num' = packet_num + 1
  /\ num' = [num EXCEPT ![t] = packet_num + 1]
  /\ Goto(t, "send")
  /\ UNCHANGED <<op, need, got, left, written, res, mutex, packet_extra, outVars,
                 inVars, pos, histVars>>

\* mutant: the path of a timeout returns without afc_unlock
Fail_KeepsLock(t, err) ==
  /\ Goto(t, IF err = "OP_TIMEOUT" THEN "done" ELSE "unlock")
  /\ res' = [res EXCEPT ![t] = err]

\* every call ends here: the result it returns after afc_unlock
Fail(t, err) ==
  /\ Goto(t, "unlock")
  /\ res' = [res EXCEPT ![t] = err]

\* what each operation makes of an error of afc_dispatch_packet
DispatchError(o) ==
  IF o = "afc_file_write" THEN "SUCCESS"
  ELSE IF o \in {"afc_file_close", "afc_file_lock"} THEN "UNKNOWN_ERROR"
  ELSE "NOT_ENOUGH_DATA"

\* mutant: a signed counter
Written_Signed(t, bytes) ==
  written' = IF op[t] = "afc_file_write"
             THEN [written EXCEPT ![t] = bytes - (HeaderBytes + 8)] ELSE written

\* current_count += bytes_loc - (sizeof(AFCPacket) + 8), in a uint32_t
Written(t, bytes) ==
  written' = IF op[t] = "afc_file_write"
             THEN [written EXCEPT ![t] = (bytes - (HeaderBytes + 8)) % Word]
             ELSE written

HasPayload(o) == o = "afc_file_write" /\ PayloadLen > 0

SendPacket(t) ==
  /\ pc[t] = "send" /\ ~aborted
  /\ UNCHANGED <<op, need, num, got, left, clientVars, ssl, link, inVars, pos, histVars>>
  /\ \/ /\ link # "up"
        /\ Fail(t, DispatchError(op[t]))
        /\ Written(t, 0)
        /\ UNCHANGED <<wire, garbled, dispatched>>
     \/ /\ link = "up"
        /\ Written(t, HeaderBytes + need[t])
        /\ garbled' = (garbled \/ wire # 0)
        /\ IF HasPayload(op[t])
           THEN wire' = packet_num /\ Goto(t, "payload") /\ UNCHANGED dispatched
           ELSE dispatched' = packet_num /\ Goto(t, "header") /\ UNCHANGED wire
        /\ UNCHANGED res

SendPayload(t) ==
  /\ pc[t] = "payload" /\ ~aborted
  /\ UNCHANGED <<op, need, num, got, left, clientVars, ssl, link, inVars, pos, histVars>>
  /\ \/ /\ link # "up"
        /\ Fail(t, DispatchError(op[t]))
        /\ UNCHANGED <<written, wire, garbled, dispatched>>
     \/ /\ link = "up"
        /\ Written(t, HeaderBytes + need[t] + PayloadLen)
        /\ garbled' = (garbled \/ wire # packet_num)
        /\ wire' = 0 /\ dispatched' = packet_num
        /\ Goto(t, "header")
        /\ UNCHANGED res

-----------------------------------------------------------------------------
(* afc_receive_data                                                        *)

\* service_receive of up to want units.  An encrypted read goes on until it has
\* them all or the 30 s are over and loses what it has; a plain one takes what
\* is there.  Whether it comes in time is up to the device.
Receive(want) ==
  LET avail == end - pos
      short == 0..(IF avail < want THEN avail ELSE want - 1)
  IN  (IF avail >= want THEN {[count |-> want, err |-> "SUCCESS"]} ELSE {})
      \union {[count |-> k, err |-> IF ssl \/ k = 0 THEN "OP_TIMEOUT" ELSE "SUCCESS"] :
                k \in short}
      \union (IF avail < want /\ link # "up"
              THEN {[count |-> IF ssl THEN avail ELSE 0,
                     err |-> IF ssl THEN "SSL_ERROR" ELSE "UNKNOWN_ERROR"]}
              ELSE {})

Size(n) == HeaderUnits + reply[n].entire

\* the reply whose header is next in the stream, 0 if what is next is no header
ReplyAt(p) == IF \E n \in 1..answered : start[n] = p
              THEN CHOOSE n \in 1..answered : start[n] = p ELSE 0

\* the result of a complete reply
Interpret(r) ==
  IF r.op = "STATUS" THEN r.status ELSE IF r.op = "OTHER" THEN "OP_NOT_SUPPORTED" ELSE "SUCCESS"

\* mutant: the number of the packet is reported, as its comment says, and ignored
HeaderError_AnyNumber(n) ==
  IF n = 0 THEN "UNKNOWN_PACKET_TYPE"
  ELSE IF reply[n].this < 0 THEN "OP_HEADER_INVALID"
  ELSE "SUCCESS"

HeaderError(n) ==
  IF n = 0 THEN "UNKNOWN_PACKET_TYPE"
  ELSE IF n # packet_num THEN "OP_HEADER_INVALID"
  ELSE IF reply[n].this < 0 THEN "OP_HEADER_INVALID"
  ELSE "SUCCESS"

ReceiveHeader(t) ==
  /\ pc[t] = "header" /\ ~aborted
  /\ \E r \in Receive(HeaderUnits) :
       LET n == ReplyAt(pos)
           err == IF r.err # "SUCCESS" THEN r.err
                  ELSE IF r.count < HeaderUnits THEN "NOT_ENOUGH_DATA"
                  ELSE HeaderError(n)
       IN  /\ pos' = pos + r.count
           /\ IF err # "SUCCESS" THEN Fail(t, err) /\ UNCHANGED <<got, left>>
              ELSE /\ got' = [got EXCEPT ![t] = n]
                   /\ left' = [left EXCEPT ![t] = reply[n].entire]
                   /\ IF reply[n].entire = 0
                      THEN Fail(t, IF reply[n].op = "DATA" THEN "SUCCESS" ELSE "IO_ERROR")
                      ELSE UNCHANGED res /\ Goto(t, IF reply[n].this > 0 THEN "this" ELSE "rest")
  /\ UNCHANGED <<op, need, num, written, clientVars, outVars, inVars, histVars>>

\* mutant: only this_length is read
ReceiveThis_NoRest(t) ==
  /\ pc[t] = "this" /\ ~aborted
  /\ \E r \in Receive(reply[got[t]].this) :
       /\ pos' = pos + r.count
       /\ left' = [left EXCEPT ![t] = @ - r.count]
       /\ Fail(t, IF r.err # "SUCCESS" THEN r.err ELSE Interpret(reply[got[t]]))
  /\ UNCHANGED <<op, need, num, got, written, clientVars, outVars, inVars, histVars>>

\* the first service_receive of the body: this_length.  An error frees the buffer,
\* and as less than this_length came the next check frees it again: the process
\* may be gone
ReceiveThis(t) ==
  /\ pc[t] = "this" /\ ~aborted
  /\ \E r \in Receive(reply[got[t]].this) :
       /\ pos' = pos + r.count
       /\ left' = [left EXCEPT ![t] = @ - r.count]
       /\ IF r.err # "SUCCESS" THEN Fail(t, r.err) /\ aborted' \in BOOLEAN
          ELSE /\ UNCHANGED aborted
               /\ IF r.count < reply[got[t]].this THEN Fail(t, "END_OF_DATA")
                  ELSE IF left'[t] > 0 THEN Goto(t, "rest") /\ UNCHANGED res
                  ELSE Fail(t, Interpret(reply[got[t]]))
  /\ UNCHANGED <<op, need, num, got, written, clientVars, outVars, inVars, desynced>>

\* one turn of the loop that reads up to entire_length
ReceiveRest(t) ==
  /\ pc[t] = "rest" /\ ~aborted
  /\ \E r \in Receive(left[t]) :
       /\ pos' = pos + r.count
       /\ left' = [left EXCEPT ![t] = @ - r.count]
       /\ IF r.err # "SUCCESS" THEN Fail(t, r.err)
          ELSE IF left'[t] > 0 THEN UNCHANGED <<pc, res>>
          ELSE Fail(t, Interpret(reply[got[t]]))
  /\ UNCHANGED <<op, need, num, got, written, clientVars, outVars, inVars, histVars>>

-----------------------------------------------------------------------------
(* The end of a call, and of the client                                    *)

Behind == pos < end \/ answered < dispatched

\* "special case; unknown error actually means directory not empty"
Result(t) == IF op[t] = "afc_remove_path" /\ res[t] = "UNKNOWN_ERROR"
             THEN "DIR_NOT_EMPTY" ELSE res[t]

Unlock(t) ==
  /\ pc[t] = "unlock" /\ ~aborted
  /\ mutex' = None
  /\ res' = [res EXCEPT ![t] = Result(t)]
  /\ desynced' = (desynced \/ Behind)
  /\ Goto(t, "done")
  /\ UNCHANGED <<op, need, num, got, left, written, packet_num, packet_extra,
                 outVars, inVars, pos, aborted>>

\* the call returns: afc_get_device_info_key first looks for its key in the list,
\* which is NULL after an empty reply
Return(t) ==
  /\ pc[t] = "done" /\ ~aborted
  /\ Goto(t, "idle")
  /\ aborted' = (op[t] = "afc_get_device_info_key" /\ res[t] = "SUCCESS"
                 /\ reply[got[t]].entire = 0)
  /\ op' = [op EXCEPT ![t] = "none"]
  /\ need' = [need EXCEPT ![t] = 0]
  /\ num' = [num EXCEPT ![t] = 0]
  /\ got' = [got EXCEPT ![t] = 0]
  /\ left' = [left EXCEPT ![t] = 0]
  /\ written' = [written EXCEPT ![t] = 0]
  /\ res' = [res EXCEPT ![t] = "none"]
  /\ UNCHANGED <<clientVars, outVars, inVars, pos, desynced>>

\* afc_client_free, which the application calls when no other call is open
Free ==
  /\ \A t \in Threads : pc[t] = "idle"
  /\ link # "freed" /\ ~aborted
  /\ link' = "freed"
  /\ UNCHANGED <<pc, callVars, clientVars, ssl, wire, garbled, dispatched, inVars, pos, histVars>>

-----------------------------------------------------------------------------
(* The device (external) answers requests in order; the connection may end. *)

DeviceAnswer ==
  /\ link = "up" /\ answered < dispatched /\ ~garbled /\ ~aborted
  /\ answered + 1 \in Calls
  /\ \E r \in Replies :
       /\ answered' = answered + 1
       /\ reply' = [reply EXCEPT ![answered + 1] = r]
       /\ start' = [start EXCEPT ![answered + 1] = end]
       /\ end' = end + HeaderUnits + r.entire
  /\ UNCHANGED <<pc, callVars, clientVars, outVars, pos, histVars>>

DeviceLost ==
  /\ link = "up" /\ ~aborted
  /\ link' = "down"
  /\ UNCHANGED <<pc, callVars, clientVars, ssl, wire, garbled, dispatched, inVars, pos, histVars>>

ThreadStep(t) ==
  \/ Lock(t) \/ Prepare(t) \/ SendPacket(t) \/ SendPayload(t)
  \/ ReceiveHeader(t) \/ ReceiveThis(t) \/ ReceiveRest(t) \/ Unlock(t) \/ Return(t)

\* nothing is left to do: every call has been made, or the process is gone
Finished ==
  /\ aborted \/ link # "up" \/ packet_num = MaxCalls
  /\ aborted \/ \A t \in Threads : pc[t] = "idle"
  /\ UNCHANGED vars

Next ==
  \/ \E t \in Threads :
       \/ \E o \in Ops : \E len \in DataLens(o) : Call(t, o, len)
       \/ ThreadStep(t)
  \/ Free \/ DeviceAnswer \/ DeviceLost \/ Finished

Spec == Init /\ [][Next]_vars

\* every read has a timeout, so a thread that holds the mutex is never stuck; a
\* device that never answers is allowed
FairSpec == Spec /\ \A t \in Threads : WF_vars(ThreadStep(t))

-----------------------------------------------------------------------------
(* Properties                                                              *)

InCall == {"prepare", "send", "payload", "header", "this", "rest", "unlock"}
Pcs == {"idle", "lock", "done"} \union InCall
Errors == {"SUCCESS", "UNKNOWN_ERROR", "OBJECT_NOT_FOUND", "OP_TIMEOUT", "SSL_ERROR",
           "NOT_ENOUGH_DATA", "END_OF_DATA", "UNKNOWN_PACKET_TYPE", "OP_HEADER_INVALID",
           "IO_ERROR", "OP_NOT_SUPPORTED", "DIR_NOT_EMPTY"}

\* Every variable keeps its type; a reply is never read past its end.
TypeOK ==
  /\ pc \in [Threads -> Pcs]
  /\ op \in [Threads -> AllOps \union {"none"}]
  /\ need \in [Threads -> Nat] /\ num \in [Threads -> Nat]
  /\ got \in [Threads -> {0} \union Calls]
  /\ left \in [Threads -> 0..2]
  /\ written \in [Threads -> 0..(Word - 1)]
  /\ res \in [Threads -> Errors \union {"none"}]
  /\ mutex \in Threads \union {None}
  /\ packet_num \in Nat /\ packet_extra \in Nat
  /\ ssl \in BOOLEAN /\ link \in {"up", "down", "freed"}
  /\ wire \in Nat /\ garbled \in BOOLEAN /\ dispatched \in Nat
  /\ answered \in {0} \union Calls
  /\ start \in [Calls -> Nat] /\ reply \in [Calls -> Replies]
  /\ pos \in Nat /\ end \in Nat
  /\ desynced \in BOOLEAN /\ aborted \in BOOLEAN

\* A thread between afc_lock and afc_unlock holds the mutex, on every path through
\* the errors of a call: two calls are never inside, and a finished one never keeps it.
MutexHeld == \A t \in Threads : pc[t] \in InCall <=> mutex = t

\* The two sends of a write reach the device as one packet: no other request comes
\* between the header and the payload (afc_dispatch_packet under the mutex).
PacketsWhole == ~garbled

\* The data of a packet fits the buffer: _afc_check_packet_buffer rounds up, and the
\* operations that do not call it stay below the initial 1024 bytes.
DataFits == \A t \in Threads : pc[t] \in InCall => need[t] <= packet_extra

\* What the mutex of the client is for: one call at a time, whole packets, and a packet
\* buffer that fits the call that fills it.
Inv == TypeOK /\ MutexHeld /\ PacketsWhole /\ DataFits

\* The body a call reads is the body of the reply to its own request, from its first
\* unit to its last: whatever was late, short or lost before, the packet number of
\* one header ties the rest of the stream to the call; and a call that reports success has
\* read everything the device was asked for, so that nothing is left for the next call.
\* Once a call returned with its reply still to come, no later call gets a reply, however
\* often it is retried: a refused header consumes less than each request adds.
ReplyIsOwn ==
  \A t \in Threads :
    /\ got[t] # 0 => got[t] = num[t]
    /\ pc[t] \in {"this", "rest"} => pos + left[t] = start[num[t]] + Size(num[t])
    /\ pc[t] = "unlock" /\ res[t] = "SUCCESS" /\ got[t] # 0 => ~Behind
    /\ desynced /\ pc[t] \in InCall => got[t] = 0

\* A call that waits for the mutex gets it and returns, even if the device is silent
\* or gone: every read ends after its timeout and every error path unlocks.
CallReturns == \A t \in Threads : pc[t] = "lock" ~> (pc[t] = "done" \/ aborted)

\* afc.h on afc_file_write: it returns AFC_E_SUCCESS on success or an AFC_E_* error, and
\* bytes_written is "The number of bytes actually written to the file".
WriteReported ==
  \A t \in Threads :
    pc[t] = "done" /\ op[t] = "afc_file_write" /\ res[t] = "SUCCESS" => written[t] = PayloadLen

\* The request/reply contract.  A call counts as successful when it returns a reply: the
\* success afc_file_write reports after a failed send is left out (see WriteReported).
Abstract == INSTANCE RequestReply WITH
  issued <- packet_num,
  performed <- answered,
  request <- num,
  outcome <- [t \in Threads |->
                IF pc[t] \notin {"unlock", "done"} THEN "none"
                ELSE IF res[t] = "SUCCESS" /\ got[t] # 0 THEN "ok" ELSE "failed"]
ImplementsRequestReply == Abstract!Spec
=============================================================================
