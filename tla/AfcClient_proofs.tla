---------------------------- MODULE AfcClient_proofs ----------------------------
(***************************************************************************)
(* Proofs about AfcClient for any number of threads, calls and replies:    *)
(* the mutex covers a call and its packet, the reply a call reads is its   *)
(* own, and the client implements the request/reply contract of            *)
(* RequestReply.                                                           *)
(***************************************************************************)
EXTENDS AfcClient, FiniteSetTheorems, TLAPS

Sending == {"send", "payload"}
Reading == {"this", "rest"}

\* Only an operation that names a path carries more data than the first packet buffer
\* holds, and the buffer never shrinks.
DataSmall ==
  /\ packet_extra >= 1024
  /\ \A t \in Threads : pc[t] # "idle" /\ op[t] \notin PathOps => need[t] <= 24

\* The device waits for the payload of the request whose thread is about to send it.
PayloadDue ==
  /\ \A t \in Threads : pc[t] = "payload" => link # "up" \/ wire = packet_num
  /\ link = "up" /\ wire # 0 => \E t \in Threads : pc[t] = "payload"

\* The threads that wait for a packet number leave room for it (bound MaxCalls).
Waiting == {t \in Threads : pc[t] \in {"lock", "prepare"}}
NumbersLeft == packet_num + Cardinality(Waiting) <= MaxCalls

\* Requests are numbered, sent and answered in one order; the thread inside the mutex has
\* the last number, and the device has the request unless it is being sent or was lost.
Numbers ==
  /\ answered <= dispatched /\ dispatched <= packet_num
  /\ \A t \in Threads :
       /\ pc[t] \in {"idle", "lock", "prepare"} => num[t] = 0 /\ got[t] = 0
       /\ pc[t] \in InCall \ {"prepare"} => num[t] = packet_num /\ packet_num > 0
       /\ pc[t] \in {"header"} \union Reading => dispatched = packet_num
       /\ pc[t] \in Sending /\ link = "up" => dispatched + 1 = packet_num
  /\ link = "up" /\ (\A t \in Threads : pc[t] \notin Sending) => dispatched = packet_num

\* The stream ends behind the last reply and is never read past its end.
StreamEnd ==
  /\ pos <= end
  /\ IF answered = 0 THEN end = 0 ELSE end = start[answered] + Size(answered)

\* A call that has accepted a header reads the last reply the device was asked for.
Body ==
  \A t \in Threads :
    /\ got[t] # 0 => got[t] = num[t] /\ got[t] <= answered
    /\ pc[t] \in Sending \union {"header"} => got[t] = 0
    /\ pc[t] \in Reading => /\ got[t] # 0 /\ left[t] > 0 /\ pos + left[t] = end
                            /\ answered = packet_num
    /\ pc[t] = "this" => reply[got[t]].this > 0 /\ left[t] = reply[got[t]].entire
    /\ pc[t] = "unlock" /\ res[t] = "SUCCESS" /\ got[t] # 0 =>
         pos = end /\ answered = packet_num /\ dispatched = packet_num

\* Once the client is behind it stays behind: a request adds a header to what is still to
\* come and the call reads no more than one.
StaysBehind ==
  desynced =>
    /\ pos < end + HeaderUnits * (dispatched - answered)
    /\ \A t \in Threads :
         /\ pc[t] \in InCall => got[t] = 0
         /\ pc[t] = "header" =>
              IF num[t] <= answered THEN pos < start[num[t]]
              ELSE pos < end + HeaderUnits * (num[t] - 1 - answered)

IInv == /\ Inv /\ DataSmall /\ PayloadDue /\ NumbersLeft /\ Numbers
        /\ StreamEnd /\ Body /\ StaysBehind

-----------------------------------------------------------------------------
(* The operators of the model                                              *)

\* What a uint32_t holds after arithmetic modulo 2^32 (Written).
LEMMA ModRange ==
  ASSUME NEW a \in Int, NEW b \in Nat \ {0}
  PROVE  a % b \in 0..(b - 1)
OBVIOUS

\* (data_len & ~8) + 8 is never less than data_len (_afc_check_packet_buffer).
LEMMA GrownFits ==
  ASSUME NEW len \in Nat
  PROVE  GrownExtra(len) \in Nat /\ GrownExtra(len) >= len
<1>1. (len \div 8) % 2 \in 0..1
      OBVIOUS
<1> QED BY <1>1 DEF GrownExtra

\* *bytes_written keeps its type (afc_file_write, afc_dispatch_packet).
LEMMA WrittenType ==
  ASSUME TypeOK, NEW t \in Threads, NEW bytes \in Int, Written(t, bytes)
  PROVE  written' \in [Threads -> 0..(Word - 1)]
<1>1. (bytes - (HeaderBytes + 8)) % Word \in 0..(Word - 1)
      BY ModRange, ConstAssumption DEF HeaderBytes
<1> QED BY <1>1 DEF TypeOK, Written

\* A read returns no more than it was asked for and than there is, and at least one unit
\* when it reports success (afc_receive_data, service_receive).
LEMMA ReceiveFacts ==
  ASSUME TypeOK, pos <= end, NEW want \in Nat \ {0}, NEW r \in Receive(want)
  PROVE  /\ r.count \in 0..want /\ pos + r.count <= end
         /\ r.err \in Errors
         /\ r.err = "SUCCESS" => r.count > 0
BY DEF Receive, TypeOK, Errors

\* A read that begins at a header begins at an answered request's.
LEMMA ReplyAtFacts ==
  ASSUME TypeOK, ReplyAt(pos) # 0
  PROVE  ReplyAt(pos) \in 1..answered /\ start[ReplyAt(pos)] = pos
BY DEF ReplyAt

\* A reply is one of those the device gives: its body is no longer than entire_length.
LEMMA ReplyShape ==
  ASSUME TypeOK, NEW n \in Calls
  PROVE  /\ reply[n] \in Replies /\ reply[n].entire \in 0..2 /\ reply[n].this \in -1..1
         /\ reply[n].this <= reply[n].entire
         /\ Interpret(reply[n]) \in Errors
BY ConstAssumption DEF TypeOK, Reply, Interpret, Errors, StatusCodes

-----------------------------------------------------------------------------
(* The inductive invariant                                                 *)

LEMMA InitInv == Init => IInv
<1> SUFFICES ASSUME Init PROVE IInv
    OBVIOUS
<1> USE ConstAssumption DEF Init
<1>1. TypeOK
  <2>1. (CHOOSE r \in Replies : TRUE) \in Replies
        OBVIOUS
  <2>2. reply \in [Calls -> Replies]
        BY <2>1
  <2>3. ssl \in BOOLEAN
        BY Zenon
  <2>4. /\ pc \in [Threads -> Pcs] /\ op \in [Threads -> AllOps \union {"none"}]
        /\ res \in [Threads -> Errors \union {"none"}]
        BY DEF Pcs
  <2>5. /\ need \in [Threads -> Nat] /\ num \in [Threads -> Nat]
        /\ got \in [Threads -> {0} \union Calls] /\ left \in [Threads -> 0..2]
        /\ written \in [Threads -> 0..(Word - 1)] /\ start \in [Calls -> Nat]
        OBVIOUS
  <2>6. /\ mutex \in Threads \union {None} /\ packet_num \in Nat /\ packet_extra \in Nat
        /\ link \in {"up", "down", "freed"} /\ wire \in Nat /\ dispatched \in Nat
        /\ answered \in {0} \union Calls /\ pos \in Nat /\ end \in Nat
        OBVIOUS
  <2>7. garbled \in BOOLEAN /\ desynced \in BOOLEAN /\ aborted \in BOOLEAN
        OBVIOUS
  <2> HIDE DEF Init
  <2> QED BY <2>2, <2>3, <2>4, <2>5, <2>6, <2>7, Zenon DEF TypeOK
<1>2. MutexHeld /\ PacketsWhole /\ DataFits /\ DataSmall /\ PayloadDue
      BY DEF MutexHeld, PacketsWhole, DataFits, DataSmall, PayloadDue, InCall
<1>3. NumbersLeft
  <2>1. Waiting = {}
        BY DEF Waiting
  <2> QED BY <2>1, FS_EmptySet DEF NumbersLeft
<1>4. Numbers /\ StreamEnd /\ Body /\ StaysBehind
      BY DEF Numbers, StreamEnd, Body, StaysBehind, InCall, Sending, Reading
<1> QED BY <1>1, <1>2, <1>3, <1>4 DEF IInv, Inv

\* A call starts: it has no number and waits for the mutex.
LEMMA CallInv ==
  ASSUME IInv, NEW t \in Threads, NEW o \in Ops, NEW len \in DataLens(o), Call(t, o, len)
  PROVE  IInv'
<1> USE DEF IInv, Inv, Call, Goto, clientVars, outVars, inVars, histVars
<1>1. len \in Nat /\ o \in AllOps /\ (o \notin PathOps => len <= 24)
      BY ConstAssumption DEF DataLens
<1>2. TypeOK'
      BY <1>1 DEF TypeOK, Pcs
<1>3. (MutexHeld /\ PacketsWhole /\ DataFits)'
      BY DEF MutexHeld, PacketsWhole, DataFits, InCall, TypeOK
<1>4. (DataSmall /\ PayloadDue)'
      BY <1>1 DEF DataSmall, PayloadDue, TypeOK
<1>5. NumbersLeft'
  <2>1. Waiting' = Waiting \union {t} /\ t \notin Waiting
        BY DEF Waiting, TypeOK
  <2>2. IsFiniteSet(Waiting)
        BY ConstAssumption, FS_Subset DEF Waiting
  <2>3. Cardinality(Waiting') = Cardinality(Waiting) + 1 /\ Cardinality(Waiting) \in Nat
        BY <2>1, <2>2, FS_AddElement, FS_CardinalityType
  <2> QED BY <2>3, ConstAssumption DEF NumbersLeft, TypeOK, Waiting
<1>6. Numbers'
      BY DEF Numbers, InCall, Sending, Reading, TypeOK
<1>7. (StreamEnd /\ Body /\ StaysBehind)'
      BY DEF StreamEnd, Body, StaysBehind, Size, InCall, Sending, Reading, TypeOK
<1> QED BY <1>2, <1>3, <1>4, <1>5, <1>6, <1>7

\* A thread takes the mutex and makes room for its data.
LEMMA LockInv ==
  ASSUME IInv, NEW t \in Threads, Lock(t)
  PROVE  IInv'
<1> USE DEF IInv, Inv, Lock, Goto, callVars, outVars, inVars, histVars
<1>1. /\ packet_extra' \in Nat /\ packet_extra' >= packet_extra
      /\ op[t] \in PathOps => need[t] <= packet_extra'
      BY GrownFits DEF CheckPacketBuffer, TypeOK
<1>2. TypeOK'
      BY <1>1 DEF TypeOK, Pcs, InCall
<1>3. MutexHeld' /\ PacketsWhole'
      BY ConstAssumption DEF MutexHeld, PacketsWhole, InCall, TypeOK
<1>4. DataFits'
  <2>1. need[t] <= packet_extra'
        BY <1>1 DEF DataSmall, TypeOK
  <2> QED BY <1>1, <2>1 DEF DataFits, TypeOK, InCall
<1>5. (DataSmall /\ PayloadDue)'
      BY <1>1 DEF DataSmall, PayloadDue, TypeOK
<1>6. NumbersLeft'
  <2>1. Waiting' = Waiting
        BY DEF Waiting, TypeOK
  <2> QED BY <2>1 DEF NumbersLeft
<1>7. Numbers'
      BY DEF Numbers, InCall, Sending, Reading, TypeOK
<1>8. (StreamEnd /\ Body /\ StaysBehind)'
  <2>1. got[t] = 0
        BY DEF Numbers, TypeOK
  <2> QED BY <2>1 DEF StreamEnd, Body, StaysBehind, Size, InCall, Sending, Reading, TypeOK
<1> QED BY <1>2, <1>3, <1>4, <1>5, <1>6, <1>7, <1>8

\* The thread inside the mutex is the only one.
LEMMA Alone ==
  ASSUME MutexHeld, NEW t \in Threads, NEW u \in Threads, pc[t] \in InCall, pc[u] \in InCall
  PROVE  t = u
BY DEF MutexHeld

\* The request in the packet buffer gets the next number.
LEMMA PrepareInv ==
  ASSUME IInv, NEW t \in Threads, Prepare(t)
  PROVE  IInv'
<1> USE DEF IInv, Inv, Prepare, Goto, outVars, inVars, histVars
<1>1. TypeOK'
      BY DEF TypeOK, Pcs, InCall
<1>2. (MutexHeld /\ PacketsWhole /\ DataFits)'
      BY DEF MutexHeld, PacketsWhole, DataFits, InCall, TypeOK
<1>3. \A u \in Threads : u # t => pc[u] \notin InCall
      BY Alone DEF InCall
<1>4. (DataSmall /\ PayloadDue)'
      BY <1>3 DEF DataSmall, PayloadDue, TypeOK, InCall
<1>5. NumbersLeft'
  <2>1. Waiting' = Waiting \ {t} /\ t \in Waiting
        BY DEF Waiting, TypeOK
  <2>2. IsFiniteSet(Waiting)
        BY ConstAssumption, FS_Subset DEF Waiting
  <2>3. Cardinality(Waiting') = Cardinality(Waiting) - 1 /\ Cardinality(Waiting) \in Nat
        BY <2>1, <2>2, FS_RemoveElement, FS_CardinalityType
  <2> QED BY <2>3, ConstAssumption DEF NumbersLeft, TypeOK
<1>6. Numbers'
      BY <1>3 DEF Numbers, InCall, Sending, Reading, TypeOK
<1>7. (StreamEnd /\ Body /\ StaysBehind)'
  <2>1. got[t] = 0
        BY DEF Numbers, TypeOK
  <2> QED BY <1>3, <2>1 DEF StreamEnd, Body, StaysBehind, Size, InCall, Sending, Reading, TypeOK
<1> QED BY <1>1, <1>2, <1>4, <1>5, <1>6, <1>7

\* The packet goes out: it is dispatched, or its payload is due, or the call fails.
LEMMA SendPacketInv ==
  ASSUME IInv, NEW t \in Threads, SendPacket(t)
  PROVE  IInv'
<1> USE DEF IInv, Inv
<1>1. \A u \in Threads : u # t => pc[u] \notin InCall
      BY Alone DEF InCall, SendPacket
<1>2. /\ pc[t] = "send" /\ num[t] = packet_num /\ packet_num > 0 /\ got[t] = 0
      /\ need[t] <= packet_extra
      /\ link = "up" => dispatched + 1 = packet_num /\ wire = 0
      BY <1>1 DEF SendPacket, Numbers, Body, PayloadDue, DataFits, InCall, Sending
<1>3. /\ UNCHANGED <<op, need, num, got, left, clientVars, ssl, link, inVars, pos, histVars>>
      /\ written' \in [Threads -> 0..(Word - 1)]
      /\ \/ /\ link # "up" /\ UNCHANGED <<wire, garbled, dispatched>>
            /\ pc' = [pc EXCEPT ![t] = "unlock"]
            /\ res' = [res EXCEPT ![t] = DispatchError(op[t])]
         \/ /\ link = "up" /\ garbled' \in BOOLEAN /\ ~garbled' /\ UNCHANGED res
            /\ \/ /\ wire' = packet_num /\ UNCHANGED dispatched
                  /\ pc' = [pc EXCEPT ![t] = "payload"]
               \/ /\ dispatched' = packet_num /\ UNCHANGED wire
                  /\ pc' = [pc EXCEPT ![t] = "header"]
  <2>1. HeaderBytes + need[t] \in Int
        BY DEF HeaderBytes, TypeOK
  <2>2. written' \in [Threads -> 0..(Word - 1)]
        BY <2>1, WrittenType DEF SendPacket
  <2>3. link = "up" => garbled' \in BOOLEAN /\ ~garbled'
        BY <1>2, Zenon DEF SendPacket, PacketsWhole
  <2> QED BY <2>2, <2>3 DEF SendPacket, Fail, Goto
<1>4. DispatchError(op[t]) \in Errors
      BY DEF DispatchError, Errors
<1> USE DEF clientVars, inVars, histVars
<1>5. TypeOK'
      BY <1>2, <1>3, <1>4 DEF TypeOK, Pcs, InCall
<1>6. (MutexHeld /\ PacketsWhole /\ DataFits)'
      BY <1>2, <1>3 DEF MutexHeld, PacketsWhole, DataFits, InCall, TypeOK
<1>7. (DataSmall /\ PayloadDue)'
      BY <1>1, <1>2, <1>3 DEF DataSmall, PayloadDue, TypeOK, InCall
<1>8. NumbersLeft'
  <2>1. Waiting' = Waiting
        BY <1>2, <1>3 DEF Waiting, TypeOK
  <2> QED BY <1>3, <2>1 DEF NumbersLeft
<1>9. Numbers'
      BY <1>1, <1>2, <1>3 DEF Numbers, InCall, Sending, Reading, TypeOK
<1>10. (StreamEnd /\ Body)'
      BY <1>1, <1>2, <1>3 DEF StreamEnd, Body, Size, InCall, Sending, Reading, TypeOK
<1>11. StaysBehind'
  <2>1. answered <= dispatched /\ dispatched <= packet_num
        BY DEF Numbers
  <2> QED BY <1>1, <1>2, <1>3, <2>1 DEF StaysBehind, InCall, TypeOK, HeaderUnits
<1> QED BY <1>5, <1>6, <1>7, <1>8, <1>9, <1>10, <1>11

\* The payload goes out and the request is dispatched, or the call fails.
LEMMA SendPayloadInv ==
  ASSUME IInv, NEW t \in Threads, SendPayload(t)
  PROVE  IInv'
<1> USE DEF IInv, Inv
<1>1. \A u \in Threads : u # t => pc[u] \notin InCall
      BY Alone DEF InCall, SendPayload
<1>2. /\ pc[t] = "payload" /\ num[t] = packet_num /\ packet_num > 0 /\ got[t] = 0
      /\ need[t] <= packet_extra
      /\ link = "up" => dispatched + 1 = packet_num /\ wire = packet_num
      BY <1>1 DEF SendPayload, Numbers, Body, PayloadDue, DataFits, InCall, Sending
<1>3. /\ UNCHANGED <<op, need, num, got, left, clientVars, ssl, link, inVars, pos, histVars>>
      /\ written' \in [Threads -> 0..(Word - 1)]
      /\ \/ /\ link # "up" /\ UNCHANGED <<wire, garbled, dispatched>>
            /\ pc' = [pc EXCEPT ![t] = "unlock"]
            /\ res' = [res EXCEPT ![t] = DispatchError(op[t])]
         \/ /\ link = "up" /\ garbled' \in BOOLEAN /\ ~garbled' /\ UNCHANGED res
            /\ dispatched' = packet_num /\ wire' = 0
            /\ pc' = [pc EXCEPT ![t] = "header"]
  <2>1. HeaderBytes + need[t] + PayloadLen \in Int
        BY ConstAssumption DEF HeaderBytes, TypeOK
  <2>2. written' \in [Threads -> 0..(Word - 1)]
        BY <2>1, WrittenType DEF SendPayload, TypeOK
  <2>3. link = "up" => garbled' \in BOOLEAN /\ ~garbled'
        BY <1>2, Zenon DEF SendPayload, PacketsWhole
  <2> QED BY <2>2, <2>3 DEF SendPayload, Fail, Goto
<1>4. DispatchError(op[t]) \in Errors
      BY DEF DispatchError, Errors
<1> USE DEF clientVars, inVars, histVars
<1>5. TypeOK'
      BY <1>2, <1>3, <1>4 DEF TypeOK, Pcs, InCall
<1>6. (MutexHeld /\ PacketsWhole /\ DataFits)'
      BY <1>2, <1>3 DEF MutexHeld, PacketsWhole, DataFits, InCall, TypeOK
<1>7. (DataSmall /\ PayloadDue)'
      BY <1>1, <1>2, <1>3 DEF DataSmall, PayloadDue, TypeOK, InCall
<1>8. NumbersLeft'
  <2>1. Waiting' = Waiting
        BY <1>2, <1>3 DEF Waiting, TypeOK
  <2> QED BY <1>3, <2>1 DEF NumbersLeft
<1>9. Numbers'
      BY <1>1, <1>2, <1>3 DEF Numbers, InCall, Sending, Reading, TypeOK
<1>10. (StreamEnd /\ Body)'
      BY <1>1, <1>2, <1>3 DEF StreamEnd, Body, Size, InCall, Sending, Reading, TypeOK
<1>11. StaysBehind'
  <2>1. answered <= dispatched /\ dispatched <= packet_num
        BY DEF Numbers
  <2> QED BY <1>1, <1>2, <1>3, <2>1 DEF StaysBehind, InCall, TypeOK, HeaderUnits
<1> QED BY <1>5, <1>6, <1>7, <1>8, <1>9, <1>10, <1>11

-----------------------------------------------------------------------------
(* The reads of a reply                                                    *)

\* What the thread that reads a header may rely on: it is alone and reads the stream
\* after its own request was sent.
LEMMA HeaderFacts ==
  ASSUME IInv, NEW t \in Threads, pc[t] = "header"
  PROVE  /\ \A u \in Threads : u # t => pc[u] \notin InCall
         /\ num[t] = packet_num /\ packet_num > 0 /\ dispatched = packet_num /\ got[t] = 0
         /\ mutex = t
<1>1. MutexHeld /\ Numbers /\ Body
      BY DEF IInv, Inv
<1>2. pc[t] \in InCall
      BY DEF InCall
<1> QED BY <1>1, <1>2, Alone DEF Numbers, Body, MutexHeld, InCall, Sending

\* A header is refused, or it is the header of the call's own reply, which is the last one
\* (afc_receive_data compares packet_num).
LEMMA HeaderOutcome ==
  ASSUME IInv, NEW t \in Threads, ReceiveHeader(t)
  PROVE  /\ UNCHANGED <<op, need, num, written, clientVars, outVars, inVars, histVars>>
         /\ pos' \in Nat /\ pos' <= pos + HeaderUnits /\ pos' <= end
         /\ \/ /\ pc' = [pc EXCEPT ![t] = "unlock"]
               /\ \E e \in Errors \ {"SUCCESS"} : res' = [res EXCEPT ![t] = e]
               /\ UNCHANGED <<got, left>>
            \/ /\ num[t] \in Calls /\ num[t] = answered /\ start[num[t]] = pos
               /\ pos' = pos + HeaderUnits
               /\ got' = [got EXCEPT ![t] = num[t]]
               /\ left' = [left EXCEPT ![t] = reply[num[t]].entire]
               /\ \/ /\ reply[num[t]].entire = 0
                     /\ pc' = [pc EXCEPT ![t] = "unlock"]
                     /\ \E e \in Errors : res' = [res EXCEPT ![t] = e]
                  \/ /\ reply[num[t]].entire # 0 /\ UNCHANGED res
                     /\ pc' = [pc EXCEPT ![t] = IF reply[num[t]].this > 0 THEN "this" ELSE "rest"]
<1>1. TypeOK /\ pos <= end /\ answered <= dispatched
      BY DEF IInv, Inv, StreamEnd, Numbers
<1>2. pc[t] = "header"
      BY DEF ReceiveHeader
<1> DEFINE n == ReplyAt(pos)
           err(r) == IF r.err # "SUCCESS" THEN r.err
                     ELSE IF r.count < HeaderUnits THEN "NOT_ENOUGH_DATA"
                     ELSE HeaderError(n)
<1>3. PICK r \in Receive(HeaderUnits) :
        /\ pos' = pos + r.count
        /\ IF err(r) # "SUCCESS" THEN Fail(t, err(r)) /\ UNCHANGED <<got, left>>
           ELSE /\ got' = [got EXCEPT ![t] = n]
                /\ left' = [left EXCEPT ![t] = reply[n].entire]
                /\ IF reply[n].entire = 0
                   THEN Fail(t, IF reply[n].op = "DATA" THEN "SUCCESS" ELSE "IO_ERROR")
                   ELSE /\ UNCHANGED res
                        /\ Goto(t, IF reply[n].this > 0 THEN "this" ELSE "rest")
      BY Zenon DEF ReceiveHeader
<1>4. r.count \in 0..HeaderUnits /\ pos + r.count <= end /\ r.err \in Errors
      BY <1>1, ReceiveFacts DEF HeaderUnits
<1>5. pos' \in Nat /\ pos' <= pos + HeaderUnits /\ pos' <= end
      BY <1>1, <1>3, <1>4 DEF TypeOK, HeaderUnits
<1>6. UNCHANGED <<op, need, num, written, clientVars, outVars, inVars, histVars>>
      BY Zenon DEF ReceiveHeader
<1>7. CASE err(r) # "SUCCESS"
  <2>1. err(r) \in Errors
        BY <1>4 DEF HeaderError, Errors
  <2> QED BY <1>3, <1>5, <1>6, <1>7, <2>1 DEF Fail, Goto
<1>8. CASE err(r) = "SUCCESS"
  <2>1. r.count >= HeaderUnits /\ n # 0 /\ n = packet_num
    <3>1. ~(r.count < HeaderUnits) /\ HeaderError(n) = "SUCCESS"
          BY <1>8
    <3> HIDE DEF n
    <3> QED BY <1>4, <3>1 DEF HeaderError, HeaderUnits
  <2>2. n \in 1..answered /\ start[n] = pos
        BY <1>1, <2>1, ReplyAtFacts
  <2>3. num[t] = n /\ num[t] = answered /\ num[t] \in Calls
        BY <1>1, <1>2, <2>1, <2>2, HeaderFacts DEF TypeOK, Calls
  <2>4. pos' = pos + HeaderUnits
        BY <1>3, <1>4, <2>1 DEF HeaderUnits
  <2> HIDE DEF n
  <2> QED BY <1>3, <1>5, <1>6, <1>8, <2>2, <2>3, <2>4 DEF Fail, Goto, Errors
<1> QED BY <1>7, <1>8

\* A header read leaves the call at the body of its own reply, or at the end.
LEMMA ReceiveHeaderInv ==
  ASSUME IInv, NEW t \in Threads, ReceiveHeader(t)
  PROVE  IInv'
<1> USE DEF IInv, Inv
<1>1. pc[t] = "header"
      BY DEF ReceiveHeader
<1>2. /\ \A u \in Threads : u # t => pc[u] \notin InCall
      /\ num[t] = packet_num /\ packet_num > 0 /\ dispatched = packet_num /\ got[t] = 0
      /\ mutex = t
      BY <1>1, HeaderFacts
<1> DEFINE Same == UNCHANGED <<op, need, num, written, clientVars, outVars, inVars, histVars>>
           Read == pos' \in Nat /\ pos' <= pos + HeaderUnits /\ pos' <= end
<1>3. Same /\ Read
      BY HeaderOutcome
<1>4. \/ /\ pc' = [pc EXCEPT ![t] = "unlock"]
         /\ \E e \in Errors \ {"SUCCESS"} : res' = [res EXCEPT ![t] = e]
         /\ UNCHANGED <<got, left>>
      \/ /\ num[t] \in Calls /\ num[t] = answered /\ start[num[t]] = pos
         /\ pos' = pos + HeaderUnits
         /\ got' = [got EXCEPT ![t] = num[t]]
         /\ left' = [left EXCEPT ![t] = reply[num[t]].entire]
         /\ \/ /\ reply[num[t]].entire = 0
               /\ pc' = [pc EXCEPT ![t] = "unlock"]
               /\ \E e \in Errors : res' = [res EXCEPT ![t] = e]
            \/ /\ reply[num[t]].entire # 0 /\ UNCHANGED res
               /\ pc' = [pc EXCEPT ![t] = IF reply[num[t]].this > 0 THEN "this" ELSE "rest"]
      BY HeaderOutcome
<1>5. num[t] \in Calls => reply[num[t]].entire \in 0..2
      BY ReplyShape
<1> USE DEF clientVars, outVars, inVars, histVars
<1>6. TypeOK'
      BY <1>3, <1>4, <1>5 DEF TypeOK, Pcs, InCall
<1>7. (MutexHeld /\ PacketsWhole /\ DataFits /\ DataSmall /\ PayloadDue)'
      BY <1>1, <1>3, <1>4 DEF MutexHeld, PacketsWhole, DataFits, DataSmall, PayloadDue, InCall, TypeOK
<1>8. NumbersLeft'
  <2>1. Waiting' = Waiting
        BY <1>1, <1>4 DEF Waiting, TypeOK
  <2> QED BY <1>3, <2>1 DEF NumbersLeft
<1>9. Numbers'
      BY <1>1, <1>2, <1>3, <1>4 DEF Numbers, InCall, Sending, Reading, TypeOK
<1>10. StreamEnd'
      BY <1>3 DEF StreamEnd, Size
<1>11. Body'
  <2>1. num[t] = answered /\ num[t] \in Calls /\ start[num[t]] = pos =>
          end = pos + HeaderUnits + reply[num[t]].entire
        BY <1>2, <1>5 DEF StreamEnd, Size, TypeOK, HeaderUnits
  <2> QED BY <1>1, <1>2, <1>3, <1>4, <1>5, <2>1, SMTT(30) DEF Body, InCall, Sending, Reading, TypeOK, Calls, HeaderUnits
<1>12. StaysBehind'
  <2>1. desynced /\ num[t] = answered => pos < start[num[t]]
        BY <1>1, <1>2 DEF StaysBehind, TypeOK
  <2>2. num[t] = answered => end >= start[num[t]] + HeaderUnits
    <3>1. num[t] = answered => /\ answered # 0 /\ answered \in Calls /\ start[answered] \in Nat
                               /\ reply[answered].entire \in 0..2
          BY <1>2, <1>5 DEF TypeOK
    <3> QED BY <3>1 DEF StreamEnd, Size, HeaderUnits
  <2>3. answered <= dispatched
        BY DEF Numbers
  <2> QED BY <1>1, <1>2, <1>3, <1>4, <2>1, <2>2, <2>3 DEF StaysBehind, InCall, TypeOK, HeaderUnits
<1> QED BY <1>6, <1>7, <1>8, <1>9, <1>10, <1>11, <1>12

\* What the thread that reads a body may rely on.
LEMMA BodyFacts ==
  ASSUME IInv, NEW t \in Threads, pc[t] \in Reading
  PROVE  /\ \A u \in Threads : u # t => pc[u] \notin InCall
         /\ num[t] = packet_num /\ packet_num > 0 /\ dispatched = packet_num
         /\ answered = packet_num /\ got[t] = num[t] /\ got[t] \in Calls
         /\ left[t] \in 1..2 /\ pos + left[t] = end
         /\ mutex = t /\ ~desynced
<1>1. MutexHeld /\ Numbers /\ Body /\ StaysBehind /\ TypeOK
      BY DEF IInv, Inv
<1>2. pc[t] \in InCall
      BY DEF InCall, Reading
<1>3. got[t] # 0 /\ got[t] \in Calls /\ left[t] \in 1..2 /\ pos + left[t] = end
      BY <1>1 DEF Body, TypeOK
<1> QED BY <1>1, <1>2, <1>3, Alone DEF Numbers, Body, MutexHeld, InCall, Reading, StaysBehind

\* A read of the body takes units from the stream and from what is left of the reply; the
\* call goes on with the rest, or ends with the result of the reply or with an error.
BodyRead(t) ==
  /\ pc[t] \in Reading
  /\ UNCHANGED <<op, need, num, got, written, clientVars, outVars, inVars, desynced>>
  /\ \E k \in 0..left[t] :
       /\ pos' = pos + k
       /\ left' = [left EXCEPT ![t] = @ - k]
       /\ \/ /\ pc' = [pc EXCEPT ![t] = "unlock"]
             /\ \E e \in Errors : /\ res' = [res EXCEPT ![t] = e]
                                  /\ e = "SUCCESS" => k = left[t]
          \/ /\ k # left[t] /\ UNCHANGED res
             /\ pc' = [pc EXCEPT ![t] = "rest"]
  /\ aborted' \in BOOLEAN

LEMMA ThisReads ==
  ASSUME IInv, NEW t \in Threads, ReceiveThis(t)
  PROVE  BodyRead(t)
<1>1. TypeOK /\ pos <= end
      BY DEF IInv, Inv, StreamEnd
<1>2. pc[t] = "this" /\ pc[t] \in Reading
      BY DEF ReceiveThis, Reading
<1>3. got[t] \in Calls /\ left[t] \in 1..2
      BY <1>2, BodyFacts
<1> DEFINE this == reply[got[t]].this
           result == Interpret(reply[got[t]])
<1>4. this \in 1..2 /\ this <= left[t] /\ result \in Errors
  <2>1. this > 0 /\ left[t] = reply[got[t]].entire
        BY <1>2 DEF IInv, Body
  <2> QED BY <1>1, <1>3, <2>1, ReplyShape
<1>5. PICK r \in Receive(this) :
        /\ pos' = pos + r.count
        /\ left' = [left EXCEPT ![t] = @ - r.count]
        /\ IF r.err # "SUCCESS" THEN Fail(t, r.err) /\ aborted' \in BOOLEAN
           ELSE /\ UNCHANGED aborted
                /\ IF r.count < this THEN Fail(t, "END_OF_DATA")
                   ELSE IF left'[t] > 0 THEN Goto(t, "rest") /\ UNCHANGED res
                   ELSE Fail(t, result)
      BY Zenon DEF ReceiveThis
<1> HIDE DEF this, result
<1>6. r.count \in 0..this /\ r.err \in Errors
      BY <1>1, <1>4, ReceiveFacts
<1>7. r.count \in 0..left[t] /\ left'[t] = left[t] - r.count
      BY <1>1, <1>3, <1>4, <1>5, <1>6 DEF TypeOK
<1>8. aborted' \in BOOLEAN
      BY <1>1, <1>5 DEF TypeOK
<1>9. UNCHANGED <<op, need, num, got, written, clientVars, outVars, inVars, desynced>>
      BY Zenon DEF ReceiveThis
<1>10. \/ /\ pc' = [pc EXCEPT ![t] = "unlock"]
          /\ \E e \in Errors : /\ res' = [res EXCEPT ![t] = e]
                               /\ e = "SUCCESS" => r.count = left[t]
       \/ /\ r.count # left[t] /\ UNCHANGED res
          /\ pc' = [pc EXCEPT ![t] = "rest"]
  <2>1. CASE r.err # "SUCCESS"
        BY <1>5, <1>6, <2>1 DEF Fail, Goto
  <2>2. CASE r.err = "SUCCESS" /\ r.count < this
        BY <1>5, <2>2 DEF Fail, Goto, Errors
  <2>3. CASE r.err = "SUCCESS" /\ ~(r.count < this)
        BY <1>3, <1>4, <1>5, <1>7, <2>3 DEF Fail, Goto
  <2> QED BY <2>1, <2>2, <2>3
<1> QED BY <1>2, <1>5, <1>7, <1>8, <1>9, <1>10 DEF BodyRead

LEMMA RestReads ==
  ASSUME IInv, NEW t \in Threads, ReceiveRest(t)
  PROVE  BodyRead(t)
<1>1. TypeOK /\ pos <= end
      BY DEF IInv, Inv, StreamEnd
<1>2. pc[t] = "rest" /\ pc[t] \in Reading
      BY DEF ReceiveRest, Reading
<1>3. got[t] \in Calls /\ left[t] \in 1..2
      BY <1>2, BodyFacts
<1> DEFINE result == Interpret(reply[got[t]])
<1>4. result \in Errors
      BY <1>1, <1>3, ReplyShape
<1>5. PICK r \in Receive(left[t]) :
        /\ pos' = pos + r.count
        /\ left' = [left EXCEPT ![t] = @ - r.count]
        /\ IF r.err # "SUCCESS" THEN Fail(t, r.err)
           ELSE IF left'[t] > 0 THEN UNCHANGED <<pc, res>> ELSE Fail(t, result)
      BY Zenon DEF ReceiveRest
<1> HIDE DEF result
<1>6. r.count \in 0..left[t] /\ r.err \in Errors
      BY <1>1, <1>3, ReceiveFacts
<1>7. left'[t] = left[t] - r.count
      BY <1>1, <1>5 DEF TypeOK
<1>8. aborted' \in BOOLEAN
      BY <1>1 DEF TypeOK, ReceiveRest, histVars
<1>9. UNCHANGED <<op, need, num, got, written, clientVars, outVars, inVars, desynced>>
      BY Zenon DEF ReceiveRest, histVars
<1>10. \/ /\ pc' = [pc EXCEPT ![t] = "unlock"]
          /\ \E e \in Errors : /\ res' = [res EXCEPT ![t] = e]
                               /\ e = "SUCCESS" => r.count = left[t]
       \/ /\ r.count # left[t] /\ UNCHANGED res
          /\ pc' = [pc EXCEPT ![t] = "rest"]
  <2>1. CASE r.err # "SUCCESS"
        BY <1>5, <1>6, <2>1 DEF Fail, Goto
  <2>2. CASE r.err = "SUCCESS"
        BY <1>1, <1>2, <1>3, <1>4, <1>5, <1>6, <1>7, <2>2 DEF Fail, Goto, TypeOK
  <2> QED BY <2>1, <2>2
<1> QED BY <1>2, <1>5, <1>6, <1>8, <1>9, <1>10 DEF BodyRead

\* A read of the body keeps the call at the end of the stream.
LEMMA BodyReadInv ==
  ASSUME IInv, NEW t \in Threads, BodyRead(t)
  PROVE  IInv'
<1> USE DEF IInv, Inv
<1>1. pc[t] \in Reading
      BY DEF BodyRead
<1>2. /\ \A u \in Threads : u # t => pc[u] \notin InCall
      /\ num[t] = packet_num /\ packet_num > 0 /\ dispatched = packet_num
      /\ answered = packet_num /\ got[t] = num[t] /\ got[t] \in Calls
      /\ left[t] \in 1..2 /\ pos + left[t] = end
      /\ mutex = t /\ ~desynced
      BY <1>1, BodyFacts
<1>3. /\ UNCHANGED <<op, need, num, got, written, clientVars, outVars, inVars, desynced>>
      /\ aborted' \in BOOLEAN
      BY DEF BodyRead
<1>4. PICK k \in 0..left[t] :
       /\ pos' = pos + k
       /\ left' = [left EXCEPT ![t] = @ - k]
       /\ \/ /\ pc' = [pc EXCEPT ![t] = "unlock"]
             /\ \E e \in Errors : /\ res' = [res EXCEPT ![t] = e]
                                  /\ e = "SUCCESS" => k = left[t]
          \/ /\ k # left[t] /\ UNCHANGED res
             /\ pc' = [pc EXCEPT ![t] = "rest"]
      BY DEF BodyRead
<1> USE DEF clientVars, outVars, inVars
<1>5. /\ left' \in [Threads -> 0..2] /\ left'[t] = left[t] - k
      /\ pos' \in Nat /\ pos' + left'[t] = end
      BY <1>2, <1>4 DEF TypeOK
<1>6. TypeOK'
  <2>1. \/ pc' = [pc EXCEPT ![t] = "unlock"] /\ \E e \in Errors : res' = [res EXCEPT ![t] = e]
        \/ pc' = [pc EXCEPT ![t] = "rest"] /\ res' = res
        BY <1>4, Zenon
  <2>2. pc' \in [Threads -> Pcs] /\ res' \in [Threads -> Errors \union {"none"}]
        BY <2>1 DEF TypeOK, Pcs, InCall
  <2> QED BY <1>3, <1>5, <2>2 DEF TypeOK
<1>7. (MutexHeld /\ PacketsWhole /\ DataFits /\ DataSmall /\ PayloadDue)'
      BY <1>1, <1>2, <1>3, <1>4 DEF MutexHeld, PacketsWhole, DataFits, DataSmall, PayloadDue, InCall,
         Reading, TypeOK
<1>8. NumbersLeft'
  <2>1. Waiting' = Waiting
        BY <1>1, <1>4 DEF Waiting, TypeOK, Reading
  <2> QED BY <1>3, <2>1 DEF NumbersLeft
<1>9. Numbers'
      BY <1>1, <1>2, <1>3, <1>4 DEF Numbers, InCall, Sending, Reading, TypeOK
<1>10. StreamEnd'
      BY <1>2, <1>3, <1>4 DEF StreamEnd, Size, TypeOK
<1>11. Body'
  <2>1. \A u \in Threads : u # t => pc'[u] = pc[u] /\ res'[u] = res[u] /\ left'[u] = left[u]
        BY <1>4 DEF TypeOK
  <2>2. CASE pc' = [pc EXCEPT ![t] = "unlock"]
    <3>1. pc'[t] = "unlock" /\ (res'[t] = "SUCCESS" => k = left[t])
          BY <1>4, <2>2 DEF TypeOK, Reading
    <3> QED BY <1>2, <1>3, <1>4, <1>5, <2>1, <3>1 DEF Body, InCall, Sending, Reading, TypeOK
  <2>3. CASE pc' = [pc EXCEPT ![t] = "rest"] /\ k # left[t]
    <3>1. pc'[t] = "rest" /\ left'[t] > 0
          BY <1>2, <1>4, <1>5, <2>3 DEF TypeOK
    <3> QED BY <1>2, <1>3, <1>4, <1>5, <2>1, <3>1 DEF Body, InCall, Sending, Reading, TypeOK
  <2> QED BY <1>4, <2>2, <2>3
<1>12. StaysBehind'
      BY <1>2, <1>3 DEF StaysBehind
<1> QED BY <1>6, <1>7, <1>8, <1>9, <1>10, <1>11, <1>12

-----------------------------------------------------------------------------
(* The end of a call, the device, and the theorems                         *)

\* A call that leaves with its reply still to come leaves the client behind for good.
LEMMA UnlockInv ==
  ASSUME IInv, NEW t \in Threads, Unlock(t)
  PROVE  IInv'
<1> USE DEF IInv, Inv
<1>1. pc[t] = "unlock" /\ pc' = [pc EXCEPT ![t] = "done"] /\ mutex' = None
      BY DEF Unlock, Goto
<1>2. \A u \in Threads : u # t => pc[u] \notin InCall
      BY <1>1, Alone DEF InCall
<1>3. /\ UNCHANGED <<op, need, num, got, left, written, packet_num, packet_extra,
                     outVars, inVars, pos, aborted>>
      /\ res' = [res EXCEPT ![t] = Result(t)]
      BY DEF Unlock
<1>4. desynced' \in BOOLEAN /\ (desynced' => desynced \/ Behind)
      BY Zenon DEF Unlock, TypeOK
<1>5. Result(t) \in Errors \union {"none"}
      BY DEF Result, TypeOK, Errors
<1> USE DEF outVars, inVars
<1>6. TypeOK'
      BY <1>1, <1>3, <1>4, <1>5 DEF TypeOK, Pcs
<1>7. (MutexHeld /\ PacketsWhole /\ DataFits /\ DataSmall /\ PayloadDue)'
      BY <1>1, <1>3, ConstAssumption DEF MutexHeld, PacketsWhole, DataFits, DataSmall, PayloadDue,
         InCall, TypeOK
<1>8. NumbersLeft'
  <2>1. Waiting' = Waiting
        BY <1>1 DEF Waiting, TypeOK
  <2> QED BY <1>3, <2>1 DEF NumbersLeft
<1>9. Numbers'
      BY <1>1, <1>2, <1>3 DEF Numbers, InCall, Sending, Reading, TypeOK
<1>10. (StreamEnd /\ Body)'
      BY <1>1, <1>2, <1>3 DEF StreamEnd, Size, Body, InCall, Sending, Reading, TypeOK
<1>11. StaysBehind'
  <2>1. pos <= end /\ answered <= dispatched
        BY DEF StreamEnd, Numbers
  <2>2. desynced' => pos < end + HeaderUnits * (dispatched - answered)
        BY <1>4, <2>1 DEF Behind, StaysBehind, HeaderUnits, TypeOK
  <2>3. \A u \in Threads : pc'[u] \notin InCall
        BY <1>1, <1>2 DEF TypeOK, InCall
  <2> QED BY <1>3, <2>2, <2>3 DEF StaysBehind, InCall
<1> QED BY <1>6, <1>7, <1>8, <1>9, <1>10, <1>11

\* The call is over and the thread forgets it.
LEMMA ReturnInv ==
  ASSUME IInv, NEW t \in Threads, Return(t)
  PROVE  IInv'
<1> USE DEF IInv, Inv, Return, Goto, clientVars, outVars, inVars
<1>1. aborted' \in BOOLEAN
      BY Zenon
<1>2. TypeOK'
  <2>1. /\ pc' \in [Threads -> Pcs] /\ op' \in [Threads -> AllOps \union {"none"}]
        /\ need' \in [Threads -> Nat] /\ num' \in [Threads -> Nat]
        BY DEF TypeOK, Pcs
  <2>2. /\ got' \in [Threads -> {0} \union Calls] /\ left' \in [Threads -> 0..2]
        /\ written' \in [Threads -> 0..(Word - 1)]
        /\ res' \in [Threads -> Errors \union {"none"}]
        BY ConstAssumption DEF TypeOK
  <2>3. /\ mutex' = mutex /\ packet_num' = packet_num /\ packet_extra' = packet_extra
        /\ UNCHANGED <<ssl, link, wire, garbled, dispatched, answered, start, reply, pos, end, desynced>>
        BY DEF outVars, inVars
  <2> HIDE DEF Return
  <2> QED BY <1>1, <2>1, <2>2, <2>3 DEF TypeOK
<1>3. (MutexHeld /\ PacketsWhole /\ DataFits /\ DataSmall /\ PayloadDue)'
      BY DEF MutexHeld, PacketsWhole, DataFits, DataSmall, PayloadDue, InCall, TypeOK
<1>4. NumbersLeft'
  <2>1. Waiting' = Waiting
        BY DEF Waiting, TypeOK
  <2> QED BY <2>1 DEF NumbersLeft
<1>5. Numbers'
      BY DEF Numbers, InCall, Sending, Reading, TypeOK
<1>6. (StreamEnd /\ Body /\ StaysBehind)'
      BY DEF StreamEnd, Size, Body, StaysBehind, InCall, Sending, Reading, TypeOK
<1> QED BY <1>2, <1>3, <1>4, <1>5, <1>6

\* Another answer brings at least the header it was owed.
LEMMA StillToCome ==
  ASSUME NEW e \in Nat, NEW f \in Nat, NEW d \in Nat, NEW a \in Nat, f >= e + HeaderUnits
  PROVE  f + HeaderUnits * (d - (a + 1)) >= e + HeaderUnits * (d - a)
BY DEF HeaderUnits

\* The device answers the next request; what is to come grows by no less than a header.
LEMMA DeviceAnswerInv ==
  ASSUME IInv, DeviceAnswer
  PROVE  IInv'
<1> USE DEF IInv, Inv
<1>1. PICK r \in Replies :
        /\ answered' = answered + 1
        /\ reply' = [reply EXCEPT ![answered + 1] = r]
        /\ start' = [start EXCEPT ![answered + 1] = end]
        /\ end' = end + HeaderUnits + r.entire
      BY DEF DeviceAnswer
<1>2. /\ UNCHANGED <<pc, callVars, clientVars, outVars, pos, histVars>>
      /\ answered < dispatched /\ answered + 1 \in Calls
      BY DEF DeviceAnswer
<1>3. r.entire \in 0..2
      BY ConstAssumption DEF Reply
<1>4. TypeOK
      OBVIOUS
<1>5. TypeOK'
      BY <1>1, <1>2, <1>3 DEF TypeOK, callVars, clientVars, outVars, histVars, HeaderUnits
<1>6. (MutexHeld /\ PacketsWhole /\ DataFits /\ DataSmall /\ PayloadDue)'
      BY <1>2 DEF MutexHeld, PacketsWhole, DataFits, DataSmall, PayloadDue, callVars, clientVars, outVars
<1>7. NumbersLeft'
  <2>1. Waiting' = Waiting
        BY <1>2 DEF Waiting
  <2> QED BY <1>2, <2>1 DEF NumbersLeft, clientVars
<1>8. Numbers'
      BY <1>1, <1>2 DEF Numbers, callVars, clientVars, outVars, TypeOK
<1>9. StreamEnd'
  <2>1. answered' # 0 /\ start'[answered'] = end /\ reply'[answered'] = r
        BY <1>1, <1>2 DEF TypeOK, Calls
  <2> QED BY <1>1, <1>2, <1>3, <2>1 DEF StreamEnd, Size, TypeOK, HeaderUnits
<1>10. Body'
  <2>1. \A t \in Threads : pc[t] \notin Reading
        BY <1>2, BodyFacts DEF TypeOK
  <2>2. \A t \in Threads : pc[t] = "unlock" /\ res[t] = "SUCCESS" => got[t] = 0
        BY <1>2 DEF Body, TypeOK
  <2> QED BY <1>1, <1>2, <2>1, <2>2 DEF Body, Reading, callVars, clientVars, outVars, TypeOK
<1>11. StaysBehind'
  <2>1. end' >= end + HeaderUnits /\ answered' = answered + 1
        BY <1>1, <1>3 DEF TypeOK, HeaderUnits
  <2>2. \A t \in Threads : pc[t] = "header" => num[t] >= answered + 1
        BY <1>2, HeaderFacts DEF TypeOK
  <2>3. start'[answered + 1] = end
        BY <1>1, <1>2 DEF TypeOK
  <2>4. \A t \in Threads : pc[t] = "header" /\ desynced =>
           pos < end + HeaderUnits * (num[t] - 1 - answered)
        BY <2>2 DEF StaysBehind, TypeOK
  <2>5. UNCHANGED <<pc, num, got, pos, dispatched, desynced>>
        BY <1>2 DEF callVars, outVars, histVars
  <2>6. answered \in Nat /\ start' \in [Calls -> Nat] /\ end' \in Nat
        BY <1>5 DEF TypeOK, Calls
  <2>7. ASSUME desynced PROVE pos < end' + HeaderUnits * (dispatched - answered')
    <3>1. pos < end + HeaderUnits * (dispatched - answered)
          BY <2>7 DEF StaysBehind
    <3>2. pos \in Nat /\ end \in Nat /\ dispatched \in Nat
          BY DEF TypeOK
    <3>3. end' + HeaderUnits * (dispatched - answered') >= end + HeaderUnits * (dispatched - answered)
          BY <2>1, <2>6, <3>2, StillToCome
    <3>4. end' + HeaderUnits * (dispatched - answered') \in Int
          BY <2>1, <2>6, <3>2 DEF HeaderUnits
    <3>5. end + HeaderUnits * (dispatched - answered) \in Int
          BY <2>6, <3>2 DEF HeaderUnits
    <3> QED BY <3>1, <3>2, <3>3, <3>4, <3>5
  <2>8. ASSUME NEW t \in Threads, desynced, pc[t] = "header"
        PROVE  IF num[t] <= answered' THEN pos < start'[num[t]]
               ELSE pos < end' + HeaderUnits * (num[t] - 1 - answered')
    <3>1. pos < end + HeaderUnits * (num[t] - 1 - answered) /\ num[t] >= answered + 1 /\ num[t] \in Nat
          BY <2>2, <2>4, <2>8 DEF TypeOK
    <3>2. CASE num[t] = answered + 1
          BY <2>1, <2>3, <2>6, <3>1, <3>2 DEF HeaderUnits, TypeOK
    <3>3. CASE num[t] > answered + 1
          BY <2>1, <2>6, <3>1, <3>3 DEF HeaderUnits, TypeOK
    <3> QED BY <2>6, <3>1, <3>2, <3>3
  <2> QED BY <2>5, <2>7, <2>8 DEF StaysBehind
<1> QED BY <1>5, <1>6, <1>7, <1>8, <1>9, <1>10, <1>11

\* The connection goes away and nothing is sent any more (DeviceLost, afc_client_free).
LEMMA LinkInv ==
  ASSUME IInv, Free \/ DeviceLost
  PROVE  IInv'
<1> USE DEF IInv, Inv, Free, DeviceLost, callVars, clientVars, inVars, histVars
<1>1. link' \in {"down", "freed"}
      OBVIOUS
<1>2. TypeOK'
      BY <1>1 DEF TypeOK
<1>3. (MutexHeld /\ PacketsWhole /\ DataFits /\ DataSmall /\ PayloadDue)'
      BY <1>1 DEF MutexHeld, PacketsWhole, DataFits, DataSmall, PayloadDue
<1>4. NumbersLeft'
  <2>1. Waiting' = Waiting
        BY DEF Waiting
  <2> QED BY <2>1 DEF NumbersLeft
<1>5. Numbers'
      BY <1>1 DEF Numbers
<1>6. (StreamEnd /\ Body /\ StaysBehind)'
      BY DEF StreamEnd, Size, Body, StaysBehind
<1> QED BY <1>2, <1>3, <1>4, <1>5, <1>6

\* Nothing happens.
LEMMA StutterInv ==
  ASSUME IInv, UNCHANGED vars
  PROVE  IInv'
BY DEF vars, callVars, clientVars, outVars, inVars, histVars, IInv, Inv, TypeOK, MutexHeld,
   PacketsWhole, DataFits, DataSmall, PayloadDue, NumbersLeft, Waiting, Numbers, StreamEnd, Size, Body,
   StaysBehind

LEMMA StepInv == IInv /\ [Next]_vars => IInv'
<1> SUFFICES ASSUME IInv, [Next]_vars PROVE IInv'
    OBVIOUS
<1>1. CASE \E t \in Threads, o \in Ops : \E len \in DataLens(o) : Call(t, o, len)
      BY <1>1, CallInv
<1>2. CASE \E t \in Threads : ThreadStep(t)
  <2>1. PICK t \in Threads : ThreadStep(t)
        BY <1>2
  <2> QED BY <2>1, LockInv, PrepareInv, SendPacketInv, SendPayloadInv, ReceiveHeaderInv, ThisReads,
          RestReads, BodyReadInv, UnlockInv, ReturnInv DEF ThreadStep
<1>3. CASE Free \/ DeviceLost
      BY <1>3, LinkInv
<1>4. CASE DeviceAnswer
      BY <1>4, DeviceAnswerInv
<1>5. CASE Finished \/ UNCHANGED vars
      BY <1>5, StutterInv DEF Finished
<1> QED BY <1>1, <1>2, <1>3, <1>4, <1>5 DEF Next

\* Locking, the one packet under way, the stream and the buffer hold together for ever.
THEOREM AlwaysIInv == Spec => []IInv
BY InitInv, StepInv, PTL DEF Spec

\* What the mutex of the client is for, whatever the number of threads and calls.
THEOREM Safety == Spec => []Inv
<1>1. IInv => Inv
      BY DEF IInv
<1> QED BY <1>1, AlwaysIInv, PTL

\* A call reads the reply to its own request or none.
THEOREM OwnReply == Spec => []ReplyIsOwn
<1>1. IInv => ReplyIsOwn
  <2> SUFFICES ASSUME IInv PROVE ReplyIsOwn
      OBVIOUS
  <2> USE DEF IInv, Inv
  <2>1. \A t \in Threads : got[t] # 0 => got[t] = num[t]
        BY DEF Body
  <2>2. ASSUME NEW t \in Threads, pc[t] \in Reading
        PROVE  pos + left[t] = start[num[t]] + Size(num[t])
        BY <2>2, BodyFacts DEF StreamEnd
  <2>3. \A t \in Threads : pc[t] = "unlock" /\ res[t] = "SUCCESS" /\ got[t] # 0 => ~Behind
        BY DEF Body, Behind, TypeOK
  <2>4. \A t \in Threads : desynced /\ pc[t] \in InCall => got[t] = 0
        BY DEF StaysBehind
  <2> QED BY <2>1, <2>2, <2>3, <2>4 DEF ReplyIsOwn, Reading
<1> QED BY <1>1, AlwaysIInv, PTL

-----------------------------------------------------------------------------
(* The request/reply contract                                              *)

\* What a caller sees of its call: the outcome of the refinement mapping.
OutcomeOf(t) == IF pc[t] \notin {"unlock", "done"} THEN "none"
                ELSE IF res[t] = "SUCCESS" /\ got[t] # 0 THEN "ok" ELSE "failed"
Outcome == [t \in Threads |-> OutcomeOf(t)]

\* The step is invisible to callers, or is the step of one call.
Unseen == UNCHANGED <<packet_num, answered, num, Outcome>>
Ends(t) ==
  /\ UNCHANGED <<packet_num, answered, num>>
  /\ OutcomeOf(t) = "none"
  /\ \/ Outcome' = [Outcome EXCEPT ![t] = "failed"]
     \/ /\ Outcome' = [Outcome EXCEPT ![t] = "ok"]
        /\ num[t] = packet_num /\ answered = packet_num /\ packet_num > 0

LEMMA UnseenMaps == Unseen => UNCHANGED Abstract!vars
BY DEF Unseen, Abstract!vars, Outcome, OutcomeOf

\* A call that ends succeeds or fails in the abstract specification.
LEMMA EndsMaps == ASSUME NEW t \in Threads, Ends(t) PROVE Abstract!Next
<1>1. CASE Outcome' = [Outcome EXCEPT ![t] = "failed"]
  <2>1. Abstract!Fail(t)
        BY <1>1 DEF Ends, Abstract!Fail, Outcome, OutcomeOf
  <2> QED BY <2>1 DEF Abstract!Next
<1>2. CASE Outcome' = [Outcome EXCEPT ![t] = "ok"] /\ num[t] = packet_num /\ answered = packet_num
           /\ packet_num > 0
  <2>1. Abstract!Succeed(t)
        BY <1>2 DEF Ends, Abstract!Succeed, Outcome, OutcomeOf
  <2> QED BY <2>1 DEF Abstract!Next
<1> QED BY <1>1, <1>2 DEF Ends

\* What the other threads' callers see does not change when only t moves.
LEMMA OthersUnseen ==
  ASSUME NEW t \in Threads,
         \A u \in Threads \ {t} : pc'[u] = pc[u] /\ res'[u] = res[u] /\ got'[u] = got[u]
  PROVE  Outcome' = [Outcome EXCEPT ![t] = OutcomeOf(t)']
BY DEF Outcome, OutcomeOf

\* Calling, waiting and unlocking are invisible.
LEMMA QuietMaps ==
  ASSUME IInv, NEW t \in Threads,
         Lock(t) \/ Unlock(t) \/ \E o \in Ops : \E len \in DataLens(o) : Call(t, o, len)
  PROVE  Unseen
<1>1. UNCHANGED <<packet_num, answered, num, got>>
      BY DEF Lock, Unlock, Call, callVars, clientVars, inVars
<1>2. \A u \in Threads \ {t} : pc'[u] = pc[u] /\ res'[u] = res[u] /\ got'[u] = got[u]
      BY DEF Lock, Unlock, Call, Goto, callVars, IInv, Inv, TypeOK
<1>3. OutcomeOf(t)' = OutcomeOf(t)
      BY <1>1 DEF OutcomeOf, Lock, Unlock, Call, Goto, Result, callVars, IInv, Inv, TypeOK
<1> QED BY <1>1, <1>2, <1>3, OthersUnseen DEF Unseen, Outcome

\* The number a packet gets issues the request.
LEMMA PrepareMaps == ASSUME IInv, NEW t \in Threads, Prepare(t) PROVE Abstract!Next
<1>1. pc[t] = "prepare" /\ num[t] = 0 /\ OutcomeOf(t) = "none"
      BY DEF Prepare, IInv, Numbers, OutcomeOf
<1>2. packet_num < MaxCalls
  <2>1. IsFiniteSet(Waiting) /\ t \in Waiting
        BY <1>1, ConstAssumption, FS_Subset DEF Waiting
  <2>2. Cardinality(Waiting) \in Nat /\ Cardinality(Waiting) # 0
        BY <2>1, FS_EmptySet, FS_CardinalityType
  <2> QED BY <2>2, ConstAssumption DEF IInv, Inv, NumbersLeft, TypeOK
<1>3. Outcome' = Outcome
  <2>1. \A u \in Threads \ {t} : pc'[u] = pc[u] /\ res'[u] = res[u] /\ got'[u] = got[u]
        BY DEF Prepare, Goto, IInv, Inv, TypeOK
  <2>2. OutcomeOf(t)' = OutcomeOf(t)
        BY DEF OutcomeOf, Prepare, Goto, IInv, Inv, TypeOK
  <2> QED BY <2>1, <2>2, OthersUnseen DEF Outcome
<1>4. Abstract!Issue(t)
      BY <1>1, <1>2, <1>3 DEF Abstract!Issue, Prepare, inVars, Outcome, OutcomeOf
<1> QED BY <1>4 DEF Abstract!Next

\* A send is invisible or ends the call without a reply.
LEMMA SendMaps ==
  ASSUME IInv, NEW t \in Threads, SendPacket(t) \/ SendPayload(t)
  PROVE  Unseen \/ Ends(t)
<1>1. /\ UNCHANGED <<packet_num, answered, num, got>> /\ got[t] = 0
      /\ pc[t] \in {"send", "payload"}
      BY DEF SendPacket, SendPayload, clientVars, inVars, IInv, Body, Sending
<1>2. \A u \in Threads \ {t} : pc'[u] = pc[u] /\ res'[u] = res[u] /\ got'[u] = got[u]
      BY DEF SendPacket, SendPayload, Fail, Goto, IInv, Inv, TypeOK
<1>3. OutcomeOf(t) = "none" /\ OutcomeOf(t)' \in {"none", "failed"}
      BY <1>1 DEF OutcomeOf
<1> QED BY <1>1, <1>2, <1>3, OthersUnseen, ZenonT(30) DEF Unseen, Ends, Outcome

\* A header is invisible, or ends the call: with success only after its own reply.
LEMMA HeaderMaps ==
  ASSUME IInv, NEW t \in Threads, ReceiveHeader(t)
  PROVE  Unseen \/ Ends(t)
<1>1. /\ UNCHANGED <<packet_num, answered, num>> /\ pc[t] = "header"
      /\ got[t] = 0 /\ num[t] = packet_num /\ packet_num > 0
      BY HeaderFacts DEF ReceiveHeader, clientVars, inVars
<1>2. \A u \in Threads \ {t} : pc'[u] = pc[u] /\ res'[u] = res[u] /\ got'[u] = got[u]
      BY HeaderOutcome DEF IInv, Inv, TypeOK
<1>3. got'[t] # 0 => answered = packet_num
      BY <1>1, HeaderOutcome DEF IInv, Inv, TypeOK
<1>4. OutcomeOf(t) = "none" /\ OutcomeOf(t)' \in {"none", "failed", "ok"}
      /\ (OutcomeOf(t)' = "ok" => got'[t] # 0)
      BY <1>1 DEF OutcomeOf
<1> QED BY <1>1, <1>2, <1>3, <1>4, OthersUnseen DEF Unseen, Ends, Outcome

\* A read of the body is invisible or ends the call, whose reply is the last one.
LEMMA BodyMaps ==
  ASSUME IInv, NEW t \in Threads, BodyRead(t)
  PROVE  Unseen \/ Ends(t)
<1>1. /\ UNCHANGED <<packet_num, answered, num, got>> /\ pc[t] \in Reading
      /\ answered = packet_num /\ num[t] = packet_num /\ packet_num > 0
      BY BodyFacts DEF BodyRead, clientVars, inVars
<1>2. \A u \in Threads \ {t} : pc'[u] = pc[u] /\ res'[u] = res[u] /\ got'[u] = got[u]
      BY DEF BodyRead, IInv, Inv, TypeOK
<1>3. OutcomeOf(t) = "none" /\ OutcomeOf(t)' \in {"none", "failed", "ok"}
      BY <1>1 DEF OutcomeOf, Reading
<1> QED BY <1>1, <1>2, <1>3, OthersUnseen DEF Unseen, Ends, Outcome

\* A call that returns is forgotten.
LEMMA ReturnMaps == ASSUME IInv, NEW t \in Threads, Return(t) PROVE Abstract!Next
<1>1. OutcomeOf(t) # "none" /\ OutcomeOf(t)' = "none"
      BY DEF Return, Goto, OutcomeOf, IInv, Inv, TypeOK
<1>2. \A u \in Threads \ {t} : pc'[u] = pc[u] /\ res'[u] = res[u] /\ got'[u] = got[u]
      BY DEF Return, Goto, IInv, Inv, TypeOK
<1>3. Outcome' = [Outcome EXCEPT ![t] = "none"]
      BY <1>1, <1>2, OthersUnseen
<1>4. Abstract!Return(t)
      BY <1>1, <1>3 DEF Abstract!Return, Return, clientVars, inVars, Outcome, OutcomeOf
<1> QED BY <1>4 DEF Abstract!Next

\* The device performs the next request that was issued.
LEMMA DeviceMaps == ASSUME IInv, DeviceAnswer PROVE Abstract!Next
<1>1. answered' = answered + 1 /\ answered < dispatched
      /\ UNCHANGED <<pc, callVars, clientVars>>
      BY DEF DeviceAnswer
<1>2. answered + 1 \in 1..packet_num /\ answered < answered + 1
      BY <1>1 DEF IInv, Inv, Numbers, TypeOK, Calls
<1>3. Abstract!Perform
      BY <1>1, <1>2 DEF Abstract!Perform, callVars, clientVars
<1> QED BY <1>3 DEF Abstract!Next

LEMMA StepMaps == IInv /\ [Next]_vars => [Abstract!Next]_(Abstract!vars)
<1> SUFFICES ASSUME IInv, [Next]_vars PROVE Abstract!Next \/ UNCHANGED Abstract!vars
    OBVIOUS
<1>1. CASE \E t \in Threads, o \in Ops : \E len \in DataLens(o) : Call(t, o, len)
      BY <1>1, QuietMaps, UnseenMaps
<1>2. CASE \E t \in Threads : ThreadStep(t)
  <2>1. PICK t \in Threads : ThreadStep(t)
        BY <1>2
  <2>2. CASE Lock(t) \/ Unlock(t)
        BY <2>2, QuietMaps, UnseenMaps
  <2>3. CASE Prepare(t) \/ Return(t)
        BY <2>3, PrepareMaps, ReturnMaps
  <2>4. CASE SendPacket(t) \/ SendPayload(t)
        BY <2>4, SendMaps, UnseenMaps, EndsMaps
  <2>5. CASE ReceiveHeader(t) \/ ReceiveThis(t) \/ ReceiveRest(t)
        BY <2>5, HeaderMaps, ThisReads, RestReads, BodyMaps, UnseenMaps, EndsMaps
  <2> QED BY <2>1, <2>2, <2>3, <2>4, <2>5 DEF ThreadStep
<1>3. CASE Free \/ DeviceLost \/ Finished \/ UNCHANGED vars
  <2>1. Unseen
        BY <1>3 DEF Unseen, Outcome, OutcomeOf, Free, DeviceLost, Finished, vars, callVars, clientVars, inVars
  <2> QED BY <2>1, UnseenMaps
<1>4. CASE DeviceAnswer
      BY <1>4, DeviceMaps
<1> QED BY <1>1, <1>2, <1>3, <1>4 DEF Next

LEMMA InitMaps == Init => Abstract!Init
BY DEF Init, Abstract!Init

\* The client keeps the contract of RequestReply: requests are performed in the order they
\* were issued and at most once, and a call that reports a reply reports that of its own
\* request, which the device has performed.
THEOREM Contract == Spec => ImplementsRequestReply
<1>1. Init => Abstract!Init
      BY InitMaps
<1>2. IInv /\ [Next]_vars => [Abstract!Next]_(Abstract!vars)
      BY StepMaps
<1> QED BY <1>1, <1>2, AlwaysIInv, PTL DEF Spec, ImplementsRequestReply, Abstract!Spec
=============================================================================
