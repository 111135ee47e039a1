------------------------------- MODULE Connection -------------------------------
(***************************************************************************)
(* idevice.c: one connection and its user, who sends, receives with and    *)
(* without a timeout, and switches SSL on and off.  What the device sends  *)
(* is counted in units.  In SSL a unit is a record of four parts: a head   *)
(* of two, which the SSL library keeps when the read that follows fails,   *)
(* and a body of two; internal_ssl_read fetches either in one call.        *)
(* Both ways to receive have a timeout: the caller's, or the one that is   *)
(* predefined below idevice_connection_receive (libimobiledevice.h:326).   *)
(***************************************************************************)
EXTENDS Naturals, Sequences

CONSTANTS
  MaxUnits,  \* bound: units that the device sends
  MaxOut,    \* bound: units that the host sends
  MaxLen     \* bound: units of one call

VARIABLES
  pc,
  conn,     \* "none", "open" or "freed"
  alive,    \* the socket is not lost
  ssl,      \* connection->ssl_data is there
  limit,    \* connection->ssl_recv_timeout: set, or "never"
  record,   \* the library's buffer: the head of a record
  partial,  \* the buffer of internal_ssl_read
  shut,     \* the library takes the session for closed
  due,      \* the unit whose record the library's count of records stands for
  wire,     \* parts that have arrived
  devtls,   \* the device speaks SSL
  sent,     \* parts that the device has sent, and of which unit
  len, buf, \* the call's length and buffer
  got,      \* history: units handed to the caller
  out, before,  \* units at the device, and when the call began
  result,   \* what the last call returned
  torn,     \* history: a read ended in the middle of a head or of a body
  expired,  \* history: a receive with the predefined timeout found nothing in this session
  apart     \* history: the two ends do not agree on SSL, or did not on some unread part

link == <<conn, alive>>
layer == <<ssl, record, partial, shut, due>>
dev == <<wire, devtls, sent>>
hist == <<torn, apart, expired>>
vars == <<pc, link, layer, limit, dev, len, buf, got, out, before, result, hist>>

NoResult == [op |-> "none", err |-> "success", bytes |-> 0, len |-> 0, moved |-> 0]

Init ==
  /\ pc = "idle" /\ conn = "none" /\ alive = FALSE
  /\ ssl = FALSE /\ record = <<>> /\ partial = <<>> /\ shut = FALSE /\ due = 0
  /\ limit = "never"
  /\ wire = <<>> /\ devtls = FALSE /\ sent = [unit |-> 0, part |-> 4]
  /\ len = 0 /\ buf = <<>> /\ got = <<>> /\ out = 0 /\ before = 0
  /\ result = NoResult /\ torn = FALSE /\ apart = FALSE /\ expired = FALSE

-----------------------------------------------------------------------------
(* The device *)

Next4(s) == IF s.part < 4 THEN [s EXCEPT !.part = @ + 1] ELSE [unit |-> s.unit + 1, part |-> 1]

\* in plain text a unit is one part
DeviceSends ==
  /\ conn = "open" /\ alive /\ (sent.part < 4 \/ sent.unit < MaxUnits)
  /\ sent' = IF devtls \/ sent.part < 4 THEN Next4(sent) ELSE [unit |-> sent.unit + 1, part |-> 4]
  /\ wire' = Append(wire, [unit |-> sent'.unit, part |-> IF devtls \/ sent.part < 4 THEN sent'.part ELSE 0])
  /\ UNCHANGED <<pc, link, layer, limit, devtls, len, buf, got, out, before, result, hist>>

Lose ==
  /\ conn = "open" /\ alive /\ alive' = FALSE
  /\ UNCHANGED <<pc, conn, layer, limit, dev, len, buf, got, out, before, result, hist>>

-----------------------------------------------------------------------------
(* Connecting *)

Return(op, err, bytes, moved) ==
  /\ result' = [op |-> op, err |-> err, bytes |-> bytes, len |-> len, moved |-> moved]
  /\ pc' = "idle" /\ len' = 0 /\ buf' = <<>> /\ before' = 0

Connect ==
  /\ pc = "idle" /\ conn = "none"
  /\ \/ /\ conn' = "open" /\ alive' = TRUE
        /\ result' = [NoResult EXCEPT !.op = "connect"]
     \/ /\ \E err \in {"refused", "nodevice", "unknown"} :
             result' = [NoResult EXCEPT !.op = "connect", !.err = err]
        /\ UNCHANGED <<conn, alive>>
  /\ UNCHANGED <<pc, layer, limit, dev, len, buf, got, out, before, hist>>

Call == pc = "idle" /\ conn = "open"

\* internal_ssl_cleanup
Cleanup ==
  ssl' = FALSE /\ record' = <<>> /\ partial' = <<>> /\ shut' = FALSE /\ due' = 0 /\ expired' = FALSE

\* SSL is shut down first
Disconnect ==
  /\ Call
  /\ conn' = "freed" /\ alive' = FALSE /\ Cleanup
  /\ result' = [NoResult EXCEPT !.op = "disconnect"]
  /\ UNCHANGED <<pc, limit, dev, len, buf, got, out, before, torn, apart>>

-----------------------------------------------------------------------------
(* Sending: status, which is set before each call, is what a call with SSL   *)
(* returns after an error                                                  *)

BeginSend(n) ==
  /\ Call /\ out + n <= MaxOut
  /\ pc' = "send" /\ len' = n /\ before' = out /\ result' = NoResult
  /\ UNCHANGED <<link, layer, limit, dev, buf, got, out, hist>>

Sent == out - before

\* internal_connection_send: some of the data, or an error; with SSL it is the library that
\* asks again for the rest of a record
Send ==
  /\ pc = "send" /\ Sent < len
  /\ alive
  /\ out' \in (out + 1)..(before + len)
  /\ UNCHANGED <<pc, link, layer, limit, dev, len, buf, got, before, result, hist>>

SendReturns(err, bytes) ==
  /\ pc = "send"
  /\ Return("send", err, bytes, Sent)
  /\ UNCHANGED <<link, layer, limit, dev, got, out, hist>>

SendFails ==
  /\ Sent < len /\ ~alive
  /\ IF ssl THEN SendReturns("unknown", 0)
     ELSE SendReturns(IF Sent = 0 THEN "unknown" ELSE "notenough", Sent)

\* mutant: what the first call has sent is taken for all of it
AllSent_First == Sent > 0

AllSent == Sent = len

SendEnds == AllSent /\ SendReturns("success", IF ssl THEN len ELSE Sent)

-----------------------------------------------------------------------------
(* Receiving *)

BeginReceive(op, n) ==
  /\ Call
  /\ pc' = op /\ len' = n /\ result' = NoResult
  /\ limit' = IF ssl /\ op = "timeout" THEN "set" ELSE "never"
  /\ UNCHANGED <<link, layer, dev, buf, got, out, before, hist>>

Receiving(op) == pc = op /\ op \in {"receive", "timeout"}

\* the caller gets what is in its buffer
Hand(op, err, data) ==
  /\ Return(op, err, Len(data), Len(data))
  /\ got' = got \o data

\* one recv, which takes what is there
ReceivePlain(op) ==
  /\ Receiving(op) /\ ~ssl
  /\ \E n \in 1..len :
       /\ n <= Len(wire)
       /\ wire' = SubSeq(wire, n + 1, Len(wire))
       /\ Hand(op, "success", [i \in 1..n |-> wire[i].unit])
  /\ UNCHANGED <<link, layer, limit, devtls, sent, out, hist>>

\* recv ends with an error, or after its time
ReceivePlainFails(op) ==
  /\ Receiving(op) /\ ~ssl /\ wire = <<>>
  /\ \/ ~alive /\ \E err \in {"unknown"} \union (IF op = "timeout" THEN {"notenough"} ELSE {}) :
                    Hand(op, err, <<>>)
     \/ alive /\ Hand(op, IF op = "timeout" THEN "timeout" ELSE "unknown", <<>>)
  /\ UNCHANGED <<link, layer, limit, dev, out, hist>>

\* the end of the loop over SSL_read; limit is reset on every path
SslReturns(op, err, data) ==
  /\ Hand(op, err, data) /\ limit' = "never"
  /\ UNCHANGED <<link, ssl, devtls, sent, out, apart>>

IsRecord(parts) == \A p \in 1..4 : parts[p] = [unit |-> parts[1].unit, part |-> p]
\* the digest is over the number of the record in its session, too
Verifies(parts) == IsRecord(parts) /\ parts[1].unit = due
IsHead(parts) == \A p \in 1..2 : parts[p] = [unit |-> parts[1].unit, part |-> p]

\* internal_ssl_read: the head is one read, the body is another
SslPart(op) ==
  /\ Receiving(op) /\ ssl /\ ~shut /\ wire # <<>>
  /\ wire' = Tail(wire)
  /\ \/ partial = <<>> /\ partial' = <<Head(wire)>> /\ UNCHANGED record
     \/ /\ record = <<>> /\ partial # <<>> /\ IsHead(partial \o <<Head(wire)>>)
        /\ record' = partial \o <<Head(wire)>> /\ partial' = <<>>
  /\ UNCHANGED <<pc, link, ssl, shut, due, limit, devtls, sent, len, buf, got, out, before, result, hist>>

\* mutant: SSL_read is always given the beginning of the buffer
Into_Start(u) == <<u>> \o SubSeq(buf, 2, Len(buf))

\* data + received
Into(u) == Append(buf, u)

\* the record is complete and its digest is right: SSL_read returns, and a receive with a
\* timeout goes on until it has all it was asked for
SslRecord(op) ==
  /\ Receiving(op) /\ ssl /\ ~shut /\ wire # <<>>
  /\ record # <<>> /\ partial # <<>> /\ Verifies(record \o partial \o <<Head(wire)>>)
  /\ wire' = Tail(wire) /\ record' = <<>> /\ partial' = <<>> /\ due' = due + 1
  /\ LET unit == record[1].unit IN
       IF op = "timeout" /\ Len(buf) + 1 < len
       THEN /\ buf' = Into(unit)
            /\ UNCHANGED <<pc, link, ssl, limit, devtls, sent, len, out, before, apart, result, got>>
       ELSE SslReturns(op, "success", Into(unit))
  /\ UNCHANGED <<shut, torn, expired>>

\* it is not a record, or its digest is wrong: that is the end of the session
SslDamaged(op) ==
  /\ Receiving(op) /\ ssl /\ ~shut /\ wire # <<>> /\ partial # <<>>
  /\ \/ record = <<>> /\ ~IsHead(partial \o <<Head(wire)>>)
     \/ record # <<>> /\ ~Verifies(record \o partial \o <<Head(wire)>>)
  /\ wire' = Tail(wire) /\ record' = <<>> /\ partial' = <<>> /\ shut' = TRUE
  /\ SslReturns(op, "ssl", buf)
  /\ UNCHANGED <<due, torn, expired>>

SslShut(op) ==
  /\ Receiving(op) /\ ssl /\ shut
  /\ SslReturns(op, "ssl", buf)
  /\ UNCHANGED <<record, partial, shut, due, wire, torn, expired>>

\* mutant: the session stays closed after a timeout
StaysShut_Timeout == TRUE

\* SSL_set_shutdown(session, 0)
StaysShut == FALSE

\* what internal_ssl_read has so far is gone
SslTimeout ==
  /\ Receiving("timeout") /\ ssl /\ ~shut /\ alive /\ wire = <<>>
  /\ torn' = (torn \/ partial # <<>>)
  /\ partial' = <<>> /\ shut' = StaysShut
  /\ SslReturns("timeout", "timeout", buf)
  /\ UNCHANGED <<record, due, wire, expired>>

\* nobody looks at what the library made of it: the session stays closed
SslExpires ==
  /\ Receiving("receive") /\ ssl /\ ~shut /\ alive /\ wire = <<>>
  /\ torn' = (torn \/ partial # <<>>)
  /\ partial' = <<>> /\ shut' = TRUE /\ expired' = TRUE
  /\ SslReturns("receive", "ssl", buf)
  /\ UNCHANGED <<record, due, wire>>

SslLost(op) ==
  /\ Receiving(op) /\ ssl /\ ~shut /\ ~alive /\ wire = <<>>
  /\ torn' = (torn \/ partial # <<>>)
  /\ shut' = TRUE /\ partial' = <<>>
  /\ SslReturns(op, IF op = "timeout" THEN "unknown" ELSE "ssl", buf)
  /\ UNCHANGED <<record, due, wire, expired>>

-----------------------------------------------------------------------------
(* SSL on and off *)

\* without a pair record nothing is done; what the handshake reads has the predefined timeout
EnableSsl ==
  /\ Call
  /\ \/ ssl /\ result' = [NoResult EXCEPT !.op = "enable", !.err = "invalid"] /\ UNCHANGED pc
     \/ ~ssl /\ result' = [NoResult EXCEPT !.op = "enable", !.err = "ssl"] /\ UNCHANGED pc
     \/ ~ssl /\ pc' = "handshake" /\ UNCHANGED result
  /\ UNCHANGED <<link, layer, limit, dev, len, buf, got, out, before, hist>>

\* the device may have gone over to SSL although the handshake fails for the host
Handshake ==
  /\ pc = "handshake"
  /\ \/ /\ alive /\ wire = <<>> /\ ~devtls
        /\ ssl' = TRUE /\ devtls' = TRUE /\ due' = sent.unit + 1
        /\ result' = [NoResult EXCEPT !.op = "enable"]
        /\ UNCHANGED <<wire, apart>>
     \/ /\ ssl' = FALSE /\ wire' = <<>> /\ UNCHANGED due
        /\ devtls' \in {devtls, devtls \/ (alive /\ sent.part = 4)}
        /\ apart' = (apart \/ devtls' \/ wire # <<>>)
        /\ result' = [NoResult EXCEPT !.op = "enable", !.err = "ssl"]
  /\ pc' = "idle"
  /\ UNCHANGED <<link, record, partial, shut, limit, sent, len, buf, got, out, before, torn, expired>>

\* with sslBypass nothing is said to the device, whose service has left SSL by itself; in
\* between the device may have sent what nobody has read
DisableSsl(bypass) ==
  /\ Call /\ ssl
  /\ Cleanup
  /\ devtls' = IF alive \/ bypass THEN FALSE ELSE devtls
  /\ apart' = (apart \/ torn \/ wire # <<>> \/ record # <<>> \/ sent.part < 4)
  /\ result' = [NoResult EXCEPT !.op = "disable"]
  /\ UNCHANGED <<pc, link, limit, wire, sent, len, buf, got, out, before, torn>>

Next ==
  \/ DeviceSends \/ Lose \/ Connect \/ Disconnect \/ Send \/ SendFails \/ SendEnds
  \/ SslTimeout \/ SslExpires \/ EnableSsl \/ Handshake
  \/ \E n \in 1..MaxLen : BeginSend(n) \/ \E op \in {"receive", "timeout"} : BeginReceive(op, n)
  \/ \E op \in {"receive", "timeout"} :
       \/ ReceivePlain(op) \/ ReceivePlainFails(op)
       \/ SslPart(op) \/ SslRecord(op) \/ SslDamaged(op) \/ SslShut(op) \/ SslLost(op)
  \/ \E bypass \in BOOLEAN : DisableSsl(bypass)

-----------------------------------------------------------------------------
(* Properties *)

TypeOK ==
  /\ pc \in {"idle", "send", "receive", "timeout", "handshake"}
  /\ conn \in {"none", "open", "freed"} /\ alive \in BOOLEAN /\ ssl \in BOOLEAN
  /\ len \in 0..MaxLen /\ out \in 0..MaxOut /\ Len(record) \in {0, 2} /\ Len(partial) <= 1

\* The caller gets the units of the device in their order, none twice and none left out, with
\* SSL and without, however the parts of a record and the timeouts come (line 993 drops what
\* was read of a head or a body: the session then fails, and hands nothing wrong to the caller).
Delivered == ~apart => \A i \in 1..Len(got) : got[i] = i

\* A timeout costs nothing unless it comes in the middle of a head or a body: what was not
\* handed to the caller is still there to be read, and the session goes on (lines 809 to 813)
\* but for one in idevice_connection_receive, which nothing follows up (lines 893 to 905).
TimeoutKeeps ==
  ~torn /\ ~apart /\ conn = "open" =>
    /\ shut => ~alive \/ expired
    /\ pc = "idle" => \A i \in 1..Len(wire) : wire[i].unit > Len(got)
    /\ pc = "idle" /\ ssl /\ record \o wire # <<>> => Head(record \o wire) = [unit |-> Len(got) + 1, part |-> 1]

\* The result of a call is true: after success all of it was sent, or received if SSL was on,
\* and without SSL the count of a send that failed is what the device was sent; the timeout
\* of a receive does not outlive it (comment at line 796).
ResultTrue ==
  /\ pc = "idle" /\ result.op = "send" =>
       /\ result.err = "success" <=> result.moved = result.len
       /\ result.bytes \in {0, result.moved}
       /\ ~ssl => result.bytes = result.moved
  /\ pc = "idle" /\ result.op = "timeout" /\ result.err = "success" /\ ssl => result.bytes = result.len
  /\ pc # "timeout" => limit = "never"

\* what the user of a connection relies on
StreamTrue == TypeOK /\ Delivered /\ TimeoutKeeps /\ ResultTrue
================================================================================
