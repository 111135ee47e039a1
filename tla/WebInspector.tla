------------------------------ MODULE WebInspector ------------------------------
(***************************************************************************)
(* webinspector.c: a message is a packet that is cut into chunks; all but  *)
(* the last are called partial, and the last one final.  The receiver puts *)
(* the packet together again.  A packet is a sequence of units, each of    *)
(* which knows the message it comes from.                                  *)
(***************************************************************************)
EXTENDS Naturals, Sequences

CONSTANTS
  Chunk,       \* WEBINSPECTOR_PARTIAL_PACKET_CHUNK_SIZE
  MaxLength,   \* bound: length of a packet
  MaxMessages  \* bound: messages in each direction

VARIABLES
  pc,
  number, left, offset,  \* the message that is sent, packet_length and offset
  peer,      \* the device: chunks of a message that is not final yet
  heard,     \* the last packet that was final there
  told,      \* messages that the device has sent
  wire,      \* chunks from the device that have arrived: message, size, final
  packet,    \* what receive has put together
  res,       \* result of the last call, and the packet it handed over
  multiple,  \* history: a packet was as long as some chunks
  dropped    \* history: a receive failed between two chunks

vars == <<pc, number, left, offset, peer, heard, told, wire, packet, res, multiple, dropped>>

Units(n, from, size) == [i \in 1..size |-> [msg |-> n, at |-> from + i]]
NoResult == [op |-> "none", ok |-> FALSE, packet |-> <<>>]

Init ==
  /\ pc = "idle" /\ number = 0 /\ left = 0 /\ offset = 0
  /\ peer = <<>> /\ heard = <<>> /\ told = 0 /\ wire = <<>> /\ packet = <<>>
  /\ res = NoResult /\ multiple = FALSE /\ dropped = FALSE

-----------------------------------------------------------------------------
(* webinspector_send *)

Send ==
  /\ pc = "idle" /\ number < MaxMessages
  /\ pc' = "send" /\ number' = number + 1 /\ left' \in 1..MaxLength /\ offset' = 0
  /\ multiple' = (multiple \/ left' % Chunk = 0)
  /\ res' = NoResult
  /\ UNCHANGED <<peer, heard, told, wire, packet, dropped>>

\* a packet of just a chunk is partial too, and then nothing is left to be final
Final == left < Chunk

\* mutant: every chunk is taken from the beginning of the packet
Advance_Never(size) == left' = left - size /\ UNCHANGED offset

Advance(size) == left' = left - size /\ offset' = offset + size

SendChunk ==
  /\ pc = "send"
  /\ LET size == IF Final THEN left ELSE Chunk
         all == peer \o Units(number, offset, size) IN
       /\ Advance(size)
       /\ IF Final THEN heard' = all /\ peer' = <<>> ELSE peer' = all /\ UNCHANGED heard
       /\ IF left = size
          THEN pc' = "idle" /\ res' = [NoResult EXCEPT !.op = "send", !.ok = TRUE]
          ELSE UNCHANGED <<pc, res>>
  /\ UNCHANGED <<number, told, wire, packet, multiple, dropped>>

\* a connection that does not take a chunk takes no other
SendFails ==
  /\ pc = "send"
  /\ pc' = "lost" /\ res' = [NoResult EXCEPT !.op = "send"]
  /\ UNCHANGED <<number, left, offset, peer, heard, told, wire, packet, multiple, dropped>>

-----------------------------------------------------------------------------
(* webinspector_receive_with_timeout *)

\* a message of the device in at most three chunks
DeviceSends ==
  /\ told < MaxMessages /\ told' = told + 1
  /\ \E chunks \in 1..3 :
       wire' = wire \o [i \in 1..chunks |-> [msg |-> told', at |-> i, final |-> i = chunks]]
  /\ UNCHANGED <<pc, number, left, offset, peer, heard, packet, res, multiple, dropped>>

Receive ==
  /\ pc = "idle"
  /\ pc' = "receive" /\ packet' = <<>> /\ res' = NoResult
  /\ UNCHANGED <<number, left, offset, peer, heard, told, wire, multiple, dropped>>

\* mutant: the first chunk ends the loop
Last_First(chunk) == TRUE

Last(chunk) == chunk.final

ReceiveChunk ==
  /\ pc = "receive" /\ wire # <<>>
  /\ wire' = Tail(wire)
  /\ LET all == Append(packet, Head(wire)) IN
       IF Last(Head(wire))
       THEN /\ pc' = "idle" /\ packet' = <<>>
            /\ res' = [op |-> "receive", ok |-> TRUE, packet |-> all]
       ELSE packet' = all /\ UNCHANGED <<pc, res>>
  /\ UNCHANGED <<number, left, offset, peer, heard, told, multiple, dropped>>

\* no chunk in time, or none that can be read: the chunks so far are forgotten
ReceiveFails ==
  /\ pc = "receive"
  /\ \/ UNCHANGED wire
     \/ wire # <<>> /\ wire' = Tail(wire)
  /\ pc' = "idle" /\ packet' = <<>> /\ res' = [NoResult EXCEPT !.op = "receive"]
  /\ dropped' = (dropped \/ packet # <<>> \/ wire' # wire)
  /\ UNCHANGED <<number, left, offset, peer, heard, told, multiple>>

Next == Send \/ SendChunk \/ SendFails \/ DeviceSends \/ Receive \/ ReceiveChunk \/ ReceiveFails

-----------------------------------------------------------------------------
(* Properties *)

TypeOK ==
  /\ pc \in {"idle", "send", "receive", "lost"} /\ number \in 0..MaxMessages
  /\ left \in 0..MaxLength /\ offset \in 0..MaxLength

\* After a send that succeeds the device has that message, all of it and nothing else, unless
\* a packet was as long as some chunks: its last chunk is not final (line 132), so that the
\* device takes the next message for the rest of it.
SentWhole ==
  res.op = "send" /\ res.ok =>
    multiple \/ (peer = <<>> /\ heard = Units(number, 0, Len(heard)) /\ Len(heard) = offset)

\* A receive that succeeds hands over one message of the device from its first chunk to its
\* last one, unless an earlier receive gave up in the middle of a message.
ReceivedWhole ==
  res.op = "receive" /\ res.ok /\ ~dropped =>
    \A i \in 1..Len(res.packet) :
      res.packet[i] = [msg |-> res.packet[1].msg, at |-> i, final |-> i = Len(res.packet)]
================================================================================
