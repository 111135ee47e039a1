------------------------- MODULE CaptureClient_proofs -------------------------
(***************************************************************************)
(* Proofs about CaptureClient, for any bounds: a worker that runs is the   *)
(* one that client->worker names, what it delivers until a reader leaves a *)
(* message half-way are whole messages in the order of the device, and a   *)
(* client whose readers are at the wrong place still implements Capture.   *)
(***************************************************************************)
EXTENDS CaptureClient, Integers, TLAPS

PartSet == (1..MaxMsg) \X (0..3) \X Kinds
Replies == Requests \union {"refused"}
Reading(w) == pc[w] \in {"load", "recv"}

-----------------------------------------------------------------------------
(* The invariant                                                           *)

\* What travels, and what was received.
QueueOK ==
  /\ devq \in Seq(Requests) /\ inbox \in Seq(PartSet)
  /\ got \in [Workers -> Seq(PartSet)] /\ delivered \in Seq(Seq(PartSet)) /\ logs \in Seq(Nat)

\* The application's thread, and the worker that it starts and joins.
CallOK ==
  /\ app = "send" => reqs < MaxReq
  /\ app \in {"send", "plist"} => op \in Requests
  /\ app \in {"send", "plist", "archive"} => service = "ostrace"
  /\ app = "new" => op = "StartActivity"
  /\ app \in {"send", "plist", "new"} /\ op = "StartActivity" => worker = 0 /\ threads < MaxStart
  /\ app = "archive" => op = "CreateArchive"
  /\ app = "join" => worker # 0
  /\ app \in {"close", "freed"} => worker = 0
  /\ conn = "freed" <=> app = "freed"
  /\ \A w \in Workers : w > threads => pc[w] = "none"
  /\ service # "ostrace" => devq = <<>> /\ chunks = 0 /\ stored = 0

\* What a worker has received is as long as the part it is at says.
LengthOK ==
  /\ \A w \in Workers : /\ Reading(w) => Len(got[w]) = wpart[w] - 1 /\ wpart[w] <= Parts
                        /\ pc[w] = "callback" => Len(got[w]) = Parts
  /\ \A i \in 1..Len(delivered) : Len(delivered[i]) = Parts

ControlOK == CallOK /\ LengthOK

\* An archive is given to its callback at three parts a message.
Rest == IF app = "archive" THEN part - 1 ELSE 0
StoredOK == service = "ostrace" => 3 * stored + Rest + Len(inbox) <= 3 * msgs

\* Messages come in order, none has more than its parts, and what the worker will deliver
\* next comes after what was delivered last.
After(q, n, k) == \A i \in 1..Len(q) : i >= k => q[i][1] > n
OrderOK ==
  /\ \A i \in 1..Len(inbox) : inbox[i][1] <= msgs
  /\ \A i, j \in 1..Len(inbox) : i <= j => inbox[i][1] <= inbox[j][1]
  /\ \A i, j \in 1..Len(inbox) : i + Parts <= j => inbox[i][1] < inbox[j][1]
  /\ LastMessage \in 0..msgs
  /\ After(inbox, LastMessage, Parts)
  /\ \A w \in Workers : Reading(w) => After(inbox, LastMessage, Parts - Len(got[w]))
  /\ \A w \in Workers : pc[w] = "callback" =>
       /\ got[w][Parts][1] \in (LastMessage + 1)..msgs
       /\ After(inbox, got[w][Parts][1], Parts)

\* The part at which the reader of the connection is, and the last message read to its end.
Expect == IF worker # 0 /\ Reading(worker) THEN wpart[worker]
          ELSE IF app \in {"plist", "archive"} THEN part ELSE 1
ReadTo == IF inbox = <<>> THEN msgs ELSE inbox[1][1] - 1

\* Nobody has left a message half-way: the messages that are under way are whole ...
Whole ==
  /\ \A i \in 1..Len(inbox) : /\ i < Len(inbox) =>
                                IF inbox[i][2] < Parts
                                THEN inbox[i + 1] = <<inbox[i][1], inbox[i][2] + 1, inbox[i][3]>>
                                ELSE inbox[i + 1][1] = inbox[i][1] + 1 /\ inbox[i + 1][2] = 1
                              /\ i = Len(inbox) => inbox[i][1] = msgs /\ inbox[i][2] = Parts
                              /\ inbox[i][2] \in 1..Parts
  /\ IF inbox = <<>> THEN Expect = 1 ELSE inbox[1][2] = Expect
  /\ Expect = 3 => inbox[1][3] # "archive" \/ app = "archive"

\* ... the log messages among them are those that were not delivered ...
Full == IF worker # 0 /\ pc[worker] = "callback" THEN Len(delivered) + 1 ELSE Len(delivered)
LogsOK ==
  /\ \A i, j \in 1..Len(logs) : i < j => logs[i] < logs[j]
  /\ \A j \in 1..Len(logs) : logs[j] <= msgs
  /\ \A i \in 1..Len(inbox) : inbox[i][3] = "log" <=> \E j \in 1..Len(logs) : logs[j] = inbox[i][1]
  /\ Full <= Len(logs)
  /\ \A j \in 1..Len(logs) : j <= Full <=> logs[j] <= ReadTo
  /\ ~streaming => logs = <<>>

\* ... what the worker has received of one are its parts ...
GotOK ==
  worker # 0 =>
    /\ Reading(worker) => \A k \in 1..Len(got[worker]) : got[worker][k] = <<inbox[1][1], k, inbox[1][3]>>
    /\ pc[worker] = "callback" => \A k \in 1..Parts : got[worker][k] = <<logs[Full], k, "log">>

\* ... and a reply is under way only for the request in progress.
IsReply(i) == inbox[i][3] \in Replies
ReplyOK ==
  /\ app # "plist" => devq = <<>> /\ \A i \in 1..Len(inbox) : ~IsReply(i)
  /\ app \in {"plist", "archive", "new"} => worker = 0
  /\ app = "plist" =>
       /\ devq # <<>> \/ \E i \in 1..Len(inbox) : IsReply(i)
       /\ devq # <<>> => devq = <<op>> /\ ~streaming /\ \A i \in 1..Len(inbox) : ~IsReply(i)
       /\ \A i \in 1..Len(inbox) : IsReply(i) =>
            inbox[i][3] \in {op, "refused"} /\ \A j \in 1..Len(inbox) : IsReply(j) => inbox[j][1] = inbox[i][1]
       /\ \A i \in 1..Len(inbox) : inbox[i][3] = "log" => \E j \in 1..Len(inbox) : j < i /\ IsReply(j)
  /\ app \in {"plist", "archive"} /\ op = "CreateArchive" => ~streaming
  /\ service # "ostrace" => \A i \in 1..Len(inbox) : inbox[i][3] = "log"

Uncut == ~cut => Whole /\ LogsOK /\ GotOK /\ ReplyOK /\ WholeMessages
BaseOK == TypeOK /\ WorkerNamed /\ QueueOK /\ ControlOK /\ StoredOK
IInv == BaseOK /\ OrderOK /\ Uncut

-----------------------------------------------------------------------------
(* Sequences, and the parts of a message                                   *)

LEMMA EmptyFacts ==
  ASSUME NEW S, NEW q \in Seq(S)
  PROVE  /\ Len(q) \in Nat /\ (q = <<>> <=> Len(q) = 0)
         /\ \A i \in 1..Len(q) : q[i] \in S
OBVIOUS

LEMMA AppendFacts ==
  ASSUME NEW S, NEW q \in Seq(S), NEW m \in S
  PROVE  /\ Append(q, m) \in Seq(S) /\ Len(Append(q, m)) = Len(q) + 1 /\ Len(q) \in Nat
         /\ \A i \in 1..Len(q) : Append(q, m)[i] = q[i]
         /\ Append(q, m)[Len(q) + 1] = m /\ Append(q, m) # <<>>
OBVIOUS

LEMMA TailFacts ==
  ASSUME NEW S, NEW q \in Seq(S), q # <<>>
  PROVE  /\ Tail(q) \in Seq(S) /\ Len(q) \in Nat \ {0} /\ Len(Tail(q)) = Len(q) - 1
         /\ \A i \in 1..Len(Tail(q)) : i + 1 \in 1..Len(q) /\ Tail(q)[i] = q[i + 1]
         /\ Head(q) = q[1] /\ Head(q) \in S /\ 1 \in 1..Len(q)
         /\ Tail(q) = <<>> <=> Len(q) = 1
<1>1. Tail(q) \in Seq(S) /\ Len(q) \in Nat \ {0} /\ Len(Tail(q)) = Len(q) - 1
      OBVIOUS
<1>2. \A a \in Seq(S) : a = <<>> <=> Len(a) = 0
      BY EmptyFacts
<1>3. Tail(q) = <<>> <=> Len(Tail(q)) = 0
      BY <1>1, <1>2, Zenon
<1> QED BY <1>1, <1>3

\* A message is appended to the inbox with all its parts.
LEMMA ConcatFacts ==
  ASSUME NEW S, NEW q \in Seq(S), NEW n \in Nat, NEW f \in [1..n -> S]
  PROVE  /\ q \o f \in Seq(S) /\ Len(q \o f) = Len(q) + n /\ Len(q) \in Nat
         /\ \A i \in 1..Len(q) : (q \o f)[i] = q[i]
         /\ \A i \in 1..n : (q \o f)[Len(q) + i] = f[i]
OBVIOUS

\* A short read replaces the first part of the inbox.
LEMMA ReplaceFacts ==
  ASSUME NEW S, NEW q \in Seq(S), q # <<>>, NEW m \in S
  PROVE  /\ <<m>> \o Tail(q) \in Seq(S) /\ Len(<<m>> \o Tail(q)) = Len(q) /\ Len(q) \in Nat \ {0}
         /\ (<<m>> \o Tail(q))[1] = m
         /\ \A i \in 2..Len(q) : (<<m>> \o Tail(q))[i] = q[i]
OBVIOUS

LEMMA PartsFacts ==
  /\ Parts \in 1..3
  /\ service = "ostrace" => Parts = 3
  /\ service' = service => Parts' = Parts
BY DEF Parts

-----------------------------------------------------------------------------
(* Every action keeps the types and the queues                             *)

Scalars ==
  /\ service \in Services /\ parent \in BOOLEAN /\ worker \in {0} \union Workers
  /\ conn \in {"open", "lost", "freed"} /\ streaming \in BOOLEAN /\ cut \in BOOLEAN
  /\ reqs \in 0..MaxReq /\ threads \in 0..MaxStart /\ chunks \in 0..MaxChunk
  /\ msgs \in 0..MaxMsg /\ part \in 1..3 /\ stored \in Nat


LEMMA ScalarStep ==
  ASSUME TypeOK, ControlOK, StoredOK, Next
  PROVE  Scalars'
<1> USE ConstAssumption
    DEF Scalars, TypeOK, ControlOK, CallOK, Workers, clientVars, appVars, workerVars, devVars
<1>1. CASE StartCapture
      BY <1>1 DEF StartCapture
<1>2. CASE Request("PidList")
      BY <1>2 DEF Request
<1>3. CASE Request("CreateArchive")
      BY <1>3 DEF Request
<1>4. CASE StopCapture("stop")
  <2>1. parent' \in BOOLEAN
        BY <1>4, Zenon DEF StopCapture
  <2> QED BY <1>4, <2>1 DEF StopCapture
<1>5. CASE StopCapture("free")
  <2>1. parent' \in BOOLEAN
        BY <1>5, Zenon DEF StopCapture
  <2> QED BY <1>5, <2>1 DEF StopCapture
<1>6. CASE SendPlist
      BY <1>6 DEF SendPlist, Return
<1>7. CASE ReceivePlist
      BY <1>7 DEF ReceivePlist
<1>8. CASE MisreadPlist
      BY <1>8 DEF MisreadPlist
<1>9. CASE ReceivePlistError
      BY <1>9 DEF ReceivePlistError
<1>10. CASE NewThread
      BY <1>10 DEF NewThread, Goto, Return
<1>11. CASE ArchiveReceive
      BY <1>11 DEF ArchiveReceive
<1>12. CASE ArchiveError
      BY <1>12 DEF ArchiveError
<1>13. CASE Join
      BY <1>13 DEF Join
<1>14. CASE Close
      BY <1>14 DEF Close
<1>15. ASSUME NEW w \in Workers, WorkerHead(w) PROVE Scalars'
      BY <1>15 DEF WorkerHead
<1>16. ASSUME NEW w \in Workers, WorkerLoad(w) PROVE Scalars'
      BY <1>16 DEF WorkerLoad
<1>17. ASSUME NEW w \in Workers, WorkerReceive(w) PROVE Scalars'
      BY <1>17 DEF WorkerReceive
<1>18. ASSUME NEW w \in Workers, WorkerMisread(w) PROVE Scalars'
      BY <1>18 DEF WorkerMisread
<1>19. ASSUME NEW w \in Workers, WorkerShort(w) PROVE Scalars'
      BY <1>19 DEF WorkerShort
<1>20. ASSUME NEW w \in Workers, WorkerTimeout(w) PROVE Scalars'
      BY <1>20 DEF WorkerTimeout
<1>21. ASSUME NEW w \in Workers, WorkerLost(w) PROVE Scalars'
      BY <1>21 DEF WorkerLost
<1>22. ASSUME NEW w \in Workers, WorkerCallback(w) PROVE Scalars'
      BY <1>22 DEF WorkerCallback
<1>23. CASE DeviceReply
  <2>1. streaming' \in BOOLEAN
        BY <1>23, Zenon DEF DeviceReply
  <2>2. chunks' \in 0..MaxChunk
        BY <1>23 DEF DeviceReply
  <2>3. msgs' \in 0..MaxMsg
        BY <1>23 DEF DeviceReply, Sends
  <2> QED BY <1>23, <2>1, <2>2, <2>3 DEF DeviceReply
<1>24. CASE DeviceLog
      BY <1>24 DEF DeviceLog, Sends
<1>25. CASE DeviceArchive
      BY <1>25 DEF DeviceArchive, Sends
<1>26. CASE DeviceLost
      BY <1>26 DEF DeviceLost
<1>27. CASE Finished
      BY <1>27 DEF Finished, vars, clientVars, appVars, workerVars, devVars
<1> QED
  BY ONLY Next, <1>1, <1>2, <1>3, <1>4, <1>5, <1>6, <1>7, <1>8, <1>9, <1>10, <1>11, <1>12,
       <1>13, <1>14, <1>15, <1>16, <1>17, <1>18, <1>19, <1>20, <1>21, <1>22, <1>23,
       <1>24, <1>25, <1>26, <1>27
  DEF Next, Calls, AppStep, WorkerStep, Device

States ==
  /\ app \in {"idle", "send", "plist", "new", "archive", "join", "close", "freed"}
  /\ op \in Requests \union {"none", "stop", "free"}
  /\ res \in {"none", "SUCCESS", "UNKNOWN_ERROR", "REQUEST_FAILED", "TIMEOUT"}
  /\ pc \in [Workers -> WorkerPcs] /\ wpart \in [Workers -> 1..3]

LEMMA StateStep ==
  ASSUME TypeOK, ControlOK, Next
  PROVE  States'
<1> USE ConstAssumption, PartsFacts
    DEF States, TypeOK, ControlOK, CallOK, Workers, WorkerPcs, Requests, Goto, GiveUp, Return,
        clientVars, appVars, workerVars, devVars
<1>1. CASE StartCapture
      BY <1>1 DEF StartCapture
<1>2. CASE Request("PidList")
      BY <1>2 DEF Request
<1>3. CASE Request("CreateArchive")
      BY <1>3 DEF Request
<1>4. CASE StopCapture("stop")
      BY <1>4 DEF StopCapture
<1>5. CASE StopCapture("free")
      BY <1>5 DEF StopCapture
<1>6. CASE SendPlist
      BY <1>6 DEF SendPlist
<1>7. CASE ReceivePlist
      BY <1>7 DEF ReceivePlist, Replied
<1>8. CASE MisreadPlist
      BY <1>8 DEF MisreadPlist
<1>9. CASE ReceivePlistError
      BY <1>9 DEF ReceivePlistError
<1>10. CASE NewThread
      BY <1>10 DEF NewThread
<1>11. CASE ArchiveReceive
      BY <1>11 DEF ArchiveReceive
<1>12. CASE ArchiveError
      BY <1>12 DEF ArchiveError
<1>13. CASE Join
      BY <1>13 DEF Join
<1>14. CASE Close
      BY <1>14 DEF Close
<1>15. ASSUME NEW w \in Workers, WorkerHead(w) PROVE States'
      BY <1>15 DEF WorkerHead
<1>16. ASSUME NEW w \in Workers, WorkerLoad(w) PROVE States'
      BY <1>16 DEF WorkerLoad
<1>17. ASSUME NEW w \in Workers, WorkerReceive(w) PROVE States'
      BY <1>17 DEF WorkerReceive
<1>18. ASSUME NEW w \in Workers, WorkerMisread(w) PROVE States'
      BY <1>18 DEF WorkerMisread
<1>19. ASSUME NEW w \in Workers, WorkerShort(w) PROVE States'
      BY <1>19 DEF WorkerShort
<1>20. ASSUME NEW w \in Workers, WorkerTimeout(w) PROVE States'
      BY <1>20 DEF WorkerTimeout
<1>21. ASSUME NEW w \in Workers, WorkerLost(w) PROVE States'
      BY <1>21 DEF WorkerLost
<1>22. ASSUME NEW w \in Workers, WorkerCallback(w) PROVE States'
      BY <1>22 DEF WorkerCallback
<1>23. CASE DeviceReply
      BY <1>23 DEF DeviceReply
<1>24. CASE DeviceLog
      BY <1>24 DEF DeviceLog
<1>25. CASE DeviceArchive
      BY <1>25 DEF DeviceArchive
<1>26. CASE DeviceLost
      BY <1>26 DEF DeviceLost
<1>27. CASE Finished
      BY <1>27 DEF Finished, vars
<1> QED
  BY ONLY Next, <1>1, <1>2, <1>3, <1>4, <1>5, <1>6, <1>7, <1>8, <1>9, <1>10, <1>11, <1>12,
       <1>13, <1>14, <1>15, <1>16, <1>17, <1>18, <1>19, <1>20, <1>21, <1>22, <1>23,
       <1>24, <1>25, <1>26, <1>27
  DEF Next, Calls, AppStep, WorkerStep, Device

\* What sending a message does to the inbox.
LEMMA SendsFacts ==
  ASSUME TypeOK, QueueOK, NEW kind \in Kinds, Sends(kind)
  PROVE  /\ inbox' \in Seq(PartSet) /\ Len(inbox') = Len(inbox) + Parts /\ Len(inbox) \in Nat
         /\ \A i \in 1..Len(inbox) : inbox'[i] = inbox[i]
         /\ \A i \in 1..Parts : inbox'[Len(inbox) + i] = <<msgs + 1, i, kind>>
         /\ msgs' = msgs + 1 /\ msgs' \in 1..MaxMsg
<1> DEFINE f == [i \in 1..Parts |-> <<msgs + 1, i, kind>>]
<1>1. msgs \in Nat /\ msgs + 1 \in 1..MaxMsg /\ msgs' = msgs + 1 /\ inbox' = inbox \o f
      BY ConstAssumption DEF Sends, TypeOK
<1>2. f \in [1..Parts -> PartSet] /\ \A i \in 1..Parts : f[i] = <<msgs + 1, i, kind>>
  <2>1. \A i \in 1..Parts : <<msgs + 1, i, kind>> \in PartSet
    <3>1. \A i \in 1..Parts : i \in 0..3
          BY PartsFacts
    <3> QED BY <1>1, <3>1 DEF PartSet
  <2> QED BY ONLY <2>1
<1>3. inbox \in Seq(PartSet) /\ Parts \in Nat
      BY PartsFacts DEF QueueOK
<1> HIDE DEF f
<1>4. /\ inbox \o f \in Seq(PartSet) /\ Len(inbox \o f) = Len(inbox) + Parts /\ Len(inbox) \in Nat
      /\ \A i \in 1..Len(inbox) : (inbox \o f)[i] = inbox[i]
      /\ \A i \in 1..Parts : (inbox \o f)[Len(inbox) + i] = f[i]
      BY <1>2, <1>3, ConcatFacts
<1> QED BY <1>1, <1>2, <1>4

\* What reading a part does to it.
LEMMA ReadFacts ==
  ASSUME TypeOK, QueueOK, inbox # <<>>, inbox' = Tail(inbox)
  PROVE  /\ inbox' \in Seq(PartSet) /\ Len(inbox) \in Nat \ {0} /\ Len(inbox') = Len(inbox) - 1
         /\ \A i \in 1..Len(inbox') : i + 1 \in 1..Len(inbox) /\ inbox'[i] = inbox[i + 1]
         /\ Head(inbox) = inbox[1] /\ inbox[1] \in PartSet /\ 1 \in 1..Len(inbox)
         /\ inbox' = <<>> <=> Len(inbox) = 1
BY TailFacts DEF QueueOK

\* And what a short read does.
LEMMA ShortFacts ==
  ASSUME TypeOK, QueueOK, inbox # <<>>, inbox' = <<<<Head(inbox)[1], 0, Head(inbox)[3]>>>> \o Tail(inbox)
  PROVE  /\ inbox' \in Seq(PartSet) /\ Len(inbox') = Len(inbox) /\ Len(inbox) \in Nat \ {0}
         /\ inbox'[1][1] = inbox[1][1]
         /\ \A i \in 2..Len(inbox) : inbox'[i] = inbox[i]
<1> DEFINE m == <<Head(inbox)[1], 0, Head(inbox)[3]>>
<1>1. inbox[1] \in PartSet /\ Head(inbox) = inbox[1] /\ inbox \in Seq(PartSet)
      BY TailFacts DEF QueueOK
<1>2. m \in PartSet /\ m[1] = inbox[1][1]
      BY <1>1 DEF PartSet
<1>3. inbox' = <<m>> \o Tail(inbox)
      OBVIOUS
<1> HIDE DEF m
<1>4. /\ <<m>> \o Tail(inbox) \in Seq(PartSet) /\ Len(<<m>> \o Tail(inbox)) = Len(inbox)
      /\ Len(inbox) \in Nat \ {0} /\ (<<m>> \o Tail(inbox))[1] = m
      /\ \A i \in 2..Len(inbox) : (<<m>> \o Tail(inbox))[i] = inbox[i]
      BY <1>1, <1>2, ReplaceFacts
<1> QED BY <1>2, <1>3, <1>4

LEMMA QueueStep ==
  ASSUME TypeOK, QueueOK, ControlOK, Next
  PROVE  QueueOK'
<1> USE ConstAssumption, PartsFacts DEF QueueOK, clientVars, appVars, workerVars, devVars
<1>1. CASE StartCapture
      BY <1>1 DEF StartCapture
<1>2. CASE Request("PidList")
      BY <1>2 DEF Request
<1>3. CASE Request("CreateArchive")
      BY <1>3 DEF Request
<1>4. CASE StopCapture("stop")
  <2>1. UNCHANGED <<devq, inbox, got, delivered, logs>>
        BY <1>4, Zenon DEF StopCapture
  <2> QED BY <2>1
<1>5. CASE StopCapture("free")
  <2>1. UNCHANGED <<devq, inbox, got, delivered, logs>>
        BY <1>5, Zenon DEF StopCapture
  <2> QED BY <2>1
<1>6. CASE SendPlist
  <2>1. op \in Requests /\ devq \in Seq(Requests)
        BY <1>6 DEF SendPlist, ControlOK, CallOK, QueueOK
  <2>2. devq' = Append(devq, op) \/ devq' = devq
        BY <1>6 DEF SendPlist
  <2>3. Append(devq, op) \in Seq(Requests)
        BY ONLY <2>1, AppendFacts
  <2>4. devq' \in Seq(Requests)
        BY ONLY <2>1, <2>2, <2>3
  <2> QED BY <1>6, <2>4 DEF SendPlist
<1>7. CASE ReceivePlist
      BY <1>7 DEF ReceivePlist
<1>8. CASE MisreadPlist
      BY <1>8 DEF MisreadPlist
<1>9. CASE ReceivePlistError
      BY <1>9 DEF ReceivePlistError
<1>10. CASE NewThread
      BY <1>10 DEF NewThread
<1>11. CASE ArchiveReceive
      BY <1>11 DEF ArchiveReceive
<1>12. CASE ArchiveError
      BY <1>12 DEF ArchiveError
<1>13. CASE Join
      BY <1>13 DEF Join
<1>14. CASE Close
      BY <1>14 DEF Close
<1>15. ASSUME NEW w \in Workers, WorkerHead(w) PROVE QueueOK'
      BY <1>15 DEF WorkerHead
<1>16. ASSUME NEW w \in Workers, WorkerLoad(w) PROVE QueueOK'
      BY <1>16 DEF WorkerLoad
<1>17. ASSUME NEW w \in Workers, WorkerReceive(w) PROVE QueueOK'
      BY <1>17 DEF WorkerReceive
<1>18. ASSUME NEW w \in Workers, WorkerMisread(w) PROVE QueueOK'
  <2>1. inbox' \in Seq(PartSet)
        BY <1>18, ReadFacts, ShortFacts DEF WorkerMisread
  <2> QED BY <1>18, <2>1 DEF WorkerMisread
<1>19. ASSUME NEW w \in Workers, WorkerShort(w) PROVE QueueOK'
  <2>1. inbox' \in Seq(PartSet)
        BY <1>19, ReadFacts, ShortFacts DEF WorkerShort
  <2> QED BY <1>19, <2>1 DEF WorkerShort
<1>20. ASSUME NEW w \in Workers, WorkerTimeout(w) PROVE QueueOK'
      BY <1>20 DEF WorkerTimeout
<1>21. ASSUME NEW w \in Workers, WorkerLost(w) PROVE QueueOK'
      BY <1>21 DEF WorkerLost
<1>22. ASSUME NEW w \in Workers, WorkerCallback(w) PROVE QueueOK'
  <2>1. got[w] \in Seq(PartSet) /\ <<>> \in Seq(PartSet)
        OBVIOUS
  <2>2. delivered' \in Seq(Seq(PartSet))
        BY <1>22, <2>1, AppendFacts DEF WorkerCallback
  <2>3. got' \in [Workers -> Seq(PartSet)]
        BY <1>22, <2>1 DEF WorkerCallback
  <2> QED BY <1>22, <2>2, <2>3 DEF WorkerCallback
<1>23. CASE DeviceReply
  <2>1. devq # <<>> /\ devq' = Tail(devq) /\ UNCHANGED <<got, logs, delivered>>
        BY <1>23 DEF DeviceReply
  <2>2. Head(devq) \in Requests /\ devq' \in Seq(Requests)
        BY <2>1, TailFacts
  <2>3. PICK kind \in Kinds : Sends(kind)
        BY <1>23, <2>2 DEF DeviceReply, Kinds
  <2>4. inbox' \in Seq(PartSet)
        BY <2>3, SendsFacts
  <2> QED BY <2>1, <2>2, <2>4
<1>24. CASE DeviceLog
  <2>1. "log" \in Kinds /\ Sends("log") /\ msgs + 1 \in Nat
        BY <1>24 DEF DeviceLog, Kinds, TypeOK
  <2>2. inbox' \in Seq(PartSet)
        BY <2>1, SendsFacts
  <2>3. logs' \in Seq(Nat)
        BY <1>24, <2>1, AppendFacts DEF DeviceLog
  <2> QED BY <1>24, <2>2, <2>3 DEF DeviceLog
<1>25. CASE DeviceArchive
  <2>1. "archive" \in Kinds /\ Sends("archive")
        BY <1>25 DEF DeviceArchive, Kinds
  <2>2. inbox' \in Seq(PartSet)
        BY <2>1, SendsFacts
  <2> QED BY <1>25, <2>2 DEF DeviceArchive
<1>26. CASE DeviceLost
      BY <1>26 DEF DeviceLost
<1>27. CASE Finished
      BY <1>27 DEF Finished, vars
<1> QED
  BY ONLY Next, <1>1, <1>2, <1>3, <1>4, <1>5, <1>6, <1>7, <1>8, <1>9, <1>10, <1>11, <1>12,
       <1>13, <1>14, <1>15, <1>16, <1>17, <1>18, <1>19, <1>20, <1>21, <1>22, <1>23,
       <1>24, <1>25, <1>26, <1>27
  DEF Next, Calls, AppStep, WorkerStep, Device

LEMMA TypeStep ==
  ASSUME Scalars', States', QueueOK', stored' \in 0..MaxMsg
  PROVE  TypeOK'
<1>1. \A S : \A q \in Seq(S) : Elements(q) \subseteq S
      BY DEF Elements
<1>2. Elements(devq)' \subseteq Requests /\ Elements(inbox)' \subseteq PartSet
      BY <1>1 DEF QueueOK
<1> QED BY <1>2 DEF Scalars, States, TypeOK, PartSet

LEMMA CallStep ==
  ASSUME TypeOK, QueueOK, ControlOK, WorkerNamed, Next
  PROVE  CallOK'
<1> USE ConstAssumption, PartsFacts
    DEF TypeOK, ControlOK, CallOK, Workers, Requests, Goto, GiveUp, Return, clientVars, appVars,
        workerVars, devVars
<1>1. CASE StartCapture
      BY <1>1 DEF StartCapture, WorkerNamed, Live
<1>2. CASE Request("PidList")
      BY <1>2 DEF Request
<1>3. CASE Request("CreateArchive")
      BY <1>3 DEF Request
<1>4. CASE StopCapture("stop")
      BY <1>4 DEF StopCapture
<1>5. CASE StopCapture("free")
      BY <1>5 DEF StopCapture
<1>6. CASE SendPlist
      BY <1>6 DEF SendPlist, WorkerNamed, Live
<1>7. CASE ReceivePlist
      BY <1>7 DEF ReceivePlist, Replied
<1>8. CASE MisreadPlist
      BY <1>8 DEF MisreadPlist
<1>9. CASE ReceivePlistError
      BY <1>9 DEF ReceivePlistError
<1>10. CASE NewThread
      BY <1>10 DEF NewThread, WorkerNamed, Live
<1>11. CASE ArchiveReceive
      BY <1>11 DEF ArchiveReceive
<1>12. CASE ArchiveError
      BY <1>12 DEF ArchiveError
<1>13. CASE Join
      BY <1>13 DEF Join, WorkerNamed, Live
<1>14. CASE Close
      BY <1>14 DEF Close
<1>15. ASSUME NEW w \in Workers, WorkerHead(w) PROVE CallOK'
      BY <1>15 DEF WorkerHead
<1>16. ASSUME NEW w \in Workers, WorkerLoad(w) PROVE CallOK'
      BY <1>16 DEF WorkerLoad
<1>17. ASSUME NEW w \in Workers, WorkerReceive(w) PROVE CallOK'
      BY <1>17 DEF WorkerReceive
<1>18. ASSUME NEW w \in Workers, WorkerMisread(w) PROVE CallOK'
      BY <1>18 DEF WorkerMisread
<1>19. ASSUME NEW w \in Workers, WorkerShort(w) PROVE CallOK'
      BY <1>19 DEF WorkerShort
<1>20. ASSUME NEW w \in Workers, WorkerTimeout(w) PROVE CallOK'
      BY <1>20 DEF WorkerTimeout
<1>21. ASSUME NEW w \in Workers, WorkerLost(w) PROVE CallOK'
      BY <1>21 DEF WorkerLost
<1>22. ASSUME NEW w \in Workers, WorkerCallback(w) PROVE CallOK'
      BY <1>22 DEF WorkerCallback
<1>23. CASE DeviceReply
      BY <1>23 DEF DeviceReply
<1>24. CASE DeviceLog
      BY <1>24 DEF DeviceLog
<1>25. CASE DeviceArchive
      BY <1>25 DEF DeviceArchive
<1>26. CASE DeviceLost
      BY <1>26 DEF DeviceLost
<1>27. CASE Finished
      BY <1>27 DEF Finished, vars
<1> QED
  BY ONLY Next, <1>1, <1>2, <1>3, <1>4, <1>5, <1>6, <1>7, <1>8, <1>9, <1>10, <1>11, <1>12,
       <1>13, <1>14, <1>15, <1>16, <1>17, <1>18, <1>19, <1>20, <1>21, <1>22, <1>23,
       <1>24, <1>25, <1>26, <1>27
  DEF Next, Calls, AppStep, WorkerStep, Device

LEMMA NamedStep ==
  ASSUME TypeOK, ControlOK, WorkerNamed, Next
  PROVE  WorkerNamed'
<1> USE ConstAssumption, PartsFacts
    DEF TypeOK, ControlOK, CallOK, Workers, WorkerNamed, WorkerPcs, Live, Goto, GiveUp, Return,
        clientVars, appVars, workerVars, devVars
<1>1. CASE StartCapture
      BY <1>1 DEF StartCapture
<1>2. CASE Request("PidList")
      BY <1>2 DEF Request
<1>3. CASE Request("CreateArchive")
      BY <1>3 DEF Request
<1>4. CASE StopCapture("stop")
      BY <1>4 DEF StopCapture
<1>5. CASE StopCapture("free")
      BY <1>5 DEF StopCapture
<1>6. CASE SendPlist
      BY <1>6 DEF SendPlist
<1>7. CASE ReceivePlist
      BY <1>7 DEF ReceivePlist, Replied
<1>8. CASE MisreadPlist
      BY <1>8 DEF MisreadPlist
<1>9. CASE ReceivePlistError
      BY <1>9 DEF ReceivePlistError
<1>10. CASE NewThread
      BY <1>10 DEF NewThread
<1>11. CASE ArchiveReceive
      BY <1>11 DEF ArchiveReceive
<1>12. CASE ArchiveError
      BY <1>12 DEF ArchiveError
<1>13. CASE Join
      BY <1>13 DEF Join
<1>14. CASE Close
      BY <1>14 DEF Close
<1>15. ASSUME NEW w \in Workers, WorkerHead(w) PROVE WorkerNamed'
      BY <1>15 DEF WorkerHead
<1>16. ASSUME NEW w \in Workers, WorkerLoad(w) PROVE WorkerNamed'
      BY <1>16 DEF WorkerLoad
<1>17. ASSUME NEW w \in Workers, WorkerReceive(w) PROVE WorkerNamed'
      BY <1>17 DEF WorkerReceive
<1>18. ASSUME NEW w \in Workers, WorkerMisread(w) PROVE WorkerNamed'
      BY <1>18 DEF WorkerMisread
<1>19. ASSUME NEW w \in Workers, WorkerShort(w) PROVE WorkerNamed'
      BY <1>19 DEF WorkerShort
<1>20. ASSUME NEW w \in Workers, WorkerTimeout(w) PROVE WorkerNamed'
      BY <1>20 DEF WorkerTimeout
<1>21. ASSUME NEW w \in Workers, WorkerLost(w) PROVE WorkerNamed'
      BY <1>21 DEF WorkerLost
<1>22. ASSUME NEW w \in Workers, WorkerCallback(w) PROVE WorkerNamed'
      BY <1>22 DEF WorkerCallback
<1>23. CASE DeviceReply
      BY <1>23 DEF DeviceReply
<1>24. CASE DeviceLog
      BY <1>24 DEF DeviceLog
<1>25. CASE DeviceArchive
      BY <1>25 DEF DeviceArchive
<1>26. CASE DeviceLost
      BY <1>26 DEF DeviceLost
<1>27. CASE Finished
      BY <1>27 DEF Finished, vars
<1> QED
  BY ONLY Next, <1>1, <1>2, <1>3, <1>4, <1>5, <1>6, <1>7, <1>8, <1>9, <1>10, <1>11, <1>12,
       <1>13, <1>14, <1>15, <1>16, <1>17, <1>18, <1>19, <1>20, <1>21, <1>22, <1>23,
       <1>24, <1>25, <1>26, <1>27
  DEF Next, Calls, AppStep, WorkerStep, Device

LEMMA LengthStep ==
  ASSUME TypeOK, QueueOK, ControlOK, Next
  PROVE  LengthOK'
<1> USE ConstAssumption, PartsFacts
    DEF TypeOK, QueueOK, ControlOK, LengthOK, Reading, Workers, WorkerPcs, Goto, GiveUp, Return,
        clientVars, appVars, workerVars, devVars
<1>1. CASE StartCapture
      BY <1>1 DEF StartCapture
<1>2. CASE Request("PidList")
      BY <1>2 DEF Request
<1>3. CASE Request("CreateArchive")
      BY <1>3 DEF Request
<1>4. CASE StopCapture("stop")
      BY <1>4 DEF StopCapture
<1>5. CASE StopCapture("free")
      BY <1>5 DEF StopCapture
<1>6. CASE SendPlist
      BY <1>6 DEF SendPlist
<1>7. CASE ReceivePlist
      BY <1>7 DEF ReceivePlist
<1>8. CASE MisreadPlist
      BY <1>8 DEF MisreadPlist
<1>9. CASE ReceivePlistError
      BY <1>9 DEF ReceivePlistError
<1>10. CASE NewThread
      BY <1>10 DEF NewThread
<1>11. CASE ArchiveReceive
      BY <1>11 DEF ArchiveReceive
<1>12. CASE ArchiveError
      BY <1>12 DEF ArchiveError
<1>13. CASE Join
      BY <1>13 DEF Join
<1>14. CASE Close
      BY <1>14 DEF Close
<1>15. ASSUME NEW w \in Workers, WorkerHead(w) PROVE LengthOK'
      BY <1>15 DEF WorkerHead
<1>16. ASSUME NEW w \in Workers, WorkerLoad(w) PROVE LengthOK'
      BY <1>16 DEF WorkerLoad
<1>17. ASSUME NEW w \in Workers, WorkerReceive(w) PROVE LengthOK'
  <2>1. /\ Head(inbox) \in PartSet /\ got[w] \in Seq(PartSet) /\ got \in [Workers -> Seq(PartSet)]
        /\ wpart \in [Workers -> 1..3] /\ pc \in [Workers -> WorkerPcs]
        BY <1>17, ReadFacts DEF WorkerReceive
  <2>2. Len(got'[w]) = Len(got[w]) + 1
        BY <1>17, <2>1, AppendFacts DEF WorkerReceive
  <2>3. Len(got[w]) = wpart[w] - 1 /\ wpart[w] <= Parts /\ Parts' = Parts
        BY <1>17 DEF WorkerReceive
  <2>4. pc'[w] = (IF wpart[w] < Parts THEN "load" ELSE "callback")
        BY <1>17, <2>1 DEF WorkerReceive
  <2>5. wpart'[w] = (IF wpart[w] < Parts THEN wpart[w] + 1 ELSE wpart[w])
        BY <1>17, <2>1 DEF WorkerReceive
  <2>6. \A v \in Workers : v # w => pc'[v] = pc[v] /\ wpart'[v] = wpart[v] /\ got'[v] = got[v]
        BY <1>17, <2>1 DEF WorkerReceive
  <2>7. delivered' = delivered
        BY <1>17 DEF WorkerReceive
  <2>8. wpart[w] \in 1..3
        BY <2>1
  <2>9. ASSUME NEW v \in Workers
        PROVE  /\ pc'[v] \in {"load", "recv"} => Len(got'[v]) = wpart'[v] - 1 /\ wpart'[v] <= Parts
               /\ pc'[v] = "callback" => Len(got'[v]) = Parts
    <3>1. CASE v = w
      <4>1. CASE wpart[w] < Parts
            BY ONLY <3>1, <4>1, <2>2, <2>3, <2>4, <2>5, <2>8, PartsFacts
      <4>2. CASE wpart[w] = Parts
            BY <3>1, <4>2, <2>2, <2>3, <2>4, <2>5, <2>8
      <4> QED BY <4>1, <4>2, <2>3, <2>8
    <3>2. CASE v # w
          BY <3>2, <2>6
    <3> QED BY <3>1, <3>2
  <2> QED BY <2>3, <2>7, <2>9
<1>18. ASSUME NEW w \in Workers, WorkerMisread(w) PROVE LengthOK'
      BY <1>18 DEF WorkerMisread
<1>19. ASSUME NEW w \in Workers, WorkerShort(w) PROVE LengthOK'
      BY <1>19 DEF WorkerShort
<1>20. ASSUME NEW w \in Workers, WorkerTimeout(w) PROVE LengthOK'
      BY <1>20 DEF WorkerTimeout
<1>21. ASSUME NEW w \in Workers, WorkerLost(w) PROVE LengthOK'
      BY <1>21 DEF WorkerLost
<1>22. ASSUME NEW w \in Workers, WorkerCallback(w) PROVE LengthOK'
      BY <1>22 DEF WorkerCallback
<1>23. CASE DeviceReply
      BY <1>23 DEF DeviceReply
<1>24. CASE DeviceLog
      BY <1>24 DEF DeviceLog
<1>25. CASE DeviceArchive
      BY <1>25 DEF DeviceArchive
<1>26. CASE DeviceLost
      BY <1>26 DEF DeviceLost
<1>27. CASE Finished
      BY <1>27 DEF Finished, vars
<1> QED
  BY ONLY Next, <1>1, <1>2, <1>3, <1>4, <1>5, <1>6, <1>7, <1>8, <1>9, <1>10, <1>11, <1>12,
       <1>13, <1>14, <1>15, <1>16, <1>17, <1>18, <1>19, <1>20, <1>21, <1>22, <1>23,
       <1>24, <1>25, <1>26, <1>27
  DEF Next, Calls, AppStep, WorkerStep, Device

LEMMA NextPart == \A k \in 1..3 : (k % 3) + 1 = IF k = 3 THEN 1 ELSE k + 1
<1>1. 1 % 3 = 1 /\ 2 % 3 = 2 /\ 3 % 3 = 0
      OBVIOUS
<1> QED BY <1>1

LEMMA StoredStep ==
  ASSUME TypeOK, QueueOK, ControlOK, StoredOK, Next
  PROVE  StoredOK'
<1> USE ConstAssumption, PartsFacts, EmptyFacts
    DEF TypeOK, QueueOK, ControlOK, CallOK, StoredOK, Rest, Return, clientVars, appVars,
        workerVars, devVars
<1>1. CASE StartCapture
      BY <1>1 DEF StartCapture
<1>2. CASE Request("PidList")
      BY <1>2 DEF Request
<1>3. CASE Request("CreateArchive")
      BY <1>3 DEF Request
<1>4. CASE StopCapture("stop")
      BY <1>4 DEF StopCapture
<1>5. CASE StopCapture("free")
      BY <1>5 DEF StopCapture
<1>6. CASE SendPlist
      BY <1>6 DEF SendPlist
<1>7. CASE ReceivePlist
  <2>1. Len(inbox) \in Nat \ {0} /\ Len(inbox') = Len(inbox) - 1
        BY <1>7, ReadFacts DEF ReceivePlist
  <2>2. part' = (IF part = 3 THEN 1 ELSE part + 1) /\ app = "plist"
        BY <1>7, NextPart DEF ReceivePlist
  <2>3. UNCHANGED <<service, stored, msgs>>
        BY <1>7 DEF ReceivePlist
  <2>4. app' = "archive" => part = 3
        BY <1>7, <2>2 DEF ReceivePlist
  <2> QED BY <2>1, <2>2, <2>3, <2>4
<1>8. CASE MisreadPlist
  <2>1. Len(inbox) \in Nat \ {0} /\ Len(inbox') = Len(inbox) - 1
        BY <1>8, ReadFacts DEF MisreadPlist
  <2> QED BY <1>8, <2>1 DEF MisreadPlist
<1>9. CASE ReceivePlistError
      BY <1>9 DEF ReceivePlistError
<1>10. CASE NewThread
      BY <1>10 DEF NewThread
<1>11. CASE ArchiveReceive
  <2>1. Len(inbox) \in Nat \ {0} /\ Len(inbox') = Len(inbox) - 1
        BY <1>11, ReadFacts DEF ArchiveReceive
  <2>2. part' = (IF part = 3 THEN 1 ELSE part + 1) /\ app = "archive" /\ service = "ostrace"
        BY <1>11, NextPart DEF ArchiveReceive
  <2>3. UNCHANGED <<service, msgs>>
        BY <1>11 DEF ArchiveReceive
  <2>4. \/ app' = "idle" /\ stored' = stored
        \/ app' = app /\ part < 3 /\ stored' = stored
        \/ app' \in {"idle", "archive"} /\ part = 3 /\ stored' = stored + 1
    <3>1. part \in 1..3
          OBVIOUS
    <3> QED BY ONLY <1>11, <2>2, <3>1 DEF ArchiveReceive, Return
  <2>5. 3 * stored + (part - 1) + Len(inbox) <= 3 * msgs /\ stored \in Nat /\ msgs \in Nat /\ part \in 1..3
        BY <2>2
  <2> QED BY ONLY <2>1, <2>2, <2>3, <2>4, <2>5 DEF StoredOK, Rest
<1>12. CASE ArchiveError
  <2>1. UNCHANGED <<service, stored, msgs, inbox>> /\ app' = "idle" /\ app = "archive"
        BY <1>12 DEF ArchiveError
  <2>2. Len(inbox) \in Nat /\ stored \in Nat /\ msgs \in Nat /\ part \in 1..3
        OBVIOUS
  <2> QED BY ONLY <2>1, <2>2, StoredOK DEF StoredOK, Rest
<1>13. CASE Join
      BY <1>13 DEF Join
<1>14. CASE Close
      BY <1>14 DEF Close
<1>15. ASSUME NEW w \in Workers, WorkerHead(w) PROVE StoredOK'
      BY <1>15 DEF WorkerHead
<1>16. ASSUME NEW w \in Workers, WorkerLoad(w) PROVE StoredOK'
      BY <1>16 DEF WorkerLoad
<1>17. ASSUME NEW w \in Workers, WorkerReceive(w) PROVE StoredOK'
  <2>1. Len(inbox) \in Nat \ {0} /\ Len(inbox') = Len(inbox) - 1
        BY <1>17, ReadFacts DEF WorkerReceive
  <2> QED BY <1>17, <2>1 DEF WorkerReceive
<1>18. ASSUME NEW w \in Workers, WorkerMisread(w) PROVE StoredOK'
  <2>1. Len(inbox) \in Nat \ {0} /\ Len(inbox') = Len(inbox) - 1
        BY <1>18, ReadFacts DEF WorkerMisread
  <2> QED BY <1>18, <2>1 DEF WorkerMisread
<1>19. ASSUME NEW w \in Workers, WorkerShort(w) PROVE StoredOK'
  <2>1. Len(inbox) \in Nat \ {0} /\ Len(inbox') = Len(inbox)
        BY <1>19, ShortFacts DEF WorkerShort
  <2> QED BY <1>19, <2>1 DEF WorkerShort
<1>20. ASSUME NEW w \in Workers, WorkerTimeout(w) PROVE StoredOK'
      BY <1>20 DEF WorkerTimeout
<1>21. ASSUME NEW w \in Workers, WorkerLost(w) PROVE StoredOK'
      BY <1>21 DEF WorkerLost
<1>22. ASSUME NEW w \in Workers, WorkerCallback(w) PROVE StoredOK'
      BY <1>22 DEF WorkerCallback
<1>23. CASE DeviceReply
  <2>1. PICK kind \in Kinds : Sends(kind)
        BY <1>23, TailFacts DEF DeviceReply, Kinds, QueueOK
  <2>2. Len(inbox') = Len(inbox) + Parts /\ Len(inbox) \in Nat /\ msgs' = msgs + 1
        BY <2>1, SendsFacts
  <2> QED BY <1>23, <2>2 DEF DeviceReply
<1>24. CASE DeviceLog
  <2>1. PICK kind \in Kinds : Sends(kind)
        BY <1>24, TailFacts DEF DeviceLog, Kinds, QueueOK
  <2>2. Len(inbox') = Len(inbox) + Parts /\ Len(inbox) \in Nat /\ msgs' = msgs + 1
        BY <2>1, SendsFacts
  <2> QED BY <1>24, <2>2 DEF DeviceLog
<1>25. CASE DeviceArchive
  <2>1. PICK kind \in Kinds : Sends(kind)
        BY <1>25, TailFacts DEF DeviceArchive, Kinds, QueueOK
  <2>2. Len(inbox') = Len(inbox) + Parts /\ Len(inbox) \in Nat /\ msgs' = msgs + 1
        BY <2>1, SendsFacts
  <2> QED BY <1>25, <2>2 DEF DeviceArchive
<1>26. CASE DeviceLost
      BY <1>26 DEF DeviceLost
<1>27. CASE Finished
      BY <1>27 DEF Finished, vars
<1> QED
  BY ONLY Next, <1>1, <1>2, <1>3, <1>4, <1>5, <1>6, <1>7, <1>8, <1>9, <1>10, <1>11, <1>12,
       <1>13, <1>14, <1>15, <1>16, <1>17, <1>18, <1>19, <1>20, <1>21, <1>22, <1>23,
       <1>24, <1>25, <1>26, <1>27
  DEF Next, Calls, AppStep, WorkerStep, Device

\* What does not depend on where a message is cut.
LEMMA BaseStep ==
  ASSUME BaseOK, [Next]_vars
  PROVE  BaseOK'
<1>1. CASE Next
  <2>1. Scalars' /\ States' /\ QueueOK' /\ CallOK' /\ LengthOK' /\ WorkerNamed' /\ StoredOK'
        BY <1>1, ScalarStep, StateStep, QueueStep, CallStep, LengthStep, NamedStep, StoredStep DEF BaseOK
  <2>2. Len(inbox') \in Nat
        BY <2>1, EmptyFacts DEF QueueOK
  <2>3. stored' \in 0..MaxMsg
    <3>1. CASE service' = "ostrace"
          BY <2>1, <2>2, <3>1, ConstAssumption, SMTT(30) DEF StoredOK, Rest, Scalars
    <3>2. CASE service' # "ostrace"
          BY <2>1, <3>2, ConstAssumption DEF CallOK
    <3> QED BY <3>1, <3>2
  <2> QED BY <2>1, <2>3, TypeStep DEF BaseOK, ControlOK
<1>2. CASE UNCHANGED vars
      BY <1>2 DEF vars, clientVars, appVars, workerVars, devVars, BaseOK, TypeOK, WorkerNamed, Live,
                  QueueOK, ControlOK, CallOK, LengthOK, Reading, StoredOK, Rest, Parts, Elements
<1> QED BY <1>1, <1>2

-----------------------------------------------------------------------------
(* Messages come in order, at whatever place the reader is                 *)

\* The numbers of the parts, and what a worker has received.
LEMMA NumberFacts ==
  ASSUME BaseOK
  PROVE  /\ msgs \in Nat /\ Len(inbox) \in Nat /\ \A i \in 1..Len(inbox) : inbox[i][1] \in Nat
         /\ \A w \in Workers : got[w] \in Seq(PartSet) /\ Len(got[w]) \in Nat
<1>1. \A i \in 1..Len(inbox) : inbox[i] \in PartSet
      BY EmptyFacts DEF BaseOK, QueueOK
<1>2. \A w \in Workers : got[w] \in Seq(PartSet)
      BY DEF BaseOK, QueueOK
<1>3. \A w \in Workers : Len(got[w]) \in Nat
      BY <1>2, EmptyFacts
<1> QED BY <1>1, <1>2, <1>3, EmptyFacts, ConstAssumption DEF BaseOK, QueueOK, TypeOK, PartSet

\* A worker goes on with what it had, or with nothing.
Still(w) ==
  /\ Reading(w)' => (Reading(w) /\ got'[w] = got[w]) \/ got'[w] = <<>>
  /\ pc'[w] = "callback" => pc[w] = "callback" /\ got'[w] = got[w]

\* The first d parts are taken from the inbox, and no worker's message grows.
LEMMA OrderMove ==
  ASSUME BaseOK, OrderOK, NEW d \in 0..1, Len(inbox') = Len(inbox) - d,
         \A i \in 1..Len(inbox') : inbox'[i][1] = inbox[i + d][1],
         UNCHANGED <<service, msgs, delivered>>,
         \A w \in Workers : Still(w)
  PROVE  OrderOK'
<1>1. Parts \in 1..3 /\ Parts' = Parts /\ LastMessage' = LastMessage
      BY PartsFacts DEF LastMessage
<1>2. /\ msgs \in Nat /\ Len(inbox) \in Nat /\ \A i \in 1..Len(inbox) : inbox[i][1] \in Nat
      /\ \A w \in Workers : Len(got[w]) \in Nat
      BY NumberFacts
<1>3. \A i \in 1..Len(inbox') : i + d \in 1..Len(inbox) /\ inbox'[i][1] = inbox[i + d][1]
      BY <1>2
<1>4. ASSUME NEW n, NEW k \in Int, After(inbox, n, k)
      PROVE  After(inbox', n, k)
      BY <1>2, <1>3, <1>4 DEF After
<1>5. /\ \A i \in 1..Len(inbox') : inbox'[i][1] <= msgs'
      /\ \A i, j \in 1..Len(inbox') : i <= j => inbox'[i][1] <= inbox'[j][1]
      /\ \A i, j \in 1..Len(inbox') : i + Parts <= j => inbox'[i][1] < inbox'[j][1]
  <2>1. \A i \in 1..Len(inbox) : inbox[i][1] <= msgs
        BY DEF OrderOK
  <2>2. \A i, j \in 1..Len(inbox) : i <= j => inbox[i][1] <= inbox[j][1]
        BY DEF OrderOK
  <2>3. \A i, j \in 1..Len(inbox) : i + Parts <= j => inbox[i][1] < inbox[j][1]
        BY DEF OrderOK
  <2>4. ASSUME NEW i \in 1..Len(inbox'), NEW j \in 1..Len(inbox')
        PROVE  /\ inbox'[i][1] <= msgs'
               /\ i <= j => inbox'[i][1] <= inbox'[j][1]
               /\ i + Parts <= j => inbox'[i][1] < inbox'[j][1]
    <3>1. /\ i + d \in 1..Len(inbox) /\ inbox'[i][1] = inbox[i + d][1] /\ i \in Nat
          /\ j + d \in 1..Len(inbox) /\ inbox'[j][1] = inbox[j + d][1] /\ j \in Nat
          BY <1>2, <1>3, SMTT(30)
    <3>2. /\ inbox[i + d][1] <= msgs
          /\ i + d <= j + d => inbox[i + d][1] <= inbox[j + d][1]
          /\ (i + d) + Parts <= j + d => inbox[i + d][1] < inbox[j + d][1]
          BY <2>1, <2>2, <2>3, <3>1
    <3>3. d \in Nat /\ Parts \in Nat /\ msgs' = msgs
          BY <1>1
    <3> QED BY ONLY <3>1, <3>2, <3>3
  <2> QED BY <2>4
<1>6. LastMessage \in 0..msgs /\ After(inbox', LastMessage, Parts)
      BY <1>1, <1>4 DEF OrderOK
<1>7. ASSUME NEW w \in Workers, Reading(w)'
      PROVE  After(inbox', LastMessage, Parts - Len(got'[w]))
  <2>1. CASE Reading(w) /\ got'[w] = got[w]
    <3>1. After(inbox, LastMessage, Parts - Len(got[w])) /\ Parts - Len(got[w]) \in Int
          BY <1>1, <1>2, <2>1 DEF OrderOK
    <3> QED BY <1>4, <2>1, <3>1
  <2>2. CASE got'[w] = <<>>
    <3>1. Parts - Len(got'[w]) = Parts
          BY <1>1, <2>2
    <3> QED BY <1>6, <3>1
  <2> QED BY <1>7, <2>1, <2>2 DEF Still
<1>8. ASSUME NEW w \in Workers, pc'[w] = "callback"
      PROVE  /\ got'[w][Parts][1] \in (LastMessage + 1)..msgs
             /\ After(inbox', got'[w][Parts][1], Parts)
  <2>1. pc[w] = "callback" /\ got'[w] = got[w]
        BY <1>8 DEF Still
  <2>2. After(inbox, got[w][Parts][1], Parts) /\ got[w][Parts][1] \in (LastMessage + 1)..msgs
        BY <2>1 DEF OrderOK
  <2> QED BY <1>1, <1>4, <2>1, <2>2
<1> HIDE DEF After, LastMessage
<1>9. \A w \in Workers : Reading(w)' <=> pc'[w] \in {"load", "recv"}
      BY DEF Reading
<1> QED
  BY <1>1, <1>5, <1>6, <1>7, <1>8 DEF OrderOK

\* A worker receives a part, its last one or another.
LEMMA OrderReceive ==
  ASSUME BaseOK, OrderOK, NEW w \in Workers, WorkerReceive(w)
  PROVE  OrderOK'
<1>1. Parts \in 1..3 /\ Parts' = Parts /\ LastMessage' = LastMessage /\ UNCHANGED <<service, msgs, delivered>>
      BY PartsFacts DEF LastMessage, WorkerReceive, clientVars, devVars
<1>2. /\ msgs \in Nat /\ Len(inbox) \in Nat /\ \A i \in 1..Len(inbox) : inbox[i][1] \in Nat
      /\ \A v \in Workers : Len(got[v]) \in Nat
      BY NumberFacts
<1>3. /\ Len(inbox') = Len(inbox) - 1 /\ Head(inbox) = inbox[1] /\ inbox[1] \in PartSet /\ Len(inbox) # 0
      /\ \A i \in 1..Len(inbox') : i + 1 \in 1..Len(inbox) /\ inbox'[i] = inbox[i + 1]
  <2>1. TypeOK /\ QueueOK /\ inbox # <<>> /\ inbox' = Tail(inbox)
        BY DEF BaseOK, WorkerReceive
  <2> QED BY <2>1, ReadFacts
<1>4. /\ pc[w] = "recv" /\ Len(got[w]) = wpart[w] - 1 /\ wpart[w] \in 1..3 /\ wpart[w] <= Parts
      /\ pc'[w] = (IF wpart[w] < Parts THEN "load" ELSE "callback")
      /\ got'[w] = Append(got[w], inbox[1])
      /\ \A v \in Workers : v # w => pc'[v] = pc[v] /\ got'[v] = got[v]
      BY <1>3 DEF BaseOK, TypeOK, QueueOK, ControlOK, LengthOK, Reading, WorkerReceive, Goto
<1>5. Len(got'[w]) = wpart[w] /\ got'[w][wpart[w]] = inbox[1]
  <2>1. got[w] \in Seq(PartSet) /\ inbox[1] \in PartSet
        BY <1>3, NumberFacts
  <2> QED BY <1>4, <2>1, AppendFacts
<1>6. ASSUME NEW n, NEW k \in Int, After(inbox, n, k)
      PROVE  After(inbox', n, k) /\ After(inbox', n, k - 1)
  <2>1. ASSUME NEW i \in 1..Len(inbox'), i >= k - 1
        PROVE  inbox'[i][1] > n
    <3>1. i + 1 \in 1..Len(inbox) /\ inbox'[i] = inbox[i + 1]
          BY <1>3
    <3>2. i + 1 >= k
          BY <1>2, <1>3, <2>1
    <3> QED BY <1>6, <3>1, <3>2 DEF After
  <2>2. \A i \in 1..Len(inbox') : i >= k => i >= k - 1
        BY <1>2, <1>3
  <2> QED BY <2>1, <2>2 DEF After
<1>7. LastMessage \in 0..msgs /\ After(inbox, LastMessage, Parts - Len(got[w])) /\ After(inbox, LastMessage, Parts)
      BY <1>4 DEF OrderOK, Reading
<1>8. /\ \A i \in 1..Len(inbox') : inbox'[i][1] <= msgs'
      /\ \A i, j \in 1..Len(inbox') : i <= j => inbox'[i][1] <= inbox'[j][1]
      /\ \A i, j \in 1..Len(inbox') : i + Parts <= j => inbox'[i][1] < inbox'[j][1]
  <2>1. /\ \A i \in 1..Len(inbox) : inbox[i][1] <= msgs
        /\ \A i, j \in 1..Len(inbox) : i <= j => inbox[i][1] <= inbox[j][1]
        /\ \A i, j \in 1..Len(inbox) : i + Parts <= j => inbox[i][1] < inbox[j][1]
        BY DEF OrderOK
  <2>2. ASSUME NEW i \in 1..Len(inbox'), NEW j \in 1..Len(inbox')
        PROVE  /\ inbox'[i][1] <= msgs'
               /\ i <= j => inbox'[i][1] <= inbox'[j][1]
               /\ i + Parts <= j => inbox'[i][1] < inbox'[j][1]
    <3>1. /\ i + 1 \in 1..Len(inbox) /\ inbox'[i][1] = inbox[i + 1][1] /\ i \in Nat
          /\ j + 1 \in 1..Len(inbox) /\ inbox'[j][1] = inbox[j + 1][1] /\ j \in Nat
          BY <1>2, <1>3
    <3>2. /\ inbox[i + 1][1] <= msgs
          /\ i + 1 <= j + 1 => inbox[i + 1][1] <= inbox[j + 1][1]
          /\ (i + 1) + Parts <= j + 1 => inbox[i + 1][1] < inbox[j + 1][1]
          BY <2>1, <3>1
    <3>3. Parts \in Nat /\ msgs' = msgs
          BY <1>1
    <3> QED BY ONLY <3>1, <3>2, <3>3
  <2> QED BY <2>2
<1>9. ASSUME NEW v \in Workers, pc'[v] \in {"load", "recv"}
      PROVE  After(inbox', LastMessage, Parts - Len(got'[v]))
  <2>1. CASE v = w
    <3>1. Parts - Len(got'[v]) = (Parts - Len(got[w])) - 1 /\ Parts - Len(got[w]) \in Int
          BY <1>1, <1>4, <1>5, <2>1, SMTT(30)
    <3> QED BY <1>6, <1>7, <3>1
  <2>2. CASE v # w
    <3>1. After(inbox, LastMessage, Parts - Len(got[v])) /\ Parts - Len(got[v]) \in Int
          BY <1>1, <1>2, <1>4, <1>9, <2>2 DEF OrderOK, Reading
    <3> QED BY <1>4, <1>6, <2>2, <3>1
  <2> QED BY <2>1, <2>2
<1>10. ASSUME NEW v \in Workers, pc'[v] = "callback"
       PROVE  /\ got'[v][Parts][1] \in (LastMessage + 1)..msgs
              /\ After(inbox', got'[v][Parts][1], Parts)
  <2>1. CASE v = w
    <3>1. wpart[w] = Parts
          BY <1>1, <1>4, <1>10, <2>1
    <3>2. got'[v][Parts] = inbox[1]
          BY <1>5, <2>1, <3>1
    <3>3. Parts - Len(got[w]) = 1
          BY <1>1, <1>4, <3>1
    <3>4. 1 \in 1..Len(inbox) /\ inbox[1][1] > LastMessage /\ inbox[1][1] <= msgs
          BY <1>2, <1>3, <1>7, <3>3 DEF After, OrderOK
    <3>5. ASSUME NEW i \in 1..Len(inbox'), i >= Parts
          PROVE  inbox'[i][1] > inbox[1][1]
      <4>1. i + 1 \in 1..Len(inbox) /\ inbox'[i][1] = inbox[i + 1][1] /\ 1 + Parts <= i + 1
            BY <1>1, <1>2, <1>3, <3>5
      <4>2. inbox[1][1] < inbox[i + 1][1]
            BY <3>4, <4>1 DEF OrderOK
      <4> QED BY <1>2, <3>4, <4>1, <4>2
    <3>6. inbox[1][1] \in (LastMessage + 1)..msgs
          BY <1>2, <1>7, <3>4
    <3> QED BY <3>2, <3>5, <3>6 DEF After
  <2>2. CASE v # w
    <3>1. After(inbox, got[v][Parts][1], Parts) /\ got[v][Parts][1] \in (LastMessage + 1)..msgs
          BY <1>4, <1>10, <2>2 DEF OrderOK
    <3> QED BY <1>1, <1>4, <1>6, <2>2, <3>1
  <2> QED BY <2>1, <2>2
<1>11. After(inbox', LastMessage, Parts)
       BY <1>1, <1>6, <1>7
<1>12. \A v \in Workers : Reading(v)' <=> pc'[v] \in {"load", "recv"}
       BY DEF Reading
<1> QED BY <1>1, <1>7, <1>8, <1>9, <1>10, <1>11, <1>12 DEF OrderOK

\* A message is delivered: it is the last one ...
LEMMA CallbackFacts ==
  ASSUME BaseOK, OrderOK, NEW w \in Workers, WorkerCallback(w)
  PROVE  /\ LastMessage' = got[w][Parts][1] /\ LastMessage' \in (LastMessage + 1)..msgs
         /\ LastMessage \in 0..msgs /\ After(inbox, LastMessage', Parts)
<1>1. /\ Parts \in 1..3 /\ Parts' = Parts /\ UNCHANGED <<inbox, msgs>>
      /\ pc[w] = "callback" /\ delivered' = Append(delivered, got[w])
      BY PartsFacts DEF WorkerCallback, clientVars, devVars
<1>2. got[w] \in Seq(PartSet) /\ delivered \in Seq(Seq(PartSet)) /\ Len(got[w]) = Parts
      BY <1>1 DEF BaseOK, QueueOK, ControlOK, LengthOK
<1>3. LastMessage' = got[w][Parts][1]
  <2>1. delivered' # <<>> /\ delivered'[Len(delivered')] = got[w]
        BY <1>1, <1>2, AppendFacts
  <2> QED BY <1>2, <2>1 DEF LastMessage
<1>4. LastMessage' \in (LastMessage + 1)..msgs /\ After(inbox, LastMessage', Parts) /\ LastMessage \in 0..msgs
      BY <1>1, <1>3 DEF OrderOK
<1> QED BY <1>3, <1>4

\* ... and no other worker is about to deliver one.
LEMMA OrderCallback ==
  ASSUME BaseOK, OrderOK, NEW w \in Workers, WorkerCallback(w)
  PROVE  OrderOK'
<1>1. /\ Parts \in 1..3 /\ Parts' = Parts /\ UNCHANGED <<inbox, msgs>> /\ pc[w] = "callback"
      BY PartsFacts DEF WorkerCallback, clientVars, devVars
<1>2. LastMessage' \in (LastMessage + 1)..msgs /\ After(inbox, LastMessage', Parts) /\ LastMessage \in 0..msgs
      BY CallbackFacts
<1>3. \A v \in Workers : pc'[v] \notin {"load", "recv", "callback"}
      BY <1>1 DEF BaseOK, TypeOK, WorkerNamed, Live, WorkerCallback, Goto
<1>4. msgs \in Nat
      BY NumberFacts
<1>5. LastMessage' \in 0..msgs'
      BY <1>1, <1>2, <1>4
<1>6. \A v \in Workers : ~Reading(v)' /\ pc'[v] # "callback"
      BY <1>3 DEF Reading
<1>7. /\ \A i \in 1..Len(inbox) : inbox[i][1] <= msgs
      /\ \A i, j \in 1..Len(inbox) : i <= j => inbox[i][1] <= inbox[j][1]
      /\ \A i, j \in 1..Len(inbox) : i + Parts <= j => inbox[i][1] < inbox[j][1]
      BY DEF OrderOK
<1> QED BY <1>1, <1>2, <1>5, <1>6, <1>7 DEF OrderOK

\* A new message has a number of its own.
LEMMA OrderSend ==
  ASSUME BaseOK, OrderOK, NEW kind \in Kinds, Sends(kind),
         UNCHANGED <<service, delivered, got, pc>>
  PROVE  OrderOK'
<1>1. Parts \in 1..3 /\ Parts' = Parts /\ LastMessage' = LastMessage
      BY PartsFacts DEF LastMessage
<1>2. /\ msgs \in Nat /\ Len(inbox) \in Nat /\ \A i \in 1..Len(inbox) : inbox[i][1] \in Nat
      /\ \A v \in Workers : Len(got[v]) \in Nat
      BY NumberFacts
<1>3. /\ Len(inbox') = Len(inbox) + Parts /\ msgs' = msgs + 1
      /\ \A i \in 1..Len(inbox) : inbox'[i] = inbox[i]
      /\ \A i \in 1..Parts : inbox'[Len(inbox) + i] = <<msgs + 1, i, kind>>
      BY SendsFacts DEF BaseOK
<1>4. ASSUME NEW i \in 1..Len(inbox'), ~(i \in 1..Len(inbox))
      PROVE  inbox'[i][1] = msgs + 1
  <2>1. i - Len(inbox) \in 1..Parts /\ i = Len(inbox) + (i - Len(inbox))
        BY <1>1, <1>2, <1>3, <1>4
  <2> QED BY <1>3, <2>1
<1>5. ASSUME NEW n \in 0..msgs, NEW k \in Int, After(inbox, n, k)
      PROVE  After(inbox', n, k)
  <2>1. SUFFICES ASSUME NEW i \in 1..Len(inbox'), i >= k
                 PROVE  inbox'[i][1] > n
        BY DEF After
  <2>2. CASE i \in 1..Len(inbox)
        BY <1>3, <1>5, <2>1, <2>2 DEF After
  <2>3. CASE ~(i \in 1..Len(inbox))
        BY <1>2, <1>4, <2>3
  <2> QED BY <2>2, <2>3
<1>6. ASSUME NEW i \in 1..Len(inbox'), NEW j \in 1..Len(inbox')
      PROVE  /\ inbox'[i][1] <= msgs'
             /\ i <= j => inbox'[i][1] <= inbox'[j][1]
             /\ i + Parts <= j => inbox'[i][1] < inbox'[j][1]
  <2>1. CASE j \in 1..Len(inbox)
    <3>1. CASE i \in 1..Len(inbox)
          BY <1>2, <1>3, <2>1, <3>1 DEF OrderOK
    <3>2. CASE ~(i \in 1..Len(inbox))
          BY <1>1, <1>2, <1>3, <1>4, <2>1, <3>2
    <3> QED BY <3>1, <3>2
  <2>2. CASE ~(j \in 1..Len(inbox))
    <3>1. inbox'[j][1] = msgs + 1 /\ j > Len(inbox) /\ j <= Len(inbox) + Parts
          BY <1>1, <1>2, <1>3, <1>4, <2>2
    <3>2. CASE i \in 1..Len(inbox)
      <4>1. inbox'[i][1] = inbox[i][1] /\ inbox[i][1] <= msgs /\ inbox[i][1] \in Nat
            BY <1>2, <1>3, <3>2 DEF OrderOK
      <4> QED BY <1>2, <1>3, <3>1, <4>1
    <3>3. CASE ~(i \in 1..Len(inbox))
      <4>1. inbox'[i][1] = msgs + 1 /\ i > Len(inbox)
            BY <1>1, <1>2, <1>3, <1>4, <3>3
      <4> QED BY <1>1, <1>2, <1>3, <3>1, <4>1
    <3> QED BY <3>2, <3>3
  <2> QED BY <2>1, <2>2
<1>7. LastMessage \in 0..msgs /\ After(inbox', LastMessage, Parts)
      BY <1>1, <1>5 DEF OrderOK
<1>8. ASSUME NEW v \in Workers, pc[v] \in {"load", "recv"}
      PROVE  After(inbox', LastMessage, Parts - Len(got[v]))
  <2>1. After(inbox, LastMessage, Parts - Len(got[v])) /\ Parts - Len(got[v]) \in Int
        BY <1>1, <1>2, <1>8 DEF OrderOK, Reading
  <2> QED BY <1>5, <1>7, <2>1
<1>9. ASSUME NEW v \in Workers, pc[v] = "callback"
      PROVE  /\ got[v][Parts][1] \in (LastMessage + 1)..msgs'
             /\ After(inbox', got[v][Parts][1], Parts)
  <2>1. After(inbox, got[v][Parts][1], Parts) /\ got[v][Parts][1] \in (LastMessage + 1)..msgs
        BY <1>9 DEF OrderOK
  <2>2. got[v][Parts][1] \in (LastMessage + 1)..msgs' /\ got[v][Parts][1] \in 0..msgs
        BY <1>2, <1>3, <1>7, <2>1
  <2> QED BY <1>1, <1>5, <2>1, <2>2
<1>10. LastMessage \in 0..msgs' /\ \A v \in Workers : Reading(v)' <=> pc[v] \in {"load", "recv"}
       BY <1>2, <1>3, <1>7 DEF Reading
<1> QED BY <1>1, <1>6, <1>7, <1>8, <1>9, <1>10 DEF OrderOK

\* Nothing is read, or the reader is not a worker or misreads.
LEMMA OrderKept ==
  ASSUME BaseOK, OrderOK, UNCHANGED <<service, msgs, delivered>>, \A w \in Workers : Still(w),
         inbox' = inbox \/ (inbox # <<>> /\ inbox' = Tail(inbox))
  PROVE  OrderOK'
<1>1. CASE inbox' = inbox
  <2>1. /\ 0 \in 0..1 /\ Len(inbox') = Len(inbox) - 0
        /\ \A i \in 1..Len(inbox') : inbox'[i][1] = inbox[i + 0][1]
        BY <1>1, NumberFacts
  <2> QED BY <2>1, OrderMove
<1>2. CASE inbox # <<>> /\ inbox' = Tail(inbox)
  <2>1. /\ 1 \in 0..1 /\ Len(inbox') = Len(inbox) - 1
        /\ \A i \in 1..Len(inbox') : inbox'[i][1] = inbox[i + 1][1]
    <3>1. TypeOK /\ QueueOK /\ inbox # <<>> /\ inbox' = Tail(inbox)
          BY <1>2 DEF BaseOK
    <3>2. /\ Len(inbox') = Len(inbox) - 1
          /\ \A i \in 1..Len(inbox') : i + 1 \in 1..Len(inbox) /\ inbox'[i] = inbox[i + 1]
          BY <3>1, ReadFacts
    <3>3. \A i \in 1..Len(inbox') : inbox'[i][1] = inbox[i + 1][1]
          BY ONLY <3>2, Zenon
    <3> QED BY ONLY <3>2, <3>3
  <2> QED BY <2>1, OrderMove
<1> QED BY <1>1, <1>2

LEMMA OrderStep ==
  ASSUME BaseOK, OrderOK, Next
  PROVE  OrderOK'
<1> USE ConstAssumption DEF clientVars, appVars, workerVars, devVars
<1>1. CASE StartCapture
  <2>1. UNCHANGED <<service, msgs, delivered>> /\ \A v \in Workers : Still(v)
        BY <1>1 DEF StartCapture, Still, Reading
  <2>2. inbox' = inbox \/ (inbox # <<>> /\ inbox' = Tail(inbox))
        BY <1>1 DEF StartCapture
  <2> QED BY <2>1, <2>2, OrderKept
<1>2. CASE Request("PidList")
  <2>1. UNCHANGED <<service, msgs, delivered>> /\ \A v \in Workers : Still(v)
        BY <1>2 DEF Request, Still, Reading
  <2>2. inbox' = inbox \/ (inbox # <<>> /\ inbox' = Tail(inbox))
        BY <1>2 DEF Request
  <2> QED BY <2>1, <2>2, OrderKept
<1>3. CASE Request("CreateArchive")
  <2>1. UNCHANGED <<service, msgs, delivered>> /\ \A v \in Workers : Still(v)
        BY <1>3 DEF Request, Still, Reading
  <2>2. inbox' = inbox \/ (inbox # <<>> /\ inbox' = Tail(inbox))
        BY <1>3 DEF Request
  <2> QED BY <2>1, <2>2, OrderKept
<1>4. CASE StopCapture("stop")
  <2>1. UNCHANGED <<service, msgs, delivered>> /\ \A v \in Workers : Still(v)
        BY <1>4 DEF StopCapture, Still, Reading
  <2>2. inbox' = inbox \/ (inbox # <<>> /\ inbox' = Tail(inbox))
        BY <1>4 DEF StopCapture
  <2> QED BY <2>1, <2>2, OrderKept
<1>5. CASE StopCapture("free")
  <2>1. UNCHANGED <<service, msgs, delivered>> /\ \A v \in Workers : Still(v)
        BY <1>5 DEF StopCapture, Still, Reading
  <2>2. inbox' = inbox \/ (inbox # <<>> /\ inbox' = Tail(inbox))
        BY <1>5 DEF StopCapture
  <2> QED BY <2>1, <2>2, OrderKept
<1>6. CASE SendPlist
  <2>1. UNCHANGED <<service, msgs, delivered>> /\ \A v \in Workers : Still(v)
        BY <1>6 DEF SendPlist, Still, Reading
  <2>2. inbox' = inbox \/ (inbox # <<>> /\ inbox' = Tail(inbox))
        BY <1>6 DEF SendPlist
  <2> QED BY <2>1, <2>2, OrderKept
<1>7. CASE ReceivePlist
  <2>1. UNCHANGED <<service, msgs, delivered>> /\ \A v \in Workers : Still(v)
        BY <1>7 DEF ReceivePlist, Still, Reading
  <2>2. inbox' = inbox \/ (inbox # <<>> /\ inbox' = Tail(inbox))
        BY <1>7 DEF ReceivePlist
  <2> QED BY <2>1, <2>2, OrderKept
<1>8. CASE MisreadPlist
  <2>1. UNCHANGED <<service, msgs, delivered>> /\ \A v \in Workers : Still(v)
        BY <1>8 DEF MisreadPlist, Still, Reading
  <2>2. inbox' = inbox \/ (inbox # <<>> /\ inbox' = Tail(inbox))
        BY <1>8 DEF MisreadPlist
  <2> QED BY <2>1, <2>2, OrderKept
<1>9. CASE ReceivePlistError
  <2>1. UNCHANGED <<service, msgs, delivered>> /\ \A v \in Workers : Still(v)
        BY <1>9 DEF ReceivePlistError, Still, Reading
  <2>2. inbox' = inbox \/ (inbox # <<>> /\ inbox' = Tail(inbox))
        BY <1>9 DEF ReceivePlistError
  <2> QED BY <2>1, <2>2, OrderKept
<1>10. CASE NewThread
  <2>1. UNCHANGED <<service, msgs, delivered>> /\ \A v \in Workers : Still(v)
        BY <1>10 DEF NewThread, Still, Reading, Goto, BaseOK, TypeOK, Workers
  <2>2. inbox' = inbox \/ (inbox # <<>> /\ inbox' = Tail(inbox))
        BY <1>10 DEF NewThread
  <2> QED BY <2>1, <2>2, OrderKept
<1>11. CASE ArchiveReceive
  <2>1. UNCHANGED <<service, msgs, delivered>> /\ \A v \in Workers : Still(v)
        BY <1>11 DEF ArchiveReceive, Still, Reading
  <2>2. inbox' = inbox \/ (inbox # <<>> /\ inbox' = Tail(inbox))
        BY <1>11 DEF ArchiveReceive
  <2> QED BY <2>1, <2>2, OrderKept
<1>12. CASE ArchiveError
  <2>1. UNCHANGED <<service, msgs, delivered>> /\ \A v \in Workers : Still(v)
        BY <1>12 DEF ArchiveError, Still, Reading
  <2>2. inbox' = inbox \/ (inbox # <<>> /\ inbox' = Tail(inbox))
        BY <1>12 DEF ArchiveError
  <2> QED BY <2>1, <2>2, OrderKept
<1>13. CASE Join
  <2>1. UNCHANGED <<service, msgs, delivered>> /\ \A v \in Workers : Still(v)
        BY <1>13 DEF Join, Still, Reading
  <2>2. inbox' = inbox \/ (inbox # <<>> /\ inbox' = Tail(inbox))
        BY <1>13 DEF Join
  <2> QED BY <2>1, <2>2, OrderKept
<1>14. CASE Close
  <2>1. UNCHANGED <<service, msgs, delivered>> /\ \A v \in Workers : Still(v)
        BY <1>14 DEF Close, Still, Reading
  <2>2. inbox' = inbox \/ (inbox # <<>> /\ inbox' = Tail(inbox))
        BY <1>14 DEF Close
  <2> QED BY <2>1, <2>2, OrderKept
<1>15. ASSUME NEW w \in Workers, WorkerHead(w) PROVE OrderOK'
  <2>1. UNCHANGED <<service, msgs, delivered>> /\ \A v \in Workers : Still(v)
        BY <1>15 DEF WorkerHead, Still, Reading, Goto, GiveUp, BaseOK, TypeOK, QueueOK
  <2>2. inbox' = inbox \/ (inbox # <<>> /\ inbox' = Tail(inbox))
        BY <1>15 DEF WorkerHead
  <2> QED BY <2>1, <2>2, OrderKept
<1>16. ASSUME NEW w \in Workers, WorkerLoad(w) PROVE OrderOK'
  <2>1. UNCHANGED <<service, msgs, delivered>> /\ \A v \in Workers : Still(v)
        BY <1>16 DEF WorkerLoad, Still, Reading, Goto, GiveUp, BaseOK, TypeOK, QueueOK
  <2>2. inbox' = inbox \/ (inbox # <<>> /\ inbox' = Tail(inbox))
        BY <1>16 DEF WorkerLoad
  <2> QED BY <2>1, <2>2, OrderKept
<1>17. ASSUME NEW w \in Workers, WorkerReceive(w) PROVE OrderOK'
      BY <1>17, OrderReceive DEF WorkerReceive
<1>18. ASSUME NEW w \in Workers, WorkerMisread(w) PROVE OrderOK'
  <2>1. UNCHANGED <<service, msgs, delivered>> /\ \A v \in Workers : Still(v)
        BY <1>18 DEF WorkerMisread, Still, Reading, Goto, GiveUp, BaseOK, TypeOK, QueueOK
  <2>2. inbox' = inbox \/ (inbox # <<>> /\ inbox' = Tail(inbox))
        BY <1>18 DEF WorkerMisread
  <2> QED BY <2>1, <2>2, OrderKept
<1>19. ASSUME NEW w \in Workers, WorkerShort(w) PROVE OrderOK'
  <2>1. UNCHANGED <<service, msgs, delivered>> /\ \A v \in Workers : Still(v)
        BY <1>19 DEF WorkerShort, Still, Reading, Goto, GiveUp, BaseOK, TypeOK
  <2>2. /\ Len(inbox') = Len(inbox) /\ Len(inbox) \in Nat /\ inbox'[1][1] = inbox[1][1]
        /\ \A i \in 2..Len(inbox) : inbox'[i] = inbox[i]
        BY <1>19, ShortFacts DEF WorkerShort, BaseOK
  <2>3. /\ 0 \in 0..1 /\ Len(inbox') = Len(inbox) - 0
        /\ \A i \in 1..Len(inbox') : inbox'[i][1] = inbox[i + 0][1]
        BY <2>2
  <2> QED BY <2>1, <2>3, OrderMove
<1>20. ASSUME NEW w \in Workers, WorkerTimeout(w) PROVE OrderOK'
  <2>1. UNCHANGED <<service, msgs, delivered>> /\ \A v \in Workers : Still(v)
        BY <1>20 DEF WorkerTimeout, Still, Reading, Goto, GiveUp, BaseOK, TypeOK, QueueOK
  <2>2. inbox' = inbox \/ (inbox # <<>> /\ inbox' = Tail(inbox))
        BY <1>20 DEF WorkerTimeout
  <2> QED BY <2>1, <2>2, OrderKept
<1>21. ASSUME NEW w \in Workers, WorkerLost(w) PROVE OrderOK'
  <2>1. UNCHANGED <<service, msgs, delivered>> /\ \A v \in Workers : Still(v)
        BY <1>21 DEF WorkerLost, Still, Reading, Goto, GiveUp, BaseOK, TypeOK, QueueOK
  <2>2. inbox' = inbox \/ (inbox # <<>> /\ inbox' = Tail(inbox))
        BY <1>21 DEF WorkerLost
  <2> QED BY <2>1, <2>2, OrderKept
<1>22. ASSUME NEW w \in Workers, WorkerCallback(w) PROVE OrderOK'
      BY <1>22, OrderCallback DEF WorkerCallback
<1>23. CASE DeviceReply
  <2>1. PICK kind \in Kinds : Sends(kind)
        BY <1>23, TailFacts DEF DeviceReply, Kinds, BaseOK, QueueOK
  <2>2. UNCHANGED <<service, delivered, got, pc>>
        BY <1>23 DEF DeviceReply
  <2> QED BY <2>1, <2>2, OrderSend
<1>24. CASE DeviceLog
  <2>1. PICK kind \in Kinds : Sends(kind)
        BY <1>24 DEF DeviceLog, Kinds, BaseOK, QueueOK
  <2>2. UNCHANGED <<service, delivered, got, pc>>
        BY <1>24 DEF DeviceLog
  <2> QED BY <2>1, <2>2, OrderSend
<1>25. CASE DeviceArchive
  <2>1. PICK kind \in Kinds : Sends(kind)
        BY <1>25 DEF DeviceArchive, Kinds, BaseOK, QueueOK
  <2>2. UNCHANGED <<service, delivered, got, pc>>
        BY <1>25 DEF DeviceArchive
  <2> QED BY <2>1, <2>2, OrderSend
<1>26. CASE DeviceLost
  <2>1. UNCHANGED <<service, msgs, delivered>> /\ \A v \in Workers : Still(v)
        BY <1>26 DEF DeviceLost, Still, Reading
  <2>2. inbox' = inbox \/ (inbox # <<>> /\ inbox' = Tail(inbox))
        BY <1>26 DEF DeviceLost
  <2> QED BY <2>1, <2>2, OrderKept
<1>27. CASE Finished
      BY <1>27 DEF Finished, vars, OrderOK, After, LastMessage, Reading, Parts
<1> QED
  BY ONLY Next, <1>1, <1>2, <1>3, <1>4, <1>5, <1>6, <1>7, <1>8, <1>9, <1>10, <1>11, <1>12,
       <1>13, <1>14, <1>15, <1>16, <1>17, <1>18, <1>19, <1>20, <1>21, <1>22, <1>23,
       <1>24, <1>25, <1>26, <1>27
  DEF Next, Calls, AppStep, WorkerStep, Device

LEMMA InitBase == Init => BaseOK /\ OrderOK
<1>1. SUFFICES ASSUME Init
               PROVE  BaseOK /\ OrderOK
      OBVIOUS
<1>2. inbox = <<>> /\ delivered = <<>> /\ devq = <<>> /\ logs = <<>> /\ got = [w \in Workers |-> <<>>]
      BY <1>1 DEF Init
<1>3. TypeOK
  <2>1. Elements(devq) = {} /\ Elements(inbox) = {}
        BY <1>2 DEF Elements
  <2>2. streaming \in BOOLEAN /\ parent \in BOOLEAN /\ cut \in BOOLEAN
        BY <1>1, Zenon DEF Init
  <2> HIDE DEF Elements
  <2> QED BY <1>1, <2>1, <2>2, ConstAssumption DEF Init, TypeOK, Workers, WorkerPcs
<1>4. WorkerNamed /\ QueueOK /\ StoredOK
      BY <1>1, <1>2 DEF Init, WorkerNamed, Live, QueueOK, StoredOK, Rest
<1>5. ControlOK
      BY <1>1, <1>2 DEF Init, ControlOK, CallOK, LengthOK, Reading
<1>6. LastMessage = 0 /\ msgs = 0 /\ Len(inbox) = 0
      BY <1>1, <1>2 DEF Init, LastMessage
<1>7. \A w \in Workers : ~Reading(w) /\ pc[w] # "callback"
      BY <1>1 DEF Init, Reading
<1>8. OrderOK
      BY <1>6, <1>7 DEF OrderOK, After
<1> QED BY <1>3, <1>4, <1>5, <1>8 DEF BaseOK

\* Whatever was cut: one reader, calls and threads in step, and messages in order.
THEOREM AlwaysBase == Spec => [](BaseOK /\ OrderOK)
<1>1. BaseOK /\ OrderOK /\ [Next]_vars => (BaseOK /\ OrderOK)'
  <2>1. SUFFICES ASSUME BaseOK, OrderOK, [Next]_vars
                 PROVE  BaseOK' /\ OrderOK'
        OBVIOUS
  <2>2. CASE Next
        BY <2>1, <2>2, BaseStep, OrderStep
  <2>3. CASE UNCHANGED vars
    <3>1. OrderOK'
          BY <2>1, <2>3 DEF vars, clientVars, appVars, workerVars, devVars, OrderOK, After,
                            LastMessage, Reading, Parts
    <3> QED BY <2>1, <3>1, BaseStep
  <2> QED BY <2>1, <2>2, <2>3
<1> QED BY <1>1, InitBase, PTL DEF Spec

-----------------------------------------------------------------------------
(* The workers implement Capture                                           *)

LEMMA InitMaps == Init => Promise!Init
BY DEF Init, Promise!Init, LastMessage


CaptureStep == [Promise!Start \/ Promise!Deliver \/ Promise!Stop]_(Promise!vars)

\* The creation of a thread starts the capture, its callbacks deliver, and a join stops it.
LEMMA StepMaps ==
  ASSUME BaseOK, OrderOK, Next
  PROVE  CaptureStep
<1> USE ConstAssumption DEF CaptureStep, Promise!vars, clientVars, appVars, workerVars, devVars
<1>1. CASE StartCapture
      BY <1>1 DEF StartCapture, LastMessage
<1>2. CASE Request("PidList")
      BY <1>2 DEF Request, LastMessage
<1>3. CASE Request("CreateArchive")
      BY <1>3 DEF Request, LastMessage
<1>4. CASE StopCapture("stop")
      BY <1>4 DEF StopCapture, LastMessage
<1>5. CASE StopCapture("free")
      BY <1>5 DEF StopCapture, LastMessage
<1>6. CASE SendPlist
      BY <1>6 DEF SendPlist, LastMessage
<1>7. CASE ReceivePlist
      BY <1>7 DEF ReceivePlist, LastMessage
<1>8. CASE MisreadPlist
      BY <1>8 DEF MisreadPlist, LastMessage
<1>9. CASE ReceivePlistError
      BY <1>9 DEF ReceivePlistError, LastMessage
<1>10. CASE NewThread
  <2>1. worker = 0 /\ threads \in Nat /\ UNCHANGED LastMessage
        BY <1>10 DEF NewThread, BaseOK, ControlOK, CallOK, TypeOK, LastMessage
  <2>2. worker' = 0 \/ worker' # 0
        OBVIOUS
  <2>3. CASE worker' # 0
        BY <2>1, <2>3 DEF Promise!Start
  <2>4. CASE worker' = 0
        BY <2>1, <2>4
  <2> QED BY <2>3, <2>4
<1>11. CASE ArchiveReceive
      BY <1>11 DEF ArchiveReceive, LastMessage
<1>12. CASE ArchiveError
      BY <1>12 DEF ArchiveError, LastMessage
<1>13. CASE Join
  <2>1. worker # 0 /\ worker' = 0 /\ UNCHANGED LastMessage
        BY <1>13 DEF Join, BaseOK, ControlOK, CallOK, LastMessage
  <2> QED BY <2>1 DEF Promise!Stop
<1>14. CASE Close
      BY <1>14 DEF Close, LastMessage
<1>15. ASSUME NEW w \in Workers, WorkerHead(w) PROVE CaptureStep
      BY <1>15 DEF WorkerHead, LastMessage
<1>16. ASSUME NEW w \in Workers, WorkerLoad(w) PROVE CaptureStep
      BY <1>16 DEF WorkerLoad, LastMessage
<1>17. ASSUME NEW w \in Workers, WorkerReceive(w) PROVE CaptureStep
      BY <1>17 DEF WorkerReceive, LastMessage
<1>18. ASSUME NEW w \in Workers, WorkerMisread(w) PROVE CaptureStep
      BY <1>18 DEF WorkerMisread, LastMessage
<1>19. ASSUME NEW w \in Workers, WorkerShort(w) PROVE CaptureStep
      BY <1>19 DEF WorkerShort, LastMessage
<1>20. ASSUME NEW w \in Workers, WorkerTimeout(w) PROVE CaptureStep
      BY <1>20 DEF WorkerTimeout, LastMessage
<1>21. ASSUME NEW w \in Workers, WorkerLost(w) PROVE CaptureStep
      BY <1>21 DEF WorkerLost, LastMessage
<1>22. ASSUME NEW w \in Workers, WorkerCallback(w) PROVE CaptureStep
  <2>1. worker # 0 /\ worker' = worker
        BY <1>22 DEF WorkerCallback, BaseOK, WorkerNamed, Live, Workers
  <2>2. LastMessage' \in (LastMessage + 1)..msgs /\ LastMessage \in 0..msgs /\ msgs \in 0..MaxMsg
        BY <1>22, CallbackFacts DEF BaseOK, TypeOK
  <2>3. \E n \in (LastMessage + 1)..MaxMsg : LastMessage' = n
        BY <2>2, ConstAssumption
  <2> QED BY <2>1, <2>3 DEF Promise!Deliver
<1>23. CASE DeviceReply
      BY <1>23 DEF DeviceReply, LastMessage
<1>24. CASE DeviceLog
      BY <1>24 DEF DeviceLog, LastMessage
<1>25. CASE DeviceArchive
      BY <1>25 DEF DeviceArchive, LastMessage
<1>26. CASE DeviceLost
      BY <1>26 DEF DeviceLost, LastMessage
<1>27. CASE Finished
      BY <1>27 DEF Finished, vars, LastMessage
<1> QED
  BY ONLY Next, <1>1, <1>2, <1>3, <1>4, <1>5, <1>6, <1>7, <1>8, <1>9, <1>10, <1>11, <1>12,
       <1>13, <1>14, <1>15, <1>16, <1>17, <1>18, <1>19, <1>20, <1>21, <1>22, <1>23,
       <1>24, <1>25, <1>26, <1>27
  DEF Next, Calls, AppStep, WorkerStep, Device

\* The workers of the three clients implement Capture: a callback is made only between a
\* start and the end of the stop that follows, in the device's order and never twice, for
\* any number of messages, also when a reader left one half-way.
THEOREM Contract == Spec => CaptureCorrect
<1>1. BaseOK /\ OrderOK /\ [Next]_vars => CaptureStep
  <2>1. SUFFICES ASSUME BaseOK, OrderOK, [Next]_vars
                 PROVE  CaptureStep
        OBVIOUS
  <2>2. CASE Next
        BY <2>1, <2>2, StepMaps
  <2>3. CASE UNCHANGED vars
        BY <2>3 DEF vars, clientVars, CaptureStep, Promise!vars, LastMessage
  <2> QED BY <2>1, <2>2, <2>3
<1> QED BY <1>1, InitMaps, AlwaysBase, PTL DEF Spec, CaptureCorrect, CaptureStep, Promise!Spec

-----------------------------------------------------------------------------
(* Whole messages, until a reader leaves one half-way                      *)

\* The reader is at the first part of the inbox, and what it does not finish goes on there.
LEMMA HeadFacts ==
  ASSUME BaseOK, OrderOK, Whole, inbox # <<>>, inbox' = Tail(inbox), UNCHANGED <<service, msgs>>
  PROVE  /\ inbox[1] = <<inbox[1][1], Expect, inbox[1][3]>> /\ Expect \in 1..Parts
         /\ ReadTo = inbox[1][1] - 1 /\ inbox[1][1] \in 1..msgs
         /\ Expect < Parts => /\ Len(inbox') # 0 /\ ReadTo' = ReadTo
                              /\ inbox'[1] = <<inbox[1][1], Expect + 1, inbox[1][3]>>
         /\ Expect = Parts => /\ ReadTo' = inbox[1][1] /\ (inbox' # <<>> => inbox'[1][2] = 1)
                              /\ \A i \in 1..Len(inbox') : inbox'[i][1] > inbox[1][1]
<1>1. /\ Len(inbox) \in Nat \ {0} /\ Len(inbox') = Len(inbox) - 1 /\ (inbox' = <<>> <=> Len(inbox) = 1)
      /\ \A i \in 1..Len(inbox') : i + 1 \in 1..Len(inbox) /\ inbox'[i] = inbox[i + 1]
      /\ inbox[1] \in PartSet
  <2>1. TypeOK /\ QueueOK
        BY DEF BaseOK
  <2> QED BY <2>1, ReadFacts
<1>2. inbox[1] = <<inbox[1][1], inbox[1][2], inbox[1][3]>> /\ inbox[1][2] = Expect /\ inbox[1][1] \in 1..MaxMsg
  <2>1. inbox[1] = <<inbox[1][1], inbox[1][2], inbox[1][3]>> /\ inbox[1][1] \in 1..MaxMsg
        BY <1>1 DEF PartSet
  <2> HIDE DEF Expect
  <2>2. inbox[1][2] = Expect
        BY DEF Whole
  <2> QED BY <2>1, <2>2
<1>3. /\ 1 < Len(inbox) => IF inbox[1][2] < Parts
                           THEN inbox[2] = <<inbox[1][1], inbox[1][2] + 1, inbox[1][3]>>
                           ELSE inbox[2][1] = inbox[1][1] + 1 /\ inbox[2][2] = 1
      /\ 1 = Len(inbox) => inbox[1][1] = msgs /\ inbox[1][2] = Parts
      /\ inbox[1][2] \in 1..Parts
  <2>1. 1 \in 1..Len(inbox) /\ 1 + 1 = 2
        BY <1>1
  <2>2. /\ 1 < Len(inbox) => IF inbox[1][2] < Parts
                             THEN inbox[1 + 1] = <<inbox[1][1], inbox[1][2] + 1, inbox[1][3]>>
                             ELSE inbox[1 + 1][1] = inbox[1][1] + 1 /\ inbox[1 + 1][2] = 1
        /\ 1 = Len(inbox) => inbox[1][1] = msgs /\ inbox[1][2] = Parts
        /\ inbox[1][2] \in 1..Parts
        BY <2>1 DEF Whole
  <2> QED BY <2>1, <2>2
<1>4. inbox[1][1] <= msgs /\ msgs \in Nat
      BY <1>1, NumberFacts DEF OrderOK
<1>5. Len(inbox) = 1 \/ (Len(inbox) > 1 /\ inbox'[1] = inbox[2] /\ inbox' # <<>>)
      BY <1>1
<1>6. ReadTo = inbox[1][1] - 1
      BY <1>1 DEF ReadTo
<1>7. Parts \in 1..3
      BY PartsFacts
<1>8. CASE Expect < Parts
  <2>1. Len(inbox) > 1 /\ inbox' # <<>> /\ inbox'[1] = <<inbox[1][1], Expect + 1, inbox[1][3]>>
        BY <1>2, <1>3, <1>5, <1>7, <1>8
  <2>2. ReadTo' = inbox[1][1] - 1
        BY <2>1 DEF ReadTo
  <2> QED BY <1>1, <1>2, <1>3, <1>4, <1>6, <1>8, <2>1, <2>2, SMTT(30)
<1>9. CASE Expect = Parts
  <2>1. ReadTo' = inbox[1][1] /\ (inbox' # <<>> => inbox'[1][2] = 1)
    <3>1. CASE Len(inbox) = 1
          BY <1>1, <1>3, <3>1 DEF ReadTo
    <3>2. CASE Len(inbox) > 1
      <4>1. inbox'[1][1] = inbox[1][1] + 1 /\ inbox'[1][2] = 1 /\ inbox' # <<>>
            BY <1>1, <1>2, <1>3, <1>5, <1>7, <1>9, <3>2
      <4> QED BY <1>2, <4>1, SMTT(30) DEF ReadTo
    <3> QED BY <1>1, <3>1, <3>2
  <2>2. ASSUME NEW i \in 1..Len(inbox')
        PROVE  inbox'[i][1] > inbox[1][1]
    <3>1. i + 1 \in 1..Len(inbox) /\ 2 \in 1..Len(inbox) /\ inbox'[i] = inbox[i + 1] /\ 2 <= i + 1 /\ 1 < Len(inbox)
          BY <1>1
    <3>2. inbox[2][1] = inbox[1][1] + 1
          BY <1>2, <1>3, <1>7, <1>9, <3>1
    <3>3. inbox[2][1] <= inbox[i + 1][1] /\ inbox[i + 1][1] \in Nat
          BY <3>1, NumberFacts DEF OrderOK
    <3> QED BY <1>2, <3>1, <3>2, <3>3
  <2> QED BY <1>1, <1>2, <1>3, <1>4, <1>6, <1>7, <1>9, <2>1, <2>2
<1>10. Expect \in 1..Parts /\ (Expect < Parts \/ Expect = Parts)
       BY <1>2, <1>3, <1>7
<1> QED BY <1>8, <1>9, <1>10

\* Reading on at the next part leaves the rest whole ...
LEMMA WholeRead ==
  ASSUME BaseOK, OrderOK, Whole, inbox # <<>>, inbox' = Tail(inbox), UNCHANGED <<service, msgs>>,
         Expect' = (IF Expect < Parts THEN Expect + 1 ELSE 1),
         Expect' = 3 => inbox[1][3] # "archive" \/ app' = "archive"
  PROVE  Whole'
<1>1. /\ Len(inbox) \in Nat \ {0} /\ Len(inbox') = Len(inbox) - 1 /\ (inbox' = <<>> <=> Len(inbox) = 1)
      /\ \A i \in 1..Len(inbox') : i + 1 \in 1..Len(inbox) /\ inbox'[i] = inbox[i + 1]
  <2>1. TypeOK /\ QueueOK
        BY DEF BaseOK
  <2> QED BY <2>1, ReadFacts
<1>2. Parts \in 1..3 /\ Parts' = Parts /\ msgs' = msgs
      BY PartsFacts
<1>3. ASSUME NEW i \in 1..Len(inbox')
      PROVE  /\ i < Len(inbox') => IF inbox'[i][2] < Parts
                                   THEN inbox'[i + 1] = <<inbox'[i][1], inbox'[i][2] + 1, inbox'[i][3]>>
                                   ELSE inbox'[i + 1][1] = inbox'[i][1] + 1 /\ inbox'[i + 1][2] = 1
             /\ i = Len(inbox') => inbox'[i][1] = msgs /\ inbox'[i][2] = Parts
             /\ inbox'[i][2] \in 1..Parts
  <2>1. i + 1 \in 1..Len(inbox) /\ inbox'[i] = inbox[i + 1] /\ i \in Nat
        BY <1>1
  <2>2. i < Len(inbox') => inbox'[i + 1] = inbox[(i + 1) + 1] /\ i + 1 < Len(inbox)
        BY <1>1, <2>1
  <2>3. i = Len(inbox') => i + 1 = Len(inbox)
        BY <1>1
  <2>4. /\ i + 1 < Len(inbox) =>
              IF inbox[i + 1][2] < Parts
              THEN inbox[(i + 1) + 1] = <<inbox[i + 1][1], inbox[i + 1][2] + 1, inbox[i + 1][3]>>
              ELSE inbox[(i + 1) + 1][1] = inbox[i + 1][1] + 1 /\ inbox[(i + 1) + 1][2] = 1
        /\ i + 1 = Len(inbox) => inbox[i + 1][1] = msgs /\ inbox[i + 1][2] = Parts
        /\ inbox[i + 1][2] \in 1..Parts
        BY <2>1 DEF Whole
  <2> QED BY ONLY <2>1, <2>2, <2>3, <2>4
<1>4. IF inbox' = <<>> THEN Expect' = 1 ELSE inbox'[1][2] = Expect'
  <2>1. CASE Expect < Parts
    <3>1. Len(inbox') # 0 /\ inbox'[1] = <<inbox[1][1], Expect + 1, inbox[1][3]>>
          BY <2>1, HeadFacts
    <3> QED BY <1>1, <2>1, <3>1
  <2>2. CASE Expect = Parts
        BY <2>2, HeadFacts, <1>2
  <2> QED BY <2>1, <2>2, <1>2, HeadFacts
<1>5. Expect' = 3 => inbox'[1][3] # "archive" \/ app' = "archive"
  <2>1. SUFFICES ASSUME Expect' = 3
                 PROVE  inbox'[1][3] # "archive" \/ app' = "archive"
        OBVIOUS
  <2>2. Expect < Parts
    <3>1. Expect \in 1..Parts /\ Parts \in 1..3
          BY <1>2, HeadFacts
    <3>2. Expect' = (IF Expect < Parts THEN Expect + 1 ELSE 1)
          OBVIOUS
    <3>3. CASE ~(Expect < Parts)
      <4>1. Expect' = 1
            BY ONLY <3>2, <3>3
      <4> QED BY ONLY <2>1, <4>1
    <3> QED BY <3>3
  <2>3. inbox'[1] = <<inbox[1][1], Expect + 1, inbox[1][3]>>
        BY <2>2, HeadFacts
  <2>4. inbox'[1][3] = inbox[1][3]
        BY ONLY <2>3
  <2> QED BY <2>1, <2>4
<1> HIDE DEF Expect
<1> QED BY <1>2, <1>3, <1>4, <1>5 DEF Whole

\* ... and so does whoever does not read.
LEMMA WholeKept ==
  ASSUME BaseOK, Whole, UNCHANGED <<service, inbox, msgs>>, Expect' = Expect,
         Expect = 3 /\ app = "archive" => app' = "archive"
  PROVE  Whole'
<1>1. Parts' = Parts
      BY PartsFacts
<1> HIDE DEF Expect
<1> QED BY <1>1 DEF Whole

LEMMA WholeSend ==
  ASSUME BaseOK, OrderOK, Whole, NEW kind \in Kinds, Sends(kind), UNCHANGED <<service, app>>, Expect' = Expect
  PROVE  Whole' /\ ReadTo' = ReadTo /\ (inbox # <<>> => inbox'[1] = inbox[1])
<1>1. Parts \in 1..3 /\ Parts' = Parts
      BY PartsFacts
<1>2. /\ msgs \in Nat /\ Len(inbox) \in Nat
      /\ Len(inbox') = Len(inbox) + Parts /\ msgs' = msgs + 1
      /\ \A i \in 1..Len(inbox) : inbox'[i] = inbox[i]
      /\ \A i \in 1..Parts : inbox'[Len(inbox) + i] = <<msgs + 1, i, kind>>
      BY SendsFacts, NumberFacts DEF BaseOK
<1>3. (inbox = <<>> <=> Len(inbox) = 0) /\ (inbox' = <<>> <=> Len(inbox') = 0)
  <2>1. inbox \in Seq(PartSet) /\ inbox' \in Seq(PartSet)
        BY SendsFacts DEF BaseOK, QueueOK
  <2> QED BY <2>1, EmptyFacts
<1>4. ASSUME NEW i \in 1..Len(inbox')
      PROVE  /\ i < Len(inbox') => IF inbox'[i][2] < Parts
                                   THEN inbox'[i + 1] = <<inbox'[i][1], inbox'[i][2] + 1, inbox'[i][3]>>
                                   ELSE inbox'[i + 1][1] = inbox'[i][1] + 1 /\ inbox'[i + 1][2] = 1
             /\ i = Len(inbox') => inbox'[i][1] = msgs + 1 /\ inbox'[i][2] = Parts
             /\ inbox'[i][2] \in 1..Parts
  <2>1. CASE i \in 1..Len(inbox)
    <3>1. /\ i < Len(inbox) => IF inbox[i][2] < Parts
                               THEN inbox[i + 1] = <<inbox[i][1], inbox[i][2] + 1, inbox[i][3]>>
                               ELSE inbox[i + 1][1] = inbox[i][1] + 1 /\ inbox[i + 1][2] = 1
          /\ i = Len(inbox) => inbox[i][1] = msgs /\ inbox[i][2] = Parts
          /\ inbox[i][2] \in 1..Parts
          BY <2>1 DEF Whole
    <3>2. inbox'[i] = inbox[i] /\ i < Len(inbox') /\ (i < Len(inbox) => inbox'[i + 1] = inbox[i + 1])
          BY <1>1, <1>2, <2>1
    <3>3. i = Len(inbox) => inbox'[i + 1] = <<msgs + 1, 1, kind>>
          BY <1>1, <1>2
    <3> QED BY <1>1, <1>2, <2>1, <3>1, <3>2, <3>3, SMTT(30)
  <2>2. CASE ~(i \in 1..Len(inbox))
    <3>1. PICK k \in 1..Parts : i = Len(inbox) + k
      <4>1. i - Len(inbox) \in 1..Parts /\ i = Len(inbox) + (i - Len(inbox))
            BY <1>1, <1>2, <2>2
      <4> QED BY <4>1
    <3>2. inbox'[i] = <<msgs + 1, k, kind>>
          BY <1>2, <3>1
    <3>3. k < Parts => inbox'[i + 1] = <<msgs + 1, k + 1, kind>>
      <4>1. k < Parts => k + 1 \in 1..Parts /\ i + 1 = Len(inbox) + (k + 1)
            BY <1>1, <1>2, <3>1
      <4> QED BY <1>2, <4>1
    <3>4. k < Parts <=> i < Len(inbox')
          BY <1>1, <1>2, <3>1
    <3> QED BY <1>1, <1>2, <3>1, <3>2, <3>3, <3>4
  <2> QED BY <2>1, <2>2
<1>5. IF inbox = <<>> THEN Expect = 1 /\ inbox'[1] = <<msgs + 1, 1, kind>> ELSE inbox[1][2] = Expect /\ inbox'[1] = inbox[1]
  <2>1. inbox = <<>> => inbox'[1] = <<msgs + 1, 1, kind>>
        BY <1>1, <1>2, <1>3
  <2>2. inbox # <<>> => inbox'[1] = inbox[1]
        BY <1>1, <1>2, <1>3
  <2> HIDE DEF Expect
  <2> QED BY <2>1, <2>2 DEF Whole
<1>6. inbox' # <<>>
      BY <1>1, <1>2, <1>3
<1>7. ReadTo' = ReadTo
      BY <1>2, <1>5, <1>6 DEF ReadTo
<1> HIDE DEF Expect
<1>8. Expect = 3 => inbox[1][3] # "archive" \/ app = "archive"
      BY DEF Whole
<1> QED BY <1>1, <1>2, <1>4, <1>5, <1>6, <1>7, <1>8 DEF Whole

\* What a worker reads is a log message of the device ...
LEMMA WorkerReads ==
  ASSUME BaseOK, OrderOK, Whole, ReplyOK, ~cut', NEW w \in Workers, WorkerReceive(w)
  PROVE  /\ w = worker /\ inbox # <<>> /\ inbox' = Tail(inbox) /\ UNCHANGED <<service, worker, app, msgs, logs, streaming, delivered>>
         /\ Expect = wpart[w] /\ Expect \in 1..Parts
         /\ Expect' = IF Expect < Parts THEN Expect + 1 ELSE 1
         /\ Full = Len(delivered) /\ Full' = IF Expect < Parts THEN Full ELSE Full + 1
         /\ Expect = Parts => inbox[1][3] = "log"
         /\ Expect' = 3 => inbox[1][3] # "archive"
<1>1. /\ inbox # <<>> /\ inbox' = Tail(inbox) /\ UNCHANGED <<service, worker, app, part, msgs, logs, streaming, delivered>>
      /\ pc[w] = "recv" /\ ~BadType(Head(inbox), wpart[w])
      BY DEF WorkerReceive, clientVars, appVars, devVars
<1>2. /\ w = worker /\ worker # 0 /\ wpart[w] \in 1..3 /\ wpart[w] <= Parts
      /\ pc'[w] = (IF wpart[w] < Parts THEN "load" ELSE "callback")
      /\ wpart'[w] = (IF wpart[w] < Parts THEN wpart[w] + 1 ELSE wpart[w])
      BY <1>1 DEF BaseOK, TypeOK, WorkerNamed, Live, ControlOK, LengthOK, Reading, WorkerReceive, Goto, Workers
<1>3. Expect = wpart[w] /\ Full = Len(delivered)
      BY <1>1, <1>2 DEF Expect, Full, Reading
<1>4. app \notin {"plist", "archive"}
      BY <1>2 DEF ReplyOK
<1>5. Expect' = (IF Expect < Parts THEN Expect + 1 ELSE 1)
  <2>1. CASE wpart[w] < Parts
        BY <1>1, <1>2, <1>3, <2>1 DEF Expect, Reading
  <2>2. CASE ~(wpart[w] < Parts)
    <3>1. pc'[w] = "callback" /\ app' \notin {"plist", "archive"} /\ worker' = w
          BY <1>1, <1>2, <1>4, <2>2
    <3>2. Expect' = 1
          BY <3>1 DEF Expect, Reading
    <3> QED BY <1>3, <2>2, <3>2
  <2> QED BY <2>1, <2>2
<1>6. Full' = (IF Expect < Parts THEN Full ELSE Full + 1)
      BY <1>1, <1>2, <1>3 DEF Full
<1>7. /\ inbox[1] = <<inbox[1][1], Expect, inbox[1][3]>> /\ Expect \in 1..Parts /\ 1 \in 1..Len(inbox)
      /\ inbox[1][3] \in Kinds /\ Head(inbox) = inbox[1]
  <2>1. /\ 1 \in 1..Len(inbox) /\ inbox[1] \in PartSet /\ Head(inbox) = inbox[1]
        BY <1>1, ReadFacts DEF BaseOK
  <2> HIDE DEF Expect
  <2> QED BY <1>1, <2>1, HeadFacts DEF PartSet
<1>8. Parts \in 1..3 /\ (service = "ostrace" => Parts = 3)
      BY PartsFacts
<1> HIDE DEF Expect
<1>9. ASSUME Expect = Parts
      PROVE  inbox[1][3] = "log"
  <2>1. CASE service # "ostrace"
        BY <1>7, <2>1 DEF ReplyOK
  <2>2. CASE service = "ostrace"
    <3>1. inbox[1][3] # "archive"
          BY <1>4, <1>8, <1>9, <2>2 DEF Whole
    <3>2. inbox[1][3] \notin Replies
          BY <1>4, <1>7 DEF ReplyOK, IsReply
    <3> QED BY <1>7, <3>1, <3>2 DEF Kinds, Replies
  <2> QED BY <2>1, <2>2
<1>10. ASSUME Expect' = 3
       PROVE  inbox[1][3] # "archive"
  <2>1. Expect = 2
        BY <1>5, <1>7, <1>8, <1>10
  <2> QED BY <1>1, <1>3, <1>7, <2>1 DEF BadType
<1> QED BY <1>1, <1>2, <1>3, <1>5, <1>6, <1>7, <1>9, <1>10

\* ... a call that waits for a reply reads the rest of an archive, or the reply ...
LEMMA PlistReads ==
  ASSUME BaseOK, OrderOK, Whole, ReplyOK, ~cut', ReceivePlist
  PROVE  /\ inbox # <<>> /\ inbox' = Tail(inbox) /\ UNCHANGED <<service, worker, pc, op, devq, msgs, logs, streaming, delivered>>
         /\ worker = 0 /\ service = "ostrace" /\ app = "plist" /\ Parts = 3
         /\ Expect = part /\ Expect \in 1..Parts
         /\ Expect' = IF Expect < Parts THEN Expect + 1 ELSE 1
         /\ Full' = Full /\ inbox[1][3] # "log"
         /\ IF Expect < Parts THEN app' = "plist" ELSE app' \in {"idle", "new", "archive"}
         /\ Expect = Parts => inbox[1][3] \in Replies /\ (app' # "idle" => op = IF app' = "new" THEN "StartActivity" ELSE "CreateArchive")
         /\ Expect' = 3 => inbox[1][3] # "archive"
<1>1. /\ inbox # <<>> /\ inbox' = Tail(inbox) /\ UNCHANGED <<service, worker, pc, op, devq, msgs, logs, streaming, delivered>>
      /\ app = "plist" /\ ~BadType(Head(inbox), part)
      BY DEF ReceivePlist, clientVars, workerVars, devVars
<1>2. /\ worker = 0 /\ service = "ostrace" /\ part \in 1..3 /\ Parts = 3 /\ op \in Requests
      BY <1>1, PartsFacts DEF BaseOK, TypeOK, ControlOK, CallOK, ReplyOK
<1>3. part' = IF part = 3 THEN 1 ELSE part + 1
      BY <1>2, NextPart DEF ReceivePlist
<1>4. Expect = part /\ Full = Len(delivered) /\ Full' = Full
      BY <1>1, <1>2 DEF Expect, Full
<1>5. /\ inbox[1] = <<inbox[1][1], Expect, inbox[1][3]>> /\ Expect \in 1..Parts /\ 1 \in 1..Len(inbox)
      /\ inbox[1][3] \in Kinds /\ Head(inbox) = inbox[1]
  <2>1. /\ 1 \in 1..Len(inbox) /\ inbox[1] \in PartSet /\ Head(inbox) = inbox[1]
        BY <1>1, ReadFacts DEF BaseOK
  <2> HIDE DEF Expect
  <2> QED BY <1>1, <2>1, HeadFacts DEF PartSet
<1>6. inbox[1][3] # "log"
  <2>1. inbox[1][3] = "log" => \E j \in 1..Len(inbox) : j < 1 /\ IsReply(j)
        BY <1>1, <1>5 DEF ReplyOK
  <2> QED BY <2>1
<1>7. ASSUME Expect = Parts
      PROVE  inbox[1][3] \in Replies /\ inbox[1][3] \in {op, "refused"}
  <2> HIDE DEF Expect
  <2>1. inbox[1][3] # "archive"
        BY <1>1, <1>2, <1>7 DEF Whole
  <2>2. IsReply(1)
        BY <1>5, <1>6, <2>1 DEF Kinds, Replies, IsReply
  <2>3. inbox[1][3] \in {op, "refused"}
        BY <1>1, <1>5, <2>2 DEF ReplyOK
  <2> QED BY <2>2, <2>3 DEF IsReply
<1>8. /\ IF Expect < Parts THEN app' = "plist" ELSE app' \in {"idle", "new", "archive"}
      /\ Expect = Parts /\ app' # "idle" => op = IF app' = "new" THEN "StartActivity" ELSE "CreateArchive"
  <2>1. CASE part < 3
        BY <1>1, <1>2, <1>4, <2>1 DEF ReceivePlist
  <2>2. CASE part = 3
    <3>1. inbox[1][3] \in {op, "refused"} /\ inbox[1][3] \notin {"log", "archive"} /\ Replied(inbox[1][3])
          BY <1>1, <1>2, <1>4, <1>5, <1>7, <2>2 DEF ReceivePlist, Requests
    <3> QED BY <1>2, <1>4, <2>2, <3>1 DEF Replied, Return, Requests
  <2> QED BY <1>2, <2>1, <2>2
<1>9. Expect' = (IF Expect < Parts THEN Expect + 1 ELSE 1)
  <2>1. worker' = 0
        BY <1>1, <1>2
  <2>2. CASE part < 3
        BY <1>2, <1>3, <1>4, <1>8, <2>1, <2>2 DEF Expect
  <2>3. CASE part = 3
    <3>1. part' = 1
          BY <1>3, <2>3
    <3>2. Expect' = 1
          BY <2>1, <3>1 DEF Expect
    <3> QED BY <1>2, <1>4, <2>3, <3>2
  <2> QED BY <1>2, <2>2, <2>3
<1> HIDE DEF Expect
<1>10. ASSUME Expect' = 3
       PROVE  inbox[1][3] # "archive"
  <2>1. Expect = 2
        BY <1>2, <1>5, <1>9, <1>10
  <2> QED BY <1>1, <1>4, <1>5, <2>1 DEF BadType
<1> QED BY <1>1, <1>2, <1>4, <1>5, <1>6, <1>7, <1>8, <1>9, <1>10

\* ... and one that waits for an archive reads its messages.
LEMMA ArchiveReads ==
  ASSUME BaseOK, OrderOK, Whole, LogsOK, ReplyOK, ~cut', ArchiveReceive
  PROVE  /\ inbox # <<>> /\ inbox' = Tail(inbox) /\ UNCHANGED <<service, worker, pc, op, devq, msgs, logs, streaming, delivered>>
         /\ worker = 0 /\ service = "ostrace" /\ app = "archive" /\ Parts = 3
         /\ Expect = part /\ Expect \in 1..Parts
         /\ Expect' = IF Expect < Parts THEN Expect + 1 ELSE 1
         /\ Full' = Full /\ logs = <<>> /\ inbox[1][3] = "archive"
         /\ IF Expect < Parts THEN app' = "archive" ELSE app' \in {"idle", "archive"}
<1>1. /\ inbox # <<>> /\ inbox' = Tail(inbox) /\ UNCHANGED <<service, worker, pc, op, devq, msgs, logs, streaming, delivered>>
      /\ app = "archive"
      BY DEF ArchiveReceive, clientVars, workerVars, devVars
<1>2. /\ worker = 0 /\ service = "ostrace" /\ part \in 1..3 /\ Parts = 3 /\ op = "CreateArchive" /\ ~streaming /\ logs = <<>>
      BY <1>1, PartsFacts DEF BaseOK, TypeOK, ControlOK, CallOK, ReplyOK, LogsOK
<1>3. part' = IF part = 3 THEN 1 ELSE part + 1
      BY <1>2, NextPart DEF ArchiveReceive
<1>4. Expect = part /\ Full = Len(delivered) /\ Full' = Full
      BY <1>1, <1>2 DEF Expect, Full
<1>5. /\ inbox[1] = <<inbox[1][1], Expect, inbox[1][3]>> /\ Expect \in 1..Parts /\ 1 \in 1..Len(inbox)
      /\ inbox[1][3] \in Kinds /\ Head(inbox) = inbox[1] /\ inbox[1][1] \in 1..MaxMsg
  <2>1. /\ 1 \in 1..Len(inbox) /\ inbox[1] \in PartSet /\ Head(inbox) = inbox[1]
        BY <1>1, ReadFacts DEF BaseOK
  <2> HIDE DEF Expect
  <2> QED BY <1>1, <2>1, HeadFacts DEF PartSet
<1>6. inbox[1][3] = "archive"
  <2>1. inbox[1][3] # "log"
    <3>1. ~\E j \in 1..Len(logs) : logs[j] = inbox[1][1]
          BY <1>2
    <3> QED BY <1>5, <3>1 DEF LogsOK
  <2>2. inbox[1][3] \notin Replies
        BY <1>1, <1>5 DEF ReplyOK, IsReply
  <2> QED BY <1>5, <2>1, <2>2 DEF Kinds, Replies
<1>7. IF Expect < Parts THEN app' = "archive" ELSE app' \in {"idle", "archive"}
  <2>1. part = 1 => Head(inbox) \in {<<n, 1, "archive">> : n \in 1..MaxMsg}
        BY <1>4, <1>5, <1>6
  <2>2. (part < 3 /\ app' = app) \/ (part = 3 /\ app' \in {app, "idle"})
        BY <2>1 DEF ArchiveReceive, Return
  <2> QED BY <1>1, <1>2, <1>4, <2>2
<1>8. Expect' = (IF Expect < Parts THEN Expect + 1 ELSE 1)
  <2>1. worker' = 0
        BY <1>1, <1>2
  <2>2. CASE part < 3
        BY <1>2, <1>3, <1>4, <1>7, <2>1, <2>2 DEF Expect
  <2>3. CASE part = 3
    <3>1. part' = 1
          BY <1>3, <2>3
    <3>2. Expect' = 1
          BY <2>1, <3>1 DEF Expect
    <3> QED BY <1>2, <1>4, <2>3, <3>2
  <2> QED BY <1>2, <2>2, <2>3
<1> HIDE DEF Expect
<1> QED BY <1>1, <1>2, <1>4, <1>5, <1>6, <1>7, <1>8

\* The steps that read nothing, and send nothing to the client.
Quiet ==
  \/ Calls \/ SendPlist \/ NewThread \/ Join \/ Close \/ DeviceLost
  \/ \E w \in Workers : WorkerHead(w) \/ WorkerLoad(w) \/ WorkerTimeout(w) \/ WorkerLost(w) \/ WorkerCallback(w)

LEMMA NextCases ==
  ASSUME Next, ~cut'
  PROVE  \/ Quiet \/ ReceivePlist \/ ArchiveReceive \/ \E w \in Workers : WorkerReceive(w)
         \/ DeviceReply \/ DeviceLog \/ DeviceArchive \/ UNCHANGED vars
BY DEF Next, Quiet, AppStep, WorkerStep, Device, Finished,
       MisreadPlist, ReceivePlistError, ArchiveError, WorkerMisread, WorkerShort

Kept ==
  /\ UNCHANGED <<service, inbox, msgs, logs, streaming>> /\ Expect' = Expect /\ Full' = Full
  /\ app = "archive" => app' = "archive"

\* They leave the place of the reader, and what it has read to the end.
LEMMA QuietKept ==
  ASSUME BaseOK, ReplyOK, ~cut', Quiet
  PROVE  Kept
<1> USE ConstAssumption DEF BaseOK, TypeOK, ControlOK, CallOK, Kept, Expect, Full, Reading, Workers,
        Goto, GiveUp, Return, clientVars, appVars, workerVars, devVars
<1>1. CASE Calls
  <2>1. CASE StartCapture
        BY <2>1 DEF StartCapture
  <2>2. ASSUME NEW o \in Requests, Request(o) PROVE Kept
        BY <2>2 DEF Request
  <2>3. ASSUME NEW o \in {"stop", "free"}, StopCapture(o) PROVE Kept
        BY <2>3 DEF StopCapture
  <2> QED BY <1>1, <2>1, <2>2, <2>3 DEF Calls, Requests
<1>2. CASE SendPlist
      BY <1>2 DEF SendPlist
<1>3. CASE NewThread
      BY <1>3 DEF NewThread
<1>4. CASE Join
      BY <1>4 DEF Join
<1>5. CASE Close
      BY <1>5 DEF Close
<1>6. CASE DeviceLost
      BY <1>6 DEF DeviceLost
<1>7. ASSUME NEW w \in Workers, WorkerHead(w) \/ WorkerLoad(w) \/ WorkerTimeout(w) \/ WorkerLost(w) \/ WorkerCallback(w)
      PROVE  Kept
  <2>1. w = worker /\ worker # 0 /\ app \notin {"plist", "archive"}
        BY <1>7 DEF WorkerNamed, Live, ReplyOK, WorkerHead, WorkerLoad, WorkerTimeout, WorkerLost, WorkerCallback
  <2>2. CASE WorkerHead(w)
    <3>1. /\ UNCHANGED <<service, worker, app, inbox, msgs, logs, streaming, delivered>>
          /\ pc[w] = "head" /\ pc'[w] \in {"load", "exited"} /\ wpart'[w] = 1
          BY <2>2 DEF WorkerHead
    <3> QED BY ONLY <2>1, <3>1 DEF Kept, Expect, Full, Reading
  <2>3. CASE WorkerLoad(w)
    <3>1. UNCHANGED <<service, worker, app, inbox, msgs, logs, streaming, delivered, wpart>>
          BY <2>3 DEF WorkerLoad
    <3>2. pc[w] = "load" /\ (parent \/ ~(wpart[w] > 1)) /\ wpart[w] \in 1..3
          BY <2>3, ZenonT(30) DEF WorkerLoad
    <3>3. CASE parent
      <4>1. pc'[w] = "recv"
            BY <2>3, <3>3 DEF WorkerLoad
      <4> QED BY ONLY <2>1, <3>1, <3>2, <4>1 DEF Kept, Expect, Full, Reading
    <3>4. CASE ~parent
      <4>1. pc'[w] \in {"head", "exited"} /\ wpart[w] = 1
            BY <2>3, <3>2, <3>4 DEF WorkerLoad
      <4>2. Expect = 1 /\ Expect' = 1 /\ Full' = Full
            BY ONLY <2>1, <3>1, <3>2, <4>1 DEF Expect, Full, Reading
      <4> QED BY <2>1, <3>1, <4>2
    <3> QED BY <3>3, <3>4
  <2>4. CASE WorkerTimeout(w)
    <3>1. UNCHANGED <<service, worker, app, inbox, msgs, logs, streaming, delivered, wpart>>
          BY <2>4 DEF WorkerTimeout
    <3>2. ~(wpart[w] > 1) /\ wpart[w] \in 1..3
          BY <2>4, ZenonT(30) DEF WorkerTimeout
    <3>3. pc[w] = "recv" /\ wpart[w] = 1 /\ pc'[w] = "head"
          BY <2>4, <3>2 DEF WorkerTimeout
    <3>4. Expect = 1 /\ Expect' = 1 /\ Full' = Full
          BY ONLY <2>1, <3>1, <3>3 DEF Expect, Full, Reading
    <3> QED BY <2>1, <3>1, <3>4
  <2>5. CASE WorkerLost(w)
    <3>1. UNCHANGED <<service, worker, app, inbox, msgs, logs, streaming, delivered, wpart>>
          BY <2>5 DEF WorkerLost
    <3>2. ~(wpart[w] > 1) /\ wpart[w] \in 1..3
          BY <2>5, ZenonT(30) DEF WorkerLost
    <3>3. pc[w] = "recv" /\ wpart[w] = 1 /\ pc'[w] \in {"head", "exited"}
          BY <2>5, <3>2 DEF WorkerLost
    <3>4. Expect = 1 /\ Expect' = 1 /\ Full' = Full
          BY ONLY <2>1, <3>1, <3>3 DEF Expect, Full, Reading
    <3> QED BY <2>1, <3>1, <3>4
  <2>6. CASE WorkerCallback(w)
    <3>1. Len(delivered') = Len(delivered) + 1
      <4>1. delivered \in Seq(Seq(PartSet)) /\ got[w] \in Seq(PartSet)
            BY DEF QueueOK
      <4> QED BY <2>6, <4>1, AppendFacts DEF WorkerCallback
    <3> QED BY <2>1, <2>6, <3>1 DEF WorkerCallback
  <2> QED BY <1>7, <2>2, <2>3, <2>4, <2>5, <2>6
<1> QED BY <1>1, <1>2, <1>3, <1>4, <1>5, <1>6, <1>7 DEF Quiet

\* A new message is not where the reader is.
LEMMA SendKept ==
  ASSUME DeviceReply \/ DeviceLog \/ DeviceArchive
  PROVE  /\ UNCHANGED <<service, worker, pc, wpart, part, app, op, got, delivered>> /\ Expect' = Expect /\ Full' = Full
BY DEF DeviceReply, DeviceLog, DeviceArchive, clientVars, appVars, workerVars, Expect, Full, Reading

LEMMA SendKind ==
  ASSUME BaseOK, DeviceReply \/ DeviceLog \/ DeviceArchive
  PROVE  \E kind \in Kinds : /\ Sends(kind)
                             /\ logs' = IF kind = "log" THEN Append(logs, msgs + 1) ELSE logs
                             /\ ~streaming' => ~streaming /\ kind # "log"
<1>1. CASE DeviceReply
  <2>1. Head(devq) \in Requests /\ Head(devq) # "log"
        BY <1>1, TailFacts DEF DeviceReply, BaseOK, QueueOK, Requests
  <2>2. logs' = logs /\ (~streaming' => ~streaming)
    <3>1. logs' = logs
          BY <1>1 DEF DeviceReply
    <3>2. streaming => streaming'
      <4>1. CASE Sends(Head(devq)) /\ streaming' = (streaming \/ Head(devq) = "StartActivity")
            BY ONLY <4>1, Zenon
      <4>2. CASE UNCHANGED <<streaming, chunks>>
            BY ONLY <4>2
      <4> QED BY <1>1, <4>1, <4>2 DEF DeviceReply
    <3> QED BY <3>1, <3>2, Zenon
  <2>3. Sends(Head(devq)) \/ Sends("refused")
        BY <1>1 DEF DeviceReply
  <2>4. CASE Sends(Head(devq))
        BY <2>1, <2>2, <2>4 DEF Kinds
  <2>5. CASE Sends("refused")
        BY <2>2, <2>5 DEF Kinds
  <2> QED BY <2>3, <2>4, <2>5
<1>2. CASE DeviceLog
  <2>1. Sends("log") /\ logs' = Append(logs, msgs + 1) /\ streaming'
        BY <1>2, ZenonT(30) DEF DeviceLog
  <2> QED BY <2>1 DEF Kinds
<1>3. CASE DeviceArchive
  <2>1. Sends("archive") /\ logs' = logs /\ (~streaming' => ~streaming)
        BY <1>3, ZenonT(30) DEF DeviceArchive
  <2> QED BY <2>1 DEF Kinds
<1> QED BY <1>1, <1>2, <1>3

LEMMA WholeStep ==
  ASSUME BaseOK, OrderOK, Whole, LogsOK, ReplyOK, ~cut', Next
  PROVE  Whole'
<1> HIDE DEF Expect, Full
<1>1. CASE Quiet
      BY <1>1, QuietKept, WholeKept DEF Kept
<1>2. CASE ReceivePlist
      BY <1>2, PlistReads, WholeRead
<1>3. CASE ArchiveReceive
  <2>1. Expect' = 3 => app' = "archive"
        BY <1>3, ArchiveReads
  <2> QED BY <1>3, <2>1, ArchiveReads, WholeRead
<1>4. ASSUME NEW w \in Workers, WorkerReceive(w)
      PROVE  Whole'
      BY <1>4, WorkerReads, WholeRead
<1>5. CASE DeviceReply \/ DeviceLog \/ DeviceArchive
      BY <1>5, SendKept, SendKind, WholeSend
<1>6. CASE UNCHANGED vars
      BY <1>6 DEF vars, clientVars, appVars, workerVars, devVars, Whole, Expect, Reading, Parts
<1> QED BY <1>1, <1>2, <1>3, <1>4, <1>5, <1>6, NextCases

\* The numbers of the log messages, and how many were read to the end.
LEMMA LogFacts ==
  ASSUME BaseOK
  PROVE  Len(logs) \in Nat /\ Full \in Nat /\ \A j \in 1..Len(logs) : logs[j] \in Nat
<1>1. logs \in Seq(Nat) /\ delivered \in Seq(Seq(PartSet))
      BY DEF BaseOK, QueueOK
<1>2. Len(logs) \in Nat /\ Len(delivered) \in Nat /\ \A j \in 1..Len(logs) : logs[j] \in Nat
      BY <1>1, EmptyFacts
<1> QED BY <1>2 DEF Full

\* A part is read: the log messages that are read to the end are one more with its last part.
LEMMA LogsRead ==
  ASSUME BaseOK, OrderOK, Whole, LogsOK, inbox # <<>>, inbox' = Tail(inbox),
         UNCHANGED <<service, msgs, logs, streaming>>,
         Full' = IF Expect = Parts /\ inbox[1][3] = "log" THEN Full + 1 ELSE Full
  PROVE  LogsOK'
<1> DEFINE n == inbox[1][1]
<1>1. /\ Len(inbox) \in Nat \ {0} /\ 1 \in 1..Len(inbox)
      /\ \A i \in 1..Len(inbox') : i + 1 \in 1..Len(inbox) /\ inbox'[i] = inbox[i + 1]
  <2>1. TypeOK /\ QueueOK
        BY DEF BaseOK
  <2> QED BY <2>1, ReadFacts
<1>2. /\ n \in Nat /\ ReadTo = n - 1 /\ Expect \in 1..Parts /\ Parts \in 1..3
      /\ ReadTo' = IF Expect = Parts THEN n ELSE ReadTo
  <2>1. /\ n \in 1..msgs /\ ReadTo = n - 1 /\ Expect \in 1..Parts
        /\ Expect < Parts => ReadTo' = ReadTo
        /\ Expect = Parts => ReadTo' = n
        BY HeadFacts
  <2> QED BY <2>1, PartsFacts
<1>3. Len(logs) \in Nat /\ Full \in Nat /\ \A j \in 1..Len(logs) : logs[j] \in Nat
      BY LogFacts
<1>4. /\ \A i, j \in 1..Len(logs) : i < j => logs[i] < logs[j]
      /\ \A j \in 1..Len(logs) : logs[j] <= msgs
      /\ inbox[1][3] = "log" <=> \E j \in 1..Len(logs) : logs[j] = n
      /\ Full <= Len(logs)
      /\ \A j \in 1..Len(logs) : j <= Full <=> logs[j] <= ReadTo
      /\ ~streaming => logs = <<>>
  <2> HIDE DEF Full, ReadTo
  <2>1. inbox[1][3] = "log" <=> \E j \in 1..Len(logs) : logs[j] = n
        BY <1>1 DEF LogsOK
  <2>2. \A j \in 1..Len(logs) : j <= Full <=> logs[j] <= ReadTo
        BY DEF LogsOK
  <2> QED BY <2>1, <2>2 DEF LogsOK
<1>5. \A i \in 1..Len(inbox') : inbox'[i][3] = "log" <=> \E j \in 1..Len(logs) : logs[j] = inbox'[i][1]
  <2>1. \A i \in 1..Len(inbox) : inbox[i][3] = "log" <=> \E j \in 1..Len(logs) : logs[j] = inbox[i][1]
        BY DEF LogsOK
  <2> QED BY ONLY <1>1, <2>1
<1> HIDE DEF n
<1>6. Full' <= Len(logs) /\ \A j \in 1..Len(logs) : j <= Full' <=> logs[j] <= ReadTo'
  <2>1. CASE Expect # Parts
        BY <1>2, <1>4, <2>1
  <2>2. CASE Expect = Parts /\ inbox[1][3] # "log"
    <3>1. Full' = Full /\ ReadTo' = n /\ \A j \in 1..Len(logs) : logs[j] # n
          BY <1>2, <1>4, <2>2
    <3>2. \A j \in 1..Len(logs) : logs[j] <= n <=> logs[j] <= ReadTo
          BY <1>2, <1>3, <3>1
    <3> QED BY <1>4, <3>1, <3>2
  <2>3. CASE Expect = Parts /\ inbox[1][3] = "log"
    <3>1. Full' = Full + 1 /\ ReadTo' = n
          BY <1>2, <2>3
    <3>2. PICK j0 \in 1..Len(logs) : logs[j0] = n
          BY <1>4, <2>3
    <3>3. j0 > Full
          BY <1>2, <1>3, <1>4, <3>2
    <3>4. j0 = Full + 1
      <4>1. SUFFICES ASSUME j0 > Full + 1
                     PROVE  FALSE
            BY <1>3, <3>2, <3>3
      <4>2. Full + 1 \in 1..Len(logs)
            BY <1>3, <3>2, <4>1
      <4>3. logs[Full + 1] < logs[j0] /\ logs[Full + 1] \in Nat
            BY <1>3, <1>4, <4>1, <4>2
      <4>4. logs[Full + 1] <= ReadTo
            BY <1>2, <3>2, <4>3
      <4>5. Full + 1 <= Full
            BY <1>4, <4>2, <4>4
      <4> QED BY <1>3, <4>5
    <3>5. ASSUME NEW j \in 1..Len(logs)
          PROVE  j <= Full + 1 <=> logs[j] <= n
      <4>1. CASE j < j0
        <5>1. logs[j] < n
              BY <1>4, <3>2, <4>1
        <5> QED BY <1>2, <1>3, <3>4, <4>1, <5>1
      <4>2. CASE j = j0
            BY <1>2, <3>2, <3>4, <4>2
      <4>3. CASE j > j0
        <5>1. n < logs[j]
              BY <1>4, <3>2, <4>3
        <5> QED BY <1>2, <1>3, <3>4, <4>3, <5>1
      <4> QED BY <3>2, <4>1, <4>2, <4>3
    <3> QED BY <1>3, <3>1, <3>2, <3>4, <3>5
  <2> QED BY <2>1, <2>2, <2>3
<1> HIDE DEF Full, ReadTo
<1> QED BY <1>4, <1>5, <1>6 DEF LogsOK

LEMMA LogsKept ==
  ASSUME LogsOK, UNCHANGED <<inbox, msgs, logs, streaming>>, Full' = Full
  PROVE  LogsOK'
<1>1. ReadTo' = ReadTo
      BY DEF ReadTo
<1> HIDE DEF Full, ReadTo
<1> QED BY <1>1 DEF LogsOK

\* A message is sent, and it is a log message or not.
LEMMA LogsSend ==
  ASSUME BaseOK, OrderOK, Whole, LogsOK, NEW kind \in Kinds, Sends(kind), Full' = Full, ReadTo' = ReadTo,
         logs' = (IF kind = "log" THEN Append(logs, msgs + 1) ELSE logs),
         ~streaming' => ~streaming /\ kind # "log", service' = service
  PROVE  LogsOK'
<1>1. Parts \in 1..3
      BY PartsFacts
<1>2. /\ msgs \in Nat /\ Len(inbox) \in Nat
      /\ Len(inbox') = Len(inbox) + Parts /\ msgs' = msgs + 1
      /\ \A i \in 1..Len(inbox) : inbox'[i] = inbox[i]
      /\ \A i \in 1..Parts : inbox'[Len(inbox) + i] = <<msgs + 1, i, kind>>
      BY SendsFacts, NumberFacts DEF BaseOK
<1>3. Len(logs) \in Nat /\ Full \in Nat /\ \A j \in 1..Len(logs) : logs[j] \in Nat /\ logs[j] <= msgs
      BY LogFacts DEF LogsOK
<1>4. /\ kind = "log" => /\ Len(logs') = Len(logs) + 1 /\ logs'[Len(logs) + 1] = msgs + 1
      /\ kind # "log" => Len(logs') = Len(logs)
      /\ \A j \in 1..Len(logs) : logs'[j] = logs[j]
  <2>1. logs \in Seq(Nat) /\ msgs + 1 \in Nat
        BY <1>2 DEF BaseOK, QueueOK
  <2> QED BY <2>1, AppendFacts
<1>5. \A j \in 1..Len(logs') : \/ j \in 1..Len(logs) /\ logs'[j] = logs[j]
                               \/ kind = "log" /\ j = Len(logs) + 1 /\ logs'[j] = msgs + 1
      BY <1>3, <1>4
<1>6. ReadTo \in Int /\ ReadTo <= msgs
  <2>1. CASE inbox = <<>>
        BY <1>2, <2>1 DEF ReadTo
  <2>2. CASE inbox # <<>>
    <3>1. 1 \in 1..Len(inbox)
          BY <2>2, EmptyFacts DEF BaseOK, QueueOK
    <3>2. inbox[1][1] \in Nat /\ inbox[1][1] <= msgs
          BY <3>1, NumberFacts DEF OrderOK
    <3> QED BY <1>2, <2>2, <3>2 DEF ReadTo
  <2> QED BY <2>1, <2>2
<1>7. \A i, j \in 1..Len(logs') : i < j => logs'[i] < logs'[j]
  <2>1. SUFFICES ASSUME NEW i \in 1..Len(logs'), NEW j \in 1..Len(logs'), i < j
                 PROVE  logs'[i] < logs'[j]
        OBVIOUS
  <2>2. CASE j \in 1..Len(logs)
        BY <1>3, <1>4, <2>1, <2>2 DEF LogsOK
  <2>3. CASE kind = "log" /\ j = Len(logs) + 1 /\ logs'[j] = msgs + 1
    <3>1. i \in 1..Len(logs) /\ logs'[i] = logs[i]
          BY <1>3, <1>4, <2>1, <2>3
    <3> QED BY <1>2, <1>3, <2>3, <3>1
  <2> QED BY <1>5, <2>2, <2>3
<1>8. \A j \in 1..Len(logs') : logs'[j] <= msgs'
      BY <1>2, <1>3, <1>5
<1>9. ASSUME NEW i \in 1..Len(inbox')
      PROVE  inbox'[i][3] = "log" <=> \E j \in 1..Len(logs') : logs'[j] = inbox'[i][1]
  <2>1. CASE i \in 1..Len(inbox)
    <3>1. inbox'[i] = inbox[i] /\ inbox[i][1] <= msgs /\ inbox[i][1] \in Nat
          BY <1>2, <2>1, NumberFacts DEF OrderOK
    <3>2. inbox[i][3] = "log" <=> \E j \in 1..Len(logs) : logs[j] = inbox[i][1]
          BY <2>1 DEF LogsOK
    <3>3. (\E j \in 1..Len(logs) : logs[j] = inbox[i][1]) <=> \E j \in 1..Len(logs') : logs'[j] = inbox[i][1]
      <4>1. ASSUME NEW j \in 1..Len(logs), logs[j] = inbox[i][1]
            PROVE  \E k \in 1..Len(logs') : logs'[k] = inbox[i][1]
        <5>1. j \in 1..Len(logs') /\ logs'[j] = logs[j]
              BY <1>3, <1>4
        <5> QED BY <4>1, <5>1
      <4>2. ASSUME NEW j \in 1..Len(logs'), logs'[j] = inbox[i][1]
            PROVE  \E k \in 1..Len(logs) : logs[k] = inbox[i][1]
        <5>1. j \in 1..Len(logs) /\ logs'[j] = logs[j]
              BY <1>2, <1>5, <3>1, <4>2
        <5> QED BY <4>2, <5>1
      <4> QED BY <4>1, <4>2
    <3> QED BY <3>1, <3>2, <3>3
  <2>2. CASE ~(i \in 1..Len(inbox))
    <3>1. inbox'[i] = <<msgs + 1, i - Len(inbox), kind>>
      <4>1. i - Len(inbox) \in 1..Parts /\ i = Len(inbox) + (i - Len(inbox))
            BY <1>1, <1>2, <2>2
      <4> QED BY <1>2, <4>1
    <3>2. kind = "log" => Len(logs) + 1 \in 1..Len(logs') /\ logs'[Len(logs) + 1] = msgs + 1
          BY <1>3, <1>4
    <3>3. ASSUME NEW j \in 1..Len(logs'), logs'[j] = msgs + 1
          PROVE  kind = "log"
          BY <1>2, <1>3, <1>5, <3>3
    <3> QED BY <3>1, <3>2, <3>3
  <2> QED BY <2>1, <2>2
<1>10. Full' <= Len(logs')
       BY <1>3, <1>4 DEF LogsOK
<1>11. ASSUME NEW j \in 1..Len(logs')
       PROVE  j <= Full <=> logs'[j] <= ReadTo
  <2>1. CASE j \in 1..Len(logs) /\ logs'[j] = logs[j]
        BY <2>1 DEF LogsOK
  <2>2. CASE kind = "log" /\ j = Len(logs) + 1 /\ logs'[j] = msgs + 1
    <3>1. Full <= Len(logs)
          BY DEF LogsOK
    <3> QED BY <1>2, <1>3, <1>6, <2>2, <3>1
  <2> QED BY <1>5, <2>1, <2>2
<1>12. ~streaming' => logs' = <<>>
       BY DEF LogsOK
<1> HIDE DEF Full, ReadTo
<1> QED BY <1>7, <1>8, <1>9, <1>10, <1>11, <1>12 DEF LogsOK

LEMMA LogsStep ==
  ASSUME BaseOK, OrderOK, Whole, LogsOK, ReplyOK, ~cut', Next
  PROVE  LogsOK'
<1> HIDE DEF Expect, Full
<1>1. CASE Quiet
      BY <1>1, QuietKept, LogsKept DEF Kept
<1>2. CASE ReceivePlist
      BY <1>2, PlistReads, LogsRead
<1>3. CASE ArchiveReceive
      BY <1>3, ArchiveReads, LogsRead
<1>4. ASSUME NEW w \in Workers, WorkerReceive(w)
      PROVE  LogsOK'
  <2>1. /\ inbox # <<>> /\ inbox' = Tail(inbox) /\ UNCHANGED <<service, msgs, logs, streaming>>
        /\ Expect \in 1..Parts /\ (Expect = Parts => inbox[1][3] = "log")
        /\ Full' = IF Expect < Parts THEN Full ELSE Full + 1
        BY <1>4, WorkerReads
  <2>2. Full' = IF Expect = Parts /\ inbox[1][3] = "log" THEN Full + 1 ELSE Full
        BY <2>1, PartsFacts
  <2> QED BY <2>1, <2>2, LogsRead
<1>5. CASE DeviceReply \/ DeviceLog \/ DeviceArchive
  <2>1. PICK kind \in Kinds : /\ Sends(kind)
                              /\ logs' = IF kind = "log" THEN Append(logs, msgs + 1) ELSE logs
                              /\ ~streaming' => ~streaming /\ kind # "log"
        BY <1>5, SendKind
  <2>2. UNCHANGED <<service, app>> /\ Expect' = Expect /\ Full' = Full
        BY <1>5, SendKept
  <2>3. ReadTo' = ReadTo
        BY <2>1, <2>2, WholeSend
  <2> QED BY <2>1, <2>2, <2>3, LogsSend
<1>6. CASE UNCHANGED vars
      BY <1>6 DEF vars, clientVars, appVars, workerVars, devVars, LogsOK, ReadTo, Full
<1> QED BY <1>1, <1>2, <1>3, <1>4, <1>5, <1>6, NextCases

\* Without a request in progress, no step but SendPlist makes one.
LEMMA ReplyQuiet ==
  ASSUME BaseOK, LogsOK, ReplyOK, ~cut', Quiet
  PROVE  ReplyOK'
<1> USE DEF BaseOK, TypeOK, ControlOK, CallOK, ReplyOK, IsReply, Return, clientVars, appVars, workerVars, devVars
<1> HIDE DEF Replies
<1>1. CASE Calls
  <2>1. CASE StartCapture
        BY <2>1 DEF StartCapture
  <2>2. ASSUME NEW o \in {"PidList", "CreateArchive"}, Request(o) PROVE ReplyOK'
        BY <2>2 DEF Request
  <2>3. ASSUME NEW o \in {"stop", "free"}, StopCapture(o) PROVE ReplyOK'
        BY <2>3 DEF StopCapture
  <2> QED BY <1>1, <2>1, <2>2, <2>3 DEF Calls
<1>2. CASE SendPlist
  <2>1. ~streaming /\ worker = 0 /\ UNCHANGED <<service, worker, op, inbox>> /\ (~streaming => ~streaming')
    <3>1. ~(cut \/ streaming \/ worker # 0)
          BY <1>2, Zenon DEF SendPlist
    <3>2. streaming' = streaming /\ UNCHANGED <<service, worker, op, inbox>>
          BY <1>2 DEF SendPlist
    <3> QED BY <3>1, <3>2, Zenon
  <2>2. devq = <<>> /\ \A i \in 1..Len(inbox) : inbox[i][3] \notin Replies /\ inbox[i][3] # "log"
    <3>1. logs = <<>>
          BY <2>1 DEF LogsOK
    <3>2. ~\E j \in 1..Len(logs) : TRUE
          BY <3>1
    <3>3. \A i \in 1..Len(inbox) : inbox[i][3] # "log"
          BY <3>2 DEF LogsOK
    <3> QED BY <1>2, <3>3 DEF SendPlist
  <2>3. CASE app' = "plist"
    <3>1. devq' = <<op>> /\ service = "ostrace"
      <4>1. devq' = Append(devq, op)
            BY <1>2, <2>3 DEF SendPlist
      <4> QED BY <1>2, <2>2, <4>1 DEF SendPlist
    <3> QED BY ONLY <2>1, <2>2, <2>3, <3>1 DEF ReplyOK, IsReply
  <2>4. CASE app' = "idle"
    <3>1. devq' = devq /\ service = "ostrace"
          BY <1>2, <2>4 DEF SendPlist
    <3> QED BY ONLY <2>1, <2>2, <2>4, <3>1 DEF ReplyOK, IsReply
  <2> QED BY <1>2, <2>3, <2>4 DEF SendPlist
<1>3. CASE NewThread
      BY <1>3 DEF NewThread
<1>4. CASE Join
      BY <1>4 DEF Join
<1>5. CASE Close
      BY <1>5 DEF Close
<1>6. CASE DeviceLost
      BY <1>6 DEF DeviceLost
<1>7. ASSUME NEW w \in Workers, WorkerHead(w) \/ WorkerLoad(w) \/ WorkerTimeout(w) \/ WorkerLost(w) \/ WorkerCallback(w)
      PROVE  ReplyOK'
  <2>1. UNCHANGED <<service, worker, app, op, devq, streaming, inbox>>
        BY <1>7 DEF WorkerHead, WorkerLoad, WorkerTimeout, WorkerLost, WorkerCallback
  <2> QED BY <2>1
<1> QED BY <1>1, <1>2, <1>3, <1>4, <1>5, <1>6, <1>7 DEF Quiet

\* A part that is read leaves no reply behind, or the next part of it.
LEMMA ReplyRead ==
  ASSUME BaseOK, OrderOK, Whole, LogsOK, ReplyOK, inbox # <<>>, inbox' = Tail(inbox),
         UNCHANGED <<service, worker, op, devq, msgs, streaming>>, app' = app, app # "plist"
  PROVE  ReplyOK'
<1>1. \A i \in 1..Len(inbox') : i + 1 \in 1..Len(inbox) /\ inbox'[i] = inbox[i + 1]
      BY ReadFacts DEF BaseOK
<1> HIDE DEF Replies
<1> QED BY <1>1 DEF ReplyOK, IsReply

LEMMA ReplyArchive ==
  ASSUME BaseOK, OrderOK, Whole, LogsOK, ReplyOK, ~cut', ArchiveReceive
  PROVE  ReplyOK'
<1>1. /\ inbox # <<>> /\ inbox' = Tail(inbox) /\ UNCHANGED <<service, worker, op, devq, streaming>>
      /\ worker = 0 /\ service = "ostrace" /\ app = "archive" /\ app' \in {"idle", "archive"}
      BY ArchiveReads
<1>2. \A i \in 1..Len(inbox') : i + 1 \in 1..Len(inbox) /\ inbox'[i] = inbox[i + 1]
      BY <1>1, ReadFacts DEF BaseOK
<1> HIDE DEF Replies
<1> QED BY <1>1, <1>2 DEF ReplyOK, IsReply

LEMMA ReplyPlist ==
  ASSUME BaseOK, OrderOK, Whole, ReplyOK, ~cut', ReceivePlist
  PROVE  ReplyOK'
<1> HIDE DEF Replies, Expect
<1>1. /\ inbox # <<>> /\ inbox' = Tail(inbox) /\ UNCHANGED <<service, worker, op, devq, msgs, streaming>>
      /\ worker = 0 /\ service = "ostrace" /\ app = "plist" /\ Parts = 3
      /\ Expect \in 1..Parts /\ inbox[1][3] # "log"
      /\ IF Expect < Parts THEN app' = "plist" ELSE app' \in {"idle", "new", "archive"}
      /\ Expect = Parts => inbox[1][3] \in Replies /\ (app' # "idle" => op = IF app' = "new" THEN "StartActivity" ELSE "CreateArchive")
      BY PlistReads
<1>2. /\ \A i \in 1..Len(inbox') : i + 1 \in 1..Len(inbox) /\ inbox'[i] = inbox[i + 1]
      /\ 1 \in 1..Len(inbox) /\ Len(inbox') = Len(inbox) - 1 /\ Len(inbox) \in Nat
      BY <1>1, ReadFacts DEF BaseOK
<1>3. /\ devq # <<>> \/ \E i \in 1..Len(inbox) : IsReply(i)
      /\ devq # <<>> => devq = <<op>> /\ ~streaming /\ \A i \in 1..Len(inbox) : ~IsReply(i)
      /\ \A i \in 1..Len(inbox) : IsReply(i) =>
           inbox[i][3] \in {op, "refused"} /\ \A j \in 1..Len(inbox) : IsReply(j) => inbox[j][1] = inbox[i][1]
      /\ \A i \in 1..Len(inbox) : inbox[i][3] = "log" => \E j \in 1..Len(inbox) : j < i /\ IsReply(j)
      /\ op = "CreateArchive" => ~streaming
      BY <1>1 DEF ReplyOK
<1>4. \A i \in 1..Len(inbox') : (inbox'[i][3] \in Replies) <=> IsReply(i + 1)
      BY <1>2 DEF IsReply
<1>5. CASE Expect < Parts
  <2>1. inbox'[1] = <<inbox[1][1], Expect + 1, inbox[1][3]>> /\ 1 \in 1..Len(inbox')
    <3>1. Len(inbox') # 0 /\ inbox'[1] = <<inbox[1][1], Expect + 1, inbox[1][3]>>
          BY <1>1, <1>5, HeadFacts
    <3> QED BY <1>2, <3>1
  <2>2. IsReply(1) => inbox'[1][3] \in Replies /\ IsReply(2)
    <3>1. inbox'[1][3] = inbox[1][3] /\ inbox'[1] = inbox[1 + 1] /\ 1 + 1 = 2
          BY <1>2, <2>1
    <3> QED BY <3>1 DEF IsReply
  <2>3. devq # <<>> \/ \E i \in 1..Len(inbox') : inbox'[i][3] \in Replies
    <3>1. SUFFICES ASSUME NEW k \in 1..Len(inbox), IsReply(k)
                   PROVE  \E i \in 1..Len(inbox') : inbox'[i][3] \in Replies
          BY <1>3
    <3>2. CASE k = 1
          BY <2>1, <2>2, <3>1, <3>2
    <3>3. CASE k # 1
      <4>1. k - 1 \in 1..Len(inbox') /\ (k - 1) + 1 = k
            BY <1>2, <3>1, <3>3
      <4> QED BY <1>4, <3>1, <4>1
    <3> QED BY <3>2, <3>3
  <2>4. \A i \in 1..Len(inbox') : inbox'[i][3] \in Replies =>
          inbox'[i][3] \in {op, "refused"} /\ \A j \in 1..Len(inbox') : inbox'[j][3] \in Replies => inbox'[j][1] = inbox'[i][1]
    <3>1. ASSUME NEW i \in 1..Len(inbox'), inbox'[i][3] \in Replies
          PROVE  /\ i + 1 \in 1..Len(inbox) /\ IsReply(i + 1) /\ inbox'[i] = inbox[i + 1]
                 /\ inbox'[i][3] \in {op, "refused"}
          BY <1>2, <1>3, <1>4, <3>1
    <3>2. ASSUME NEW i \in 1..Len(inbox'), inbox'[i][3] \in Replies,
                 NEW j \in 1..Len(inbox'), inbox'[j][3] \in Replies
          PROVE  inbox'[j][1] = inbox'[i][1]
      <4>1. /\ i + 1 \in 1..Len(inbox) /\ IsReply(i + 1) /\ inbox'[i] = inbox[i + 1]
            /\ j + 1 \in 1..Len(inbox) /\ IsReply(j + 1) /\ inbox'[j] = inbox[j + 1]
            BY <3>1, <3>2
      <4>2. inbox[j + 1][1] = inbox[i + 1][1]
            BY <1>3, <4>1
      <4> QED BY <4>1, <4>2
    <3> QED BY <3>1, <3>2
  <2>5. ASSUME NEW i \in 1..Len(inbox'), inbox'[i][3] = "log"
        PROVE  \E j \in 1..Len(inbox') : j < i /\ inbox'[j][3] \in Replies
    <3>1. PICK k \in 1..Len(inbox) : k < i + 1 /\ IsReply(k)
          BY <1>2, <1>3, <2>5
    <3>2. CASE k = 1
      <4>1. inbox'[1][3] # "log" /\ i # 1
            BY <1>1, <2>1, <2>5
      <4>2. 1 < i
            BY <2>5, <4>1
      <4> QED BY <2>1, <2>2, <3>1, <3>2, <4>2
    <3>3. CASE k # 1
      <4>1. k - 1 \in 1..Len(inbox') /\ (k - 1) + 1 = k /\ k - 1 < i
            BY <1>2, <3>1, <3>3
      <4> QED BY <1>4, <3>1, <4>1
    <3> QED BY <3>2, <3>3
  <2>6. devq # <<>> => \A i \in 1..Len(inbox') : inbox'[i][3] \notin Replies
        BY <1>2, <1>3, <1>4
  <2>7. app' = "plist" /\ worker' = 0 /\ devq' = devq /\ op' = op /\ service' = "ostrace" /\ (~streaming => ~streaming')
        BY <1>1, <1>5
  <2> QED BY ONLY <1>3, <2>3, <2>4, <2>5, <2>6, <2>7 DEF ReplyOK, IsReply
<1>6. CASE Expect = Parts
  <2>1. IsReply(1) /\ devq = <<>>
        BY <1>1, <1>2, <1>3, <1>6 DEF IsReply
  <2>2. \A i \in 1..Len(inbox') : inbox'[i][3] \notin Replies
    <3>1. SUFFICES ASSUME NEW i \in 1..Len(inbox'), inbox'[i][3] \in Replies
                   PROVE  FALSE
          OBVIOUS
    <3>2. inbox'[i][1] = inbox[1][1]
          BY <1>2, <1>3, <1>4, <2>1, <3>1
    <3>3. inbox'[i][1] > inbox[1][1] /\ inbox[1][1] \in 1..msgs
          BY <1>1, <1>6, HeadFacts
    <3> QED BY <3>2, <3>3
  <2>3. /\ app' \in {"idle", "new", "archive"} /\ worker' = 0 /\ devq' = <<>> /\ service' = "ostrace"
        /\ app' = "archive" => op' = "CreateArchive" /\ ~streaming'
        BY <1>1, <1>3, <1>6, <2>1
  <2> QED BY ONLY <2>2, <2>3 DEF ReplyOK, IsReply
<1>7. Expect < Parts \/ Expect = Parts
      BY <1>1
<1> QED BY <1>5, <1>6, <1>7

\* The device replies only to the request in progress.
LEMMA ReplySend ==
  ASSUME BaseOK, OrderOK, Whole, LogsOK, ReplyOK, DeviceReply \/ DeviceLog \/ DeviceArchive
  PROVE  ReplyOK'
<1> HIDE DEF Replies
<1>1. UNCHANGED <<service, worker, app, op>>
      BY SendKept
<1>2. Parts \in 1..3
      BY PartsFacts
<1>3. ASSUME NEW kind \in Kinds, Sends(kind)
      PROVE  /\ Len(inbox) \in Nat /\ Len(inbox') \in Nat /\ Len(inbox) < Len(inbox') /\ msgs \in Nat
             /\ \A i \in 1..Len(inbox) : i \in 1..Len(inbox') /\ inbox'[i] = inbox[i]
             /\ \A i \in 1..Len(inbox') : \/ i \in 1..Len(inbox) /\ inbox'[i] = inbox[i]
                                          \/ i > Len(inbox) /\ inbox'[i][1] = msgs + 1 /\ inbox'[i][3] = kind
             /\ inbox'[Len(inbox) + 1][3] = kind /\ Len(inbox) + 1 \in 1..Len(inbox')
  <2>1. /\ Len(inbox) \in Nat /\ msgs \in Nat
        /\ Len(inbox') = Len(inbox) + Parts /\ msgs' = msgs + 1
        /\ \A i \in 1..Len(inbox) : inbox'[i] = inbox[i]
        /\ \A i \in 1..Parts : inbox'[Len(inbox) + i] = <<msgs + 1, i, kind>>
        BY <1>3, SendsFacts, NumberFacts DEF BaseOK
  <2>2. ASSUME NEW i \in 1..Len(inbox'), ~(i \in 1..Len(inbox))
        PROVE  i > Len(inbox) /\ inbox'[i][1] = msgs + 1 /\ inbox'[i][3] = kind
    <3>1. i - Len(inbox) \in 1..Parts /\ i = Len(inbox) + (i - Len(inbox))
          BY <1>2, <2>1, <2>2
    <3>2. inbox'[i] = <<msgs + 1, i - Len(inbox), kind>>
          BY <2>1, <3>1
    <3> QED BY <1>2, <2>1, <3>1, <3>2
  <2>3. \A i \in 1..Len(inbox) : i \in 1..Len(inbox')
        BY <1>2, <2>1
  <2>4. inbox'[Len(inbox) + 1] = <<msgs + 1, 1, kind>>
        BY <1>2, <2>1
  <2> QED BY <1>2, <2>1, <2>2, <2>3, <2>4
<1>4. CASE DeviceReply
  <2>1. devq # <<>> /\ devq' = Tail(devq) /\ app = "plist" /\ service = "ostrace"
        BY <1>4 DEF DeviceReply, ReplyOK, BaseOK, ControlOK, CallOK
  <2>2. /\ devq = <<op>> /\ ~streaming /\ worker = 0
        /\ \A i \in 1..Len(inbox) : inbox[i][3] \notin Replies
        BY <2>1 DEF ReplyOK, IsReply
  <2>3. op \in Requests /\ Head(devq) = op /\ devq' = <<>>
        BY <2>1, <2>2 DEF BaseOK, ControlOK, CallOK
  <2>4. PICK kind \in {op, "refused"} : Sends(kind)
        BY <1>4, <2>3 DEF DeviceReply
  <2>5. kind \in Replies /\ kind \in Kinds /\ kind # "log"
        BY <2>3, <2>4 DEF Replies, Kinds, Requests
  <2>6. op = "CreateArchive" => ~streaming'
    <3>1. CASE streaming' = (streaming \/ Head(devq) = "StartActivity")
      <4>1. op = "CreateArchive" => ~(Head(devq) = "StartActivity")
            BY <2>3
      <4> QED BY <2>2, <3>1, <4>1, Zenon
    <3>2. CASE UNCHANGED <<streaming, chunks>>
          BY <2>2, <3>2
    <3> QED BY <1>4, <3>1, <3>2 DEF DeviceReply
  <2>7. \A i \in 1..Len(inbox) : inbox[i][3] # "log"
    <3>1. ~\E j \in 1..Len(logs) : TRUE
          BY <2>2 DEF LogsOK
    <3> QED BY <3>1 DEF LogsOK
  <2>8. /\ Len(inbox) \in Nat /\ msgs \in Nat
        /\ \A i \in 1..Len(inbox') : \/ i \in 1..Len(inbox) /\ inbox'[i] = inbox[i]
                                     \/ i > Len(inbox) /\ inbox'[i][1] = msgs + 1 /\ inbox'[i][3] = kind
        /\ inbox'[Len(inbox) + 1][3] = kind /\ Len(inbox) + 1 \in 1..Len(inbox')
        BY <1>3, <2>4, <2>5
  <2>9. /\ \E i \in 1..Len(inbox') : inbox'[i][3] \in Replies
        /\ \A i \in 1..Len(inbox') : inbox'[i][3] # "log"
        /\ \A i \in 1..Len(inbox') : inbox'[i][3] \in Replies => inbox'[i][1] = msgs + 1 /\ inbox'[i][3] = kind
        BY <2>2, <2>5, <2>7, <2>8
  <2>10. app' = "plist" /\ service' = "ostrace" /\ worker' = 0 /\ op' = op
         BY <1>1, <2>1, <2>2
  <2> QED BY ONLY <2>3, <2>4, <2>6, <2>9, <2>10 DEF ReplyOK, IsReply
<1>5. CASE DeviceLog \/ DeviceArchive
  <2>1. PICK kind \in {"log", "archive"} : Sends(kind) /\ (kind = "log" => streaming) /\ (kind = "archive" => service = "ostrace")
    <3>1. CASE DeviceLog
          BY <3>1 DEF DeviceLog
    <3>2. CASE DeviceArchive
      <4>1. service = "ostrace"
            BY <3>2, ConstAssumption DEF DeviceArchive, BaseOK, ControlOK, CallOK
      <4> QED BY <3>2, <4>1 DEF DeviceArchive
    <3> QED BY <1>5, <3>1, <3>2
  <2>2. kind \notin Replies /\ kind \in Kinds
        BY <2>1 DEF Replies, Kinds, Requests
  <2>3. UNCHANGED <<devq, streaming>>
        BY <1>5 DEF DeviceLog, DeviceArchive
  <2>4. /\ Len(inbox) \in Nat /\ msgs \in Nat
        /\ \A i \in 1..Len(inbox) : i \in 1..Len(inbox') /\ inbox'[i] = inbox[i]
        /\ \A i \in 1..Len(inbox') : \/ i \in 1..Len(inbox) /\ inbox'[i] = inbox[i]
                                     \/ i > Len(inbox) /\ inbox'[i][1] = msgs + 1 /\ inbox'[i][3] = kind
        BY <1>3, <2>1, <2>2
  <2>5. \A i \in 1..Len(inbox') : inbox'[i][3] \in Replies => i \in 1..Len(inbox) /\ inbox'[i] = inbox[i]
        BY <2>2, <2>4
  <2>6. app # "plist" => devq = <<>> /\ \A i \in 1..Len(inbox') : inbox'[i][3] \notin Replies
        BY <2>5 DEF ReplyOK, IsReply
  <2>7. ASSUME app = "plist"
        PROVE  /\ devq # <<>> \/ \E i \in 1..Len(inbox') : inbox'[i][3] \in Replies
               /\ devq # <<>> => devq = <<op>> /\ ~streaming /\ \A i \in 1..Len(inbox') : inbox'[i][3] \notin Replies
               /\ \A i \in 1..Len(inbox') : inbox'[i][3] \in Replies =>
                    inbox'[i][3] \in {op, "refused"} /\ \A j \in 1..Len(inbox') : inbox'[j][3] \in Replies => inbox'[j][1] = inbox'[i][1]
               /\ \A i \in 1..Len(inbox') : inbox'[i][3] = "log" => \E j \in 1..Len(inbox') : j < i /\ inbox'[j][3] \in Replies
    <3>1. /\ devq # <<>> \/ \E i \in 1..Len(inbox) : inbox[i][3] \in Replies
          /\ devq # <<>> => devq = <<op>> /\ ~streaming /\ \A i \in 1..Len(inbox) : inbox[i][3] \notin Replies
          /\ \A i \in 1..Len(inbox) : inbox[i][3] \in Replies =>
               inbox[i][3] \in {op, "refused"} /\ \A j \in 1..Len(inbox) : inbox[j][3] \in Replies => inbox[j][1] = inbox[i][1]
          /\ \A i \in 1..Len(inbox) : inbox[i][3] = "log" => \E j \in 1..Len(inbox) : j < i /\ inbox[j][3] \in Replies
          BY <2>7 DEF ReplyOK, IsReply
    <3>2. devq # <<>> \/ \E i \in 1..Len(inbox') : inbox'[i][3] \in Replies
          BY <2>4, <3>1
    <3>3. ASSUME NEW i \in 1..Len(inbox'), inbox'[i][3] = "log"
          PROVE  \E j \in 1..Len(inbox') : j < i /\ inbox'[j][3] \in Replies
      <4>1. CASE i \in 1..Len(inbox) /\ inbox'[i] = inbox[i]
            BY <2>4, <3>1, <3>3, <4>1
      <4>2. CASE i > Len(inbox) /\ inbox'[i][3] = kind
        <5>1. devq = <<>>
              BY <2>1, <3>1, <3>3, <4>2
        <5>2. PICK j \in 1..Len(inbox) : inbox[j][3] \in Replies
              BY <3>1, <5>1
        <5>3. j \in 1..Len(inbox') /\ inbox'[j] = inbox[j] /\ j < i
              BY <2>4, <4>2
        <5> QED BY <5>2, <5>3
      <4> QED BY <2>4, <4>1, <4>2
    <3>4. devq # <<>> => devq = <<op>> /\ ~streaming /\ \A i \in 1..Len(inbox') : inbox'[i][3] \notin Replies
          BY <2>5, <3>1
    <3>5. \A i \in 1..Len(inbox') : inbox'[i][3] \in Replies =>
            inbox'[i][3] \in {op, "refused"} /\ \A j \in 1..Len(inbox') : inbox'[j][3] \in Replies => inbox'[j][1] = inbox'[i][1]
          BY <2>5, <3>1
    <3> QED BY <3>2, <3>3, <3>4, <3>5
  <2>8. service # "ostrace" => \A i \in 1..Len(inbox') : inbox'[i][3] = "log"
        BY <2>1, <2>4 DEF ReplyOK
  <2>9. app \in {"plist", "archive", "new"} => worker = 0
        BY DEF ReplyOK
  <2>10. app \in {"plist", "archive"} /\ op = "CreateArchive" => ~streaming
         BY DEF ReplyOK
  <2> QED BY ONLY <1>1, <2>3, <2>6, <2>7, <2>8, <2>9, <2>10 DEF ReplyOK, IsReply
<1> QED BY <1>4, <1>5

LEMMA ReplyStep ==
  ASSUME BaseOK, OrderOK, Whole, LogsOK, ReplyOK, ~cut', Next
  PROVE  ReplyOK'
<1>1. ASSUME NEW w \in Workers, WorkerReceive(w)
      PROVE  ReplyOK'
  <2>1. /\ inbox # <<>> /\ inbox' = Tail(inbox) /\ UNCHANGED <<service, worker, app, op, devq, msgs, streaming>>
        /\ w = worker
        BY <1>1, WorkerReads DEF WorkerReceive, clientVars, appVars, devVars
  <2>2. app # "plist"
        BY <2>1 DEF ReplyOK, Workers
  <2> QED BY <2>1, <2>2, ReplyRead
<1>2. CASE UNCHANGED vars
      BY <1>2 DEF vars, clientVars, appVars, workerVars, devVars, ReplyOK, IsReply
<1> QED BY <1>1, <1>2, ReplyQuiet, ReplyPlist, ReplyArchive, ReplySend, NextCases

-----------------------------------------------------------------------------
(* What a worker has received, and what it delivers                        *)

\* The steps of a worker that read nothing.
Idle(w) == WorkerHead(w) \/ WorkerLoad(w) \/ WorkerTimeout(w) \/ WorkerLost(w) \/ WorkerCallback(w)

LEMMA GotQuiet ==
  ASSUME BaseOK, GotOK, ReplyOK, ~cut', Quiet
  PROVE  GotOK'
<1> HIDE DEF Full
<1>1. Full' = Full /\ UNCHANGED <<service, inbox, logs>>
      BY QuietKept DEF Kept
<1>2. Parts' = Parts
      BY <1>1, PartsFacts
<1>3. CASE Calls \/ SendPlist \/ Close \/ DeviceLost
  <2>1. UNCHANGED <<worker, pc, got>>
        BY <1>3 DEF Calls, StartCapture, Request, StopCapture, SendPlist, Close, DeviceLost, clientVars, workerVars
  <2> QED BY <1>1, <1>2, <2>1 DEF GotOK, Reading
<1>4. CASE NewThread
  <2>1. worker = 0 /\ pc \in [Workers -> WorkerPcs]
        BY <1>4 DEF NewThread, BaseOK, TypeOK, ControlOK, CallOK
  <2>2. \/ worker' = worker
        \/ worker' = threads + 1 /\ pc' = [pc EXCEPT ![threads + 1] = "head"]
        BY <1>4 DEF NewThread, Goto
  <2>3. threads + 1 \in Workers
        BY <1>4, ConstAssumption DEF NewThread, BaseOK, TypeOK, ControlOK, CallOK, Workers
  <2>4. worker' = 0 \/ pc'[worker'] = "head"
        BY <2>1, <2>2, <2>3
  <2> QED BY <2>4 DEF GotOK, Reading
<1>5. CASE Join
      BY <1>5 DEF Join, GotOK
<1>6. ASSUME NEW w \in Workers, Idle(w)
      PROVE  GotOK'
  <2>1. w = worker /\ worker' = worker /\ pc \in [Workers -> WorkerPcs] /\ got \in [Workers -> Seq(PartSet)]
        BY <1>6 DEF BaseOK, TypeOK, QueueOK, WorkerNamed, Live, Idle, WorkerHead, WorkerLoad, WorkerTimeout,
                    WorkerLost, WorkerCallback, clientVars
  <2>2. \/ pc'[w] \in {"head", "exited"}
        \/ pc'[w] = "load" /\ got'[w] = <<>>
        \/ pc[w] = "load" /\ pc'[w] = "recv" /\ got' = got
        BY <1>6, <2>1 DEF Idle, WorkerHead, WorkerLoad, WorkerTimeout, WorkerLost, WorkerCallback, Goto, GiveUp
  <2>3. CASE pc'[w] \in {"head", "exited"}
        BY <2>1, <2>3 DEF GotOK, Reading
  <2>4. CASE pc'[w] = "load" /\ got'[w] = <<>>
    <3>1. ~\E k \in 1..Len(got'[w]) : TRUE
          BY <2>4
    <3> QED BY <2>1, <2>4, <3>1 DEF GotOK
  <2>5. CASE pc[w] = "load" /\ pc'[w] = "recv" /\ got' = got
    <3>1. worker # 0 => \A k \in 1..Len(got[w]) : got[w][k] = <<inbox[1][1], k, inbox[1][3]>>
          BY <2>1, <2>5 DEF GotOK, Reading
    <3> QED BY <1>1, <2>1, <2>5, <3>1 DEF GotOK
  <2> QED BY <2>2, <2>3, <2>4, <2>5
<1> QED BY <1>3, <1>4, <1>5, <1>6 DEF Quiet, Idle

\* The part that is read is the next one of the message that the worker is at.
LEMMA GotReceive ==
  ASSUME BaseOK, OrderOK, Whole, LogsOK, GotOK, ReplyOK, ~cut', NEW w \in Workers, WorkerReceive(w)
  PROVE  GotOK'
<1> HIDE DEF Full, Expect
<1>1. /\ w = worker /\ inbox # <<>> /\ inbox' = Tail(inbox) /\ UNCHANGED <<service, worker, msgs, logs, streaming>>
      /\ Expect = wpart[w] /\ Expect \in 1..Parts
      /\ Full' = IF Expect < Parts THEN Full ELSE Full + 1
      /\ Expect = Parts => inbox[1][3] = "log"
      BY WorkerReads
<1>2. /\ pc[w] = "recv" /\ Len(got[w]) = wpart[w] - 1 /\ got[w] \in Seq(PartSet) /\ inbox[1] \in PartSet
      /\ pc'[w] = (IF wpart[w] < Parts THEN "load" ELSE "callback")
      /\ got'[w] = Append(got[w], inbox[1])
  <2>1. inbox[1] \in PartSet /\ Head(inbox) = inbox[1]
        BY <1>1, ReadFacts DEF BaseOK
  <2> QED BY <2>1 DEF BaseOK, TypeOK, QueueOK, ControlOK, LengthOK, Reading, WorkerReceive, Goto
<1>3. Parts \in 1..3 /\ Parts' = Parts
      BY <1>1, PartsFacts
<1>4. inbox[1] = <<inbox[1][1], wpart[w], inbox[1][3]>>
      BY <1>1, HeadFacts
<1>5. /\ Len(got'[w]) = wpart[w] /\ \A k \in 1..wpart[w] : got'[w][k] = <<inbox[1][1], k, inbox[1][3]>>
  <2>1. \A k \in 1..Len(got[w]) : got[w][k] = <<inbox[1][1], k, inbox[1][3]>>
        BY <1>1, <1>2, SMTT(30) DEF GotOK, Reading, Workers
  <2>2. /\ Len(got'[w]) = Len(got[w]) + 1 /\ got'[w][Len(got[w]) + 1] = inbox[1]
        /\ \A k \in 1..Len(got[w]) : got'[w][k] = got[w][k]
        BY <1>2, AppendFacts
  <2>3. ASSUME NEW k \in 1..wpart[w]
        PROVE  got'[w][k] = <<inbox[1][1], k, inbox[1][3]>>
    <3>1. k \in 1..Len(got[w]) \/ k = wpart[w]
          BY <1>1, <1>2, <1>3
    <3>2. Len(got[w]) + 1 = wpart[w]
          BY <1>1, <1>2, <1>3
    <3> QED BY <1>4, <2>1, <2>2, <3>1, <3>2
  <2>4. Len(got'[w]) = wpart[w]
        BY <1>1, <1>2, <1>3, <2>2
  <2> QED BY <2>3, <2>4
<1>6. CASE Expect < Parts
  <2>1. pc'[w] = "load" /\ inbox'[1] = <<inbox[1][1], Expect + 1, inbox[1][3]>>
        BY <1>1, <1>2, <1>6, HeadFacts
  <2>2. inbox'[1][1] = inbox[1][1] /\ inbox'[1][3] = inbox[1][3]
        BY ONLY <2>1
  <2> QED BY <1>1, <1>5, <2>1, <2>2 DEF GotOK
<1>7. CASE Expect = Parts
  <2>1. pc'[w] = "callback" /\ inbox[1][3] = "log" /\ wpart[w] = Parts /\ Full' = Full + 1
        BY <1>1, <1>2, <1>3, <1>7
  <2>2. logs[Full + 1] = inbox[1][1]
    <3>1. PICK j \in 1..Len(logs) : logs[j] = inbox[1][1]
      <4>1. 1 \in 1..Len(inbox)
            BY <1>1, ReadFacts DEF BaseOK
      <4> QED BY <2>1, <4>1 DEF LogsOK
    <3>2. /\ ReadTo = inbox[1][1] - 1 /\ inbox[1][1] \in Nat /\ ReadTo' = inbox[1][1]
      <4>1. ReadTo = inbox[1][1] - 1 /\ inbox[1][1] \in 1..msgs /\ ReadTo' = inbox[1][1]
            BY <1>1, <1>7, HeadFacts
      <4> QED BY <4>1
    <3>3. LogsOK'
          BY LogsRead, <1>1, <2>1, <1>7
    <3>4. j <= Full + 1 /\ Full \in Nat /\ Len(logs) \in Nat
      <4>1. j <= Full' <=> logs'[j] <= ReadTo'
            BY <1>1, <3>3 DEF LogsOK
      <4> QED BY <1>1, <2>1, <3>1, <3>2, <4>1, LogFacts
    <3>5. ~(j <= Full)
          BY <3>1, <3>2 DEF LogsOK
    <3> QED BY <3>1, <3>4, <3>5
  <2>3. \A k \in 1..Parts : got'[w][k] = <<logs[Full + 1], k, "log">>
        BY <1>5, <2>1, <2>2
  <2> QED BY <1>1, <1>3, <2>1, <2>3 DEF GotOK, Reading
<1>8. Expect < Parts \/ Expect = Parts
      BY <1>1, <1>3
<1> QED BY <1>6, <1>7, <1>8

\* A message that is sent goes behind the one that the worker is at.
LEMMA GotSend ==
  ASSUME BaseOK, OrderOK, Whole, LogsOK, GotOK, DeviceReply \/ DeviceLog \/ DeviceArchive
  PROVE  GotOK'
<1> HIDE DEF Full
<1>1. UNCHANGED <<service, worker, pc, wpart, app, got>> /\ Expect' = Expect /\ Full' = Full
      BY SendKept
<1>2. PICK kind \in Kinds : Sends(kind) /\ logs' = (IF kind = "log" THEN Append(logs, msgs + 1) ELSE logs)
      BY SendKind
<1>3. inbox # <<>> => inbox'[1] = inbox[1]
      BY <1>1, <1>2, WholeSend
<1>4. Parts' = Parts
      BY <1>1, PartsFacts
<1>5. ASSUME worker # 0, Reading(worker), NEW k \in 1..Len(got[worker])
      PROVE  got[worker][k] = <<inbox'[1][1], k, inbox'[1][3]>>
  <2>1. worker \in Workers /\ Len(got[worker]) = wpart[worker] - 1 /\ Expect = wpart[worker] /\ wpart[worker] \in 1..3
        BY <1>5 DEF BaseOK, TypeOK, ControlOK, LengthOK, Expect
  <2>2. Expect # 1
        BY <1>5, <2>1
  <2> HIDE DEF Expect
  <2>3. inbox # <<>>
        BY <2>2 DEF Whole
  <2>4. got[worker][k] = <<inbox[1][1], k, inbox[1][3]>>
        BY <1>5 DEF GotOK
  <2> QED BY <1>3, <2>3, <2>4
<1>6. ASSUME worker # 0, pc[worker] = "callback"
      PROVE  logs'[Full] = logs[Full]
  <2>1. Full = Len(delivered) + 1 /\ Len(delivered) \in Nat
        BY <1>6, EmptyFacts DEF Full, BaseOK, QueueOK
  <2>2. Full \in 1..Len(logs) /\ logs \in Seq(Nat) /\ msgs + 1 \in Nat
        BY <2>1, LogFacts, NumberFacts DEF LogsOK, BaseOK, QueueOK
  <2> QED BY <1>2, <2>2, AppendFacts
<1> QED BY <1>1, <1>4, <1>5, <1>6 DEF GotOK, Reading

LEMMA GotStep ==
  ASSUME BaseOK, OrderOK, Whole, LogsOK, GotOK, ReplyOK, ~cut', Next
  PROVE  GotOK'
<1>1. CASE ReceivePlist
  <2>1. worker' = 0
        BY <1>1, PlistReads
  <2> QED BY <2>1 DEF GotOK
<1>2. CASE ArchiveReceive
  <2>1. worker' = 0
        BY <1>2, ArchiveReads
  <2> QED BY <2>1 DEF GotOK
<1>3. CASE UNCHANGED vars
      BY <1>3 DEF vars, clientVars, appVars, workerVars, devVars, GotOK, Reading, Parts, Full
<1> QED BY <1>1, <1>2, <1>3, GotQuiet, GotReceive, GotSend, NextCases

\* What the messages that were delivered are.
Delivered ==
  /\ Len(delivered) <= Len(logs)
  /\ \A i \in DOMAIN delivered : delivered[i] = [k \in 1..Parts |-> <<logs[i], k, "log">>]

LEMMA DeliverCallback ==
  ASSUME BaseOK, LogsOK, GotOK, Delivered, NEW w \in Workers, WorkerCallback(w)
  PROVE  Delivered'
<1>1. pc[w] = "callback" /\ delivered' = Append(delivered, got[w]) /\ UNCHANGED <<service, logs>> /\ Parts' = Parts
      BY PartsFacts DEF WorkerCallback, clientVars, devVars
<1>2. w = worker /\ worker # 0 /\ got[w] \in Seq(PartSet) /\ delivered \in Seq(Seq(PartSet)) /\ Len(got[w]) = Parts
  <2>1. w = worker /\ worker # 0
        BY <1>1 DEF BaseOK, WorkerNamed, Live, Workers
  <2>2. got[w] \in Seq(PartSet) /\ delivered \in Seq(Seq(PartSet))
        BY DEF BaseOK, QueueOK
  <2>3. Len(got[w]) = Parts
        BY <1>1 DEF BaseOK, ControlOK, LengthOK
  <2> QED BY <2>1, <2>2, <2>3
<1>3. Full = Len(delivered) + 1 /\ Full <= Len(logs)
      BY <1>1, <1>2 DEF Full, LogsOK
<1>4. got[w] = [k \in 1..Parts |-> <<logs[Full], k, "log">>]
  <2>1. \A k \in 1..Parts : got[w][k] = <<logs[Full], k, "log">>
        BY <1>1, <1>2 DEF GotOK
  <2>2. DOMAIN got[w] = 1..Parts
        BY <1>2
  <2>3. got[w] \in [1..Parts -> PartSet]
        BY <1>2, <2>2
  <2> QED BY <2>1, <2>3
<1>5. /\ Len(delivered') = Len(delivered) + 1 /\ Len(delivered) \in Nat
      /\ DOMAIN delivered = 1..Len(delivered) /\ DOMAIN delivered' = 1..(Len(delivered) + 1)
      /\ \A i \in 1..Len(delivered) : delivered'[i] = delivered[i]
      /\ delivered'[Len(delivered) + 1] = got[w]
  <2>1. delivered' \in Seq(Seq(PartSet))
        BY <1>1, <1>2, AppendFacts
  <2> QED BY <1>1, <1>2, <2>1, AppendFacts
<1>6. \A i \in DOMAIN delivered' : delivered'[i] = [k \in 1..Parts |-> <<logs[i], k, "log">>]
  <2>1. SUFFICES ASSUME NEW i \in 1..(Len(delivered) + 1)
                 PROVE  delivered'[i] = [k \in 1..Parts |-> <<logs[i], k, "log">>]
        BY <1>5
  <2>2. CASE i = Len(delivered) + 1
        BY <1>3, <1>4, <1>5, <2>2
  <2>3. CASE i \in 1..Len(delivered)
        BY <1>5, <2>3 DEF Delivered
  <2> QED BY <1>5, <2>2, <2>3
<1> QED BY <1>1, <1>3, <1>5, <1>6 DEF Delivered

LEMMA DeliverStep ==
  ASSUME BaseOK, LogsOK, GotOK, Delivered, Next
  PROVE  Delivered'
<1>1. ASSUME UNCHANGED <<service, delivered, logs>>
      PROVE  Delivered'
      BY <1>1, PartsFacts DEF Delivered
<1>2. CASE DeviceLog
  <2>1. logs' = Append(logs, msgs + 1) /\ UNCHANGED <<service, delivered>> /\ Parts' = Parts
        BY <1>2, PartsFacts DEF DeviceLog, clientVars
  <2>2. logs \in Seq(Nat) /\ msgs + 1 \in Nat /\ delivered \in Seq(Seq(PartSet))
        BY NumberFacts DEF BaseOK, QueueOK
  <2>3. Len(logs') = Len(logs) + 1 /\ Len(logs) \in Nat /\ \A i \in 1..Len(logs) : logs'[i] = logs[i]
        BY <2>1, <2>2, AppendFacts
  <2>4. DOMAIN delivered = 1..Len(delivered) /\ Len(delivered) \in Nat /\ Len(delivered) <= Len(logs)
        BY <2>2 DEF Delivered
  <2>5. \A i \in DOMAIN delivered : logs'[i] = logs[i]
        BY <2>3, <2>4
  <2>6. \A i \in DOMAIN delivered : delivered[i] = [k \in 1..Parts |-> <<logs'[i], k, "log">>]
        BY <2>5 DEF Delivered
  <2> QED BY <2>1, <2>3, <2>4, <2>6 DEF Delivered
<1>3. ASSUME NEW w \in Workers, WorkerCallback(w)
      PROVE  Delivered'
      BY <1>3, DeliverCallback
<1>4. CASE Calls
      BY <1>1, <1>4 DEF Calls, StartCapture, Request, StopCapture, clientVars, devVars
<1>5. CASE AppStep
      BY <1>1, <1>5 DEF AppStep, SendPlist, ReceivePlist, MisreadPlist, ReceivePlistError, NewThread, ArchiveReceive,
                        ArchiveError, Join, Close, clientVars, devVars
<1>6. ASSUME NEW w \in Workers, WorkerStep(w)
      PROVE  Delivered'
      BY <1>1, <1>3, <1>6 DEF WorkerStep, WorkerHead, WorkerLoad, WorkerReceive, WorkerMisread, WorkerShort,
                              WorkerTimeout, WorkerLost, clientVars, devVars
<1>7. CASE Device
      BY <1>1, <1>2, <1>7 DEF Device, DeviceReply, DeviceArchive, DeviceLost, clientVars, devVars
<1>8. CASE Finished
      BY <1>1, <1>8 DEF Finished, vars, clientVars, devVars
<1> QED BY <1>4, <1>5, <1>6, <1>7, <1>8 DEF Next

-----------------------------------------------------------------------------
(* The theorem                                                             *)

LEMMA UncutStep ==
  ASSUME IInv, [Next]_vars
  PROVE  Uncut'
<1>1. SUFFICES ASSUME ~cut'
               PROVE  Whole' /\ LogsOK' /\ GotOK' /\ ReplyOK' /\ WholeMessages'
      BY DEF Uncut
<1>2. CASE Next
  <2>1. ~cut
        BY <1>1, <1>2, ZenonT(60) DEF Next, Calls, StartCapture, Request, StopCapture, AppStep, SendPlist, ReceivePlist,
           MisreadPlist, ReceivePlistError, NewThread, ArchiveReceive, ArchiveError, Join, Close, WorkerStep, WorkerHead,
           WorkerLoad, WorkerReceive, WorkerMisread, WorkerShort, WorkerTimeout, WorkerLost, WorkerCallback,
           Device, DeviceReply, DeviceLog, DeviceArchive, DeviceLost, Finished, vars
  <2>2. BaseOK /\ OrderOK /\ Whole /\ LogsOK /\ GotOK /\ ReplyOK /\ Delivered
        BY <2>1 DEF IInv, Uncut, WholeMessages, Delivered
  <2>3. Whole' /\ LogsOK' /\ ReplyOK' /\ GotOK' /\ Delivered'
        BY <1>1, <1>2, <2>2, WholeStep, LogsStep, ReplyStep, GotStep, DeliverStep
  <2> QED BY <2>3 DEF WholeMessages, Delivered
<1>3. CASE UNCHANGED vars
      BY <1>1, <1>3 DEF vars, clientVars, appVars, workerVars, devVars, IInv, Uncut, Whole, LogsOK, GotOK, ReplyOK,
                        WholeMessages, Expect, Full, ReadTo, IsReply, Reading, Parts
<1> QED BY <1>2, <1>3

LEMMA InitUncut == Init => Uncut
<1>1. SUFFICES ASSUME Init
               PROVE  Whole /\ LogsOK /\ GotOK /\ ReplyOK /\ WholeMessages
      BY DEF Uncut
<1>2. /\ inbox = <<>> /\ delivered = <<>> /\ devq = <<>> /\ logs = <<>> /\ worker = 0 /\ app = "idle" /\ msgs = 0
      /\ Len(inbox) = 0 /\ Len(logs) = 0 /\ Len(delivered) = 0 /\ DOMAIN delivered = {}
      BY <1>1 DEF Init
<1>3. Expect = 1 /\ Full = 0
      BY <1>2 DEF Expect, Full
<1>4. Whole /\ LogsOK
      BY <1>2, <1>3 DEF Whole, LogsOK
<1>5. GotOK /\ ReplyOK /\ WholeMessages
      BY <1>2 DEF GotOK, ReplyOK, WholeMessages
<1> QED BY <1>4, <1>5

\* The inductive invariant.
THEOREM AlwaysIInv == Spec => []IInv
<1>1. Init => IInv
      BY InitBase, InitUncut DEF IInv
<1>2. IInv /\ [Next]_vars => IInv'
  <2>1. SUFFICES ASSUME IInv, [Next]_vars
                 PROVE  BaseOK' /\ OrderOK' /\ Uncut'
        BY DEF IInv
  <2>2. BaseOK' /\ Uncut'
        BY <2>1, BaseStep, UncutStep DEF IInv
  <2>3. OrderOK'
    <3>1. CASE Next
          BY <2>1, <3>1, OrderStep DEF IInv
    <3>2. CASE UNCHANGED vars
          BY <2>1, <3>2 DEF vars, clientVars, appVars, workerVars, devVars, IInv, OrderOK, After,
                            LastMessage, Reading, Parts
    <3> QED BY <2>1, <3>1, <3>2
  <2> QED BY <2>2, <2>3
<1> QED BY <1>1, <1>2, PTL DEF Spec

\* The client's worker is the only thread that reads the connection and makes callbacks, and
\* until a reader leaves a message half-way its callbacks get the device's log messages whole,
\* each once and in order, for every number of captures, requests and messages.
THEOREM Safety == Spec => []Inv
<1>1. IInv => Inv
      BY DEF IInv, BaseOK, Uncut, Inv, WholeMessages
<1> QED BY <1>1, AlwaysIInv, PTL

=============================================================================
