----------------------------- MODULE CaptureClient -----------------------------
(***************************************************************************)
(* The three clients that capture a stream in a worker thread of their     *)
(* own: src/syslog_relay.c, src/bt_packet_logger.c and src/ostrace.c.  The *)
(* worker looks at client->parent before every receive and ends when a     *)
(* stop has set it to NULL; a message is received in one, two or three     *)
(* parts (a character; length and packet; type, length and body).  Only    *)
(* ostrace sends requests, over the connection that the worker reads.      *)
(***************************************************************************)
EXTENDS Naturals, Sequences

CONSTANTS
  Services,  \* the services to look at
  MaxStart,  \* bound: worker threads
  MaxReq,    \* bound: ostrace requests
  MaxMsg,    \* bound: messages the device sends, replies included
  MaxChunk   \* bound: messages of an archive

AllServices == {"syslog_relay", "bt_packet_logger", "ostrace"}
Workers == 1..MaxStart
Requests == {"StartActivity", "PidList", "CreateArchive"}
\* what a message is: a reply to a request, the refusal of one, or data
Kinds == Requests \union {"refused", "log", "archive"}

ASSUME ConstAssumption ==
  /\ Services \subseteq AllServices
  /\ MaxStart \in Nat /\ MaxReq \in Nat /\ MaxMsg \in Nat /\ MaxChunk \in Nat

VARIABLES
  service,   \* which of the clients this is
  parent,    \* client->parent # NULL
  worker,    \* client->worker, 0 is THREAD_T_NULL
  conn,      \* the connection: "open", "lost", "freed" (and the client)
  app,       \* where the application thread is
  op,        \* the call it makes
  part,      \* the part it receives next
  res,       \* the result of its last call
  pc,        \* where each worker thread is
  wpart,     \* the part it receives next
  got,       \* the parts of the message it has received
  threads,   \* worker threads created
  reqs,      \* requests made
  devq,      \* requests the device has received and not answered
  streaming, \* the device sends log data
  chunks,    \* messages left of the archive it sends, 0 when it sends none
  inbox,     \* parts <<message number, part, kind>> sent and not read
  logs,      \* history: the numbers of the log messages sent
  msgs,      \* history: messages sent
  delivered, \* history: the parts given to the callback of the capture
  stored,    \* history: archive messages given to the archive callback
  cut        \* history: a reader left a message half-way, or not to its own reader

clientVars == <<service, parent, worker, conn>>
appVars == <<app, op, part, res, reqs>>
workerVars == <<pc, wpart, got>>
devVars == <<devq, streaming, chunks, logs, msgs>>
vars == <<clientVars, appVars, workerVars, threads, devVars, inbox, delivered, stored, cut>>

Init ==
  /\ service \in Services
  /\ parent = TRUE /\ worker = 0 /\ conn = "open"
  /\ app = "idle" /\ op = "none" /\ part = 1 /\ res = "none" /\ reqs = 0
  /\ pc = [w \in Workers |-> "none"]
  /\ wpart = [w \in Workers |-> 1]
  /\ got = [w \in Workers |-> <<>>]
  /\ threads = 0
  /\ devq = <<>> /\ chunks = 0 /\ inbox = <<>> /\ logs = <<>> /\ msgs = 0
  /\ streaming = (service # "ostrace")
  /\ delivered = <<>> /\ stored = 0 /\ cut = FALSE

Parts == IF service = "syslog_relay" THEN 1 ELSE IF service = "bt_packet_logger" THEN 2 ELSE 3

Goto(w, l) == pc' = [pc EXCEPT ![w] = l]
Return(r) == app' = "idle" /\ res' = r

\* the length of archive data comes after a type that nobody but an archive call takes
BadType(p, k) == k = 2 /\ p[2] = 2 /\ p[3] = "archive"

-----------------------------------------------------------------------------
(* The worker thread: a look at client->parent at the head of the loop and  *)
(* one for each part, and the receive that follows                         *)

WorkerHead(w) ==
  /\ pc[w] = "head"
  /\ Goto(w, IF parent THEN "load" ELSE "exited")
  /\ wpart' = [wpart EXCEPT ![w] = 1]
  /\ got' = [got EXCEPT ![w] = <<>>]
  /\ UNCHANGED <<clientVars, appVars, threads, devVars, inbox, delivered, stored, cut>>

\* where a worker goes that could not receive a part: bt_packet_logger starts anew
\* when it has no packet for its length
GiveUp(w) == Goto(w, IF service = "bt_packet_logger" /\ wpart[w] = 2 THEN "head" ELSE "exited")

\* the service's receive refuses a NULL parent
WorkerLoad(w) ==
  /\ pc[w] = "load"
  /\ IF parent THEN Goto(w, "recv") ELSE GiveUp(w)
  /\ cut' = (cut \/ (~parent /\ wpart[w] > 1))
  /\ UNCHANGED <<clientVars, appVars, wpart, got, threads, devVars, inbox, delivered, stored>>

\* mutant: the part goes on counting at the last one
WorkerReceive_PastEnd(w) ==
  /\ pc[w] = "recv" /\ inbox # <<>> /\ ~BadType(Head(inbox), wpart[w])
  /\ inbox' = Tail(inbox)
  /\ got' = [got EXCEPT ![w] = Append(@, Head(inbox))]
  /\ wpart' = [wpart EXCEPT ![w] = @ + 1]
  /\ Goto(w, IF wpart[w] < Parts THEN "load" ELSE "callback")
  /\ cut' = (cut \/ Head(inbox)[2] # wpart[w])
  /\ UNCHANGED <<clientVars, appVars, threads, devVars, delivered, stored>>

WorkerReceive(w) ==
  /\ pc[w] = "recv" /\ inbox # <<>> /\ ~BadType(Head(inbox), wpart[w])
  /\ inbox' = Tail(inbox)
  /\ got' = [got EXCEPT ![w] = Append(@, Head(inbox))]
  /\ wpart' = [wpart EXCEPT ![w] = IF @ < Parts THEN @ + 1 ELSE @]
  /\ Goto(w, IF wpart[w] < Parts THEN "load" ELSE "callback")
  /\ cut' = (cut \/ Head(inbox)[2] # wpart[w])
  /\ UNCHANGED <<clientVars, appVars, threads, devVars, delivered, stored>>

\* something that is no type or no length, because an earlier reader stopped half-way
WorkerMisread(w) ==
  /\ pc[w] = "recv" /\ inbox # <<>>
  /\ Head(inbox)[2] # wpart[w] \/ BadType(Head(inbox), wpart[w])
  /\ inbox' = Tail(inbox)
  /\ Goto(w, IF service = "ostrace" THEN "exited" ELSE "head")
  /\ cut' = TRUE
  /\ UNCHANGED <<clientVars, appVars, wpart, got, threads, devVars, delivered, stored>>

\* less of the packet or body than its length says: part 0 is the rest of it
WorkerShort(w) ==
  /\ pc[w] = "recv" /\ inbox # <<>> /\ wpart[w] = Parts /\ Parts > 1
  /\ inbox' = <<<<Head(inbox)[1], 0, Head(inbox)[3]>>>> \o Tail(inbox)
  /\ GiveUp(w)
  /\ cut' = TRUE
  /\ UNCHANGED <<clientVars, appVars, wpart, got, threads, devVars, delivered, stored>>

\* nothing arrives in 100 ms, or later in 500 ms (bt_packet_logger) or 30 s (ostrace)
WorkerTimeout(w) ==
  /\ pc[w] = "recv"
  /\ IF wpart[w] = 1 THEN Goto(w, "head") ELSE GiveUp(w)
  /\ cut' = (cut \/ wpart[w] > 1)
  /\ UNCHANGED <<clientVars, appVars, wpart, got, threads, devVars, inbox, delivered, stored>>

WorkerLost(w) ==
  /\ pc[w] = "recv" /\ conn = "lost"
  /\ GiveUp(w)
  /\ cut' = (cut \/ wpart[w] > 1)
  /\ UNCHANGED <<clientVars, appVars, wpart, got, threads, devVars, inbox, delivered, stored>>

WorkerCallback(w) ==
  /\ pc[w] = "callback"
  /\ delivered' = Append(delivered, got[w])
  /\ got' = [got EXCEPT ![w] = <<>>]
  /\ Goto(w, "head")
  /\ UNCHANGED <<clientVars, appVars, wpart, threads, devVars, inbox, stored, cut>>

-----------------------------------------------------------------------------
(* Start, and the requests of ostrace                                      *)

\* mutant: a start does not look for a worker that runs already
StartCapture_Twice ==
  /\ app = "idle" /\ threads < MaxStart /\ (service = "ostrace" => reqs < MaxReq)
  /\ op' = "StartActivity"
  /\ res' = "none"
  /\ app' = IF service = "ostrace" THEN "send" ELSE "new"
  /\ UNCHANGED <<clientVars, part, reqs, workerVars, threads, devVars, inbox, delivered, stored, cut>>

StartCapture ==
  /\ app = "idle" /\ threads < MaxStart /\ (service = "ostrace" => reqs < MaxReq)
  /\ op' = "StartActivity"
  /\ IF worker # 0 THEN Return("UNKNOWN_ERROR")
     ELSE app' = (IF service = "ostrace" THEN "send" ELSE "new") /\ res' = "none"
  /\ UNCHANGED <<clientVars, part, reqs, workerVars, threads, devVars, inbox, delivered, stored, cut>>

\* ostrace_get_pid_list and ostrace_create_archive, whether or not a worker runs
Request(o) ==
  /\ app = "idle" /\ service = "ostrace" /\ reqs < MaxReq
  /\ op' = o /\ app' = "send" /\ res' = "none"
  /\ UNCHANGED <<clientVars, part, reqs, workerVars, threads, devVars, inbox, delivered, stored, cut>>

SendPlist ==
  /\ app = "send"
  /\ reqs' = reqs + 1
  /\ part' = 1
  /\ IF conn = "open"
     THEN devq' = Append(devq, op) /\ app' = "plist" /\ UNCHANGED res
     ELSE Return("UNKNOWN_ERROR") /\ UNCHANGED devq
  /\ cut' = (cut \/ streaming \/ worker # 0)
  /\ UNCHANGED <<clientVars, op, workerVars, threads, streaming, chunks, logs, msgs, inbox, delivered, stored>>

\* what a whole reply leads to: _ostrace_check_result takes any reply that is no refusal
Replied(kind) ==
  IF kind \in {"log", "archive"} THEN Return("UNKNOWN_ERROR")
  ELSE IF kind = "refused" \/ (op = "PidList" /\ kind # "PidList") THEN Return("REQUEST_FAILED")
  ELSE IF op = "PidList" THEN Return("SUCCESS")
  ELSE app' = (IF op = "StartActivity" THEN "new" ELSE "archive") /\ UNCHANGED res

ReceivePlist ==
  /\ app = "plist" /\ inbox # <<>> /\ ~BadType(Head(inbox), part)
  /\ inbox' = Tail(inbox)
  /\ part' = (part % 3) + 1
  /\ IF part < 3 THEN UNCHANGED <<app, res>> ELSE Replied(Head(inbox)[3])
  /\ cut' = (cut \/ Head(inbox)[2] # part)
  /\ UNCHANGED <<clientVars, op, reqs, workerVars, threads, devVars, delivered, stored>>

\* no type or length of a reply: archive data, or the middle of a message
MisreadPlist ==
  /\ app = "plist" /\ inbox # <<>>
  /\ Head(inbox)[2] # part \/ BadType(Head(inbox), part)
  /\ inbox' = Tail(inbox)
  /\ Return("UNKNOWN_ERROR")
  /\ cut' = TRUE
  /\ UNCHANGED <<clientVars, op, part, reqs, workerVars, threads, devVars, delivered, stored>>

ReceivePlistError ==
  /\ app = "plist"
  /\ \/ Return("TIMEOUT") \* 30 s
     \/ conn = "lost" /\ Return("UNKNOWN_ERROR")
  /\ cut' = TRUE
  /\ UNCHANGED <<clientVars, op, part, reqs, workerVars, threads, devVars, inbox, delivered, stored>>

\* ostrace returns the result of the reply, also when thread_new failed
NewThread ==
  /\ app = "new"
  /\ \/ /\ threads' = threads + 1 /\ worker' = threads + 1
        /\ Goto(threads + 1, "head")
        /\ Return("SUCCESS")
     \/ /\ Return(IF service = "ostrace" THEN "SUCCESS" ELSE "UNKNOWN_ERROR")
        /\ UNCHANGED <<threads, worker, pc>>
  /\ UNCHANGED <<service, parent, conn, op, part, reqs, wpart, got, devVars, inbox, delivered, stored, cut>>

-----------------------------------------------------------------------------
(* The loop of ostrace_create_archive                                      *)

ArchiveReceive ==
  /\ app = "archive" /\ inbox # <<>>
  /\ inbox' = Tail(inbox)
  /\ part' = (part % 3) + 1
  /\ cut' = (cut \/ Head(inbox)[2] # part)
  /\ \/ /\ part = 1 /\ Head(inbox) \notin {<<n, 1, "archive">> : n \in 1..MaxMsg}
        /\ Return("REQUEST_FAILED") /\ UNCHANGED stored
     \/ /\ part = 1 => Head(inbox)[3] = "archive"
        /\ part < 3
        /\ UNCHANGED <<app, res, stored>>
     \/ /\ part = 3
        /\ stored' = stored + 1
        /\ \/ UNCHANGED <<app, res>>
           \/ Return("REQUEST_FAILED") \* aborted by the callback
  /\ UNCHANGED <<clientVars, op, reqs, workerVars, threads, devVars, delivered>>

\* any error ends the loop, and the call succeeds
ArchiveError ==
  /\ app = "archive"
  /\ Return("SUCCESS")
  /\ cut' = TRUE
  /\ UNCHANGED <<clientVars, op, part, reqs, workerVars, threads, devVars, inbox, delivered, stored>>

-----------------------------------------------------------------------------
(* Stop and free.  The callback calls neither                              *)

\* mutant: the worker is not told to end
StopCapture_KeepsParent(o) ==
  /\ app = "idle" /\ (o = "stop" => worker # 0)
  /\ op' = o
  /\ IF worker # 0 THEN app' = "join" ELSE app' = "close"
  /\ UNCHANGED <<clientVars, part, res, reqs, workerVars, threads, devVars, inbox, delivered, stored, cut>>

\* mutant: a free closes the connection of a worker that runs
StopCapture_FreeCloses(o) ==
  /\ app = "idle" /\ (o = "stop" => worker # 0)
  /\ op' = o
  /\ IF o = "stop" THEN parent' = FALSE /\ app' = "join"
     ELSE UNCHANGED parent /\ app' = "close"
  /\ UNCHANGED <<service, worker, conn, part, res, reqs, workerVars, threads, devVars, inbox, delivered, stored, cut>>

\* a stop without a worker does nothing
StopCapture(o) ==
  /\ app = "idle" /\ (o = "stop" => worker # 0)
  /\ op' = o
  /\ IF worker # 0 THEN parent' = FALSE /\ app' = "join"
     ELSE UNCHANGED parent /\ app' = "close"
  /\ UNCHANGED <<service, worker, conn, part, res, reqs, workerVars, threads, devVars, inbox, delivered, stored, cut>>

\* mutant: the worker is not waited for
Join_NoWait ==
  /\ app = "join"
  /\ worker' = 0 /\ parent' = TRUE
  /\ app' = (IF op = "free" THEN "close" ELSE "idle") /\ res' = "SUCCESS"
  /\ UNCHANGED <<service, conn, op, part, reqs, workerVars, threads, devVars, inbox, delivered, stored, cut>>

Join ==
  /\ app = "join" /\ pc[worker] = "exited"
  /\ worker' = 0 /\ parent' = TRUE
  /\ app' = (IF op = "free" THEN "close" ELSE "idle") /\ res' = "SUCCESS"
  /\ UNCHANGED <<service, conn, op, part, reqs, workerVars, threads, devVars, inbox, delivered, stored, cut>>

Close ==
  /\ app = "close"
  /\ conn' = "freed" /\ app' = "freed"
  /\ UNCHANGED <<service, parent, worker, op, part, res, reqs, workerVars, threads, devVars, inbox, delivered, stored, cut>>

-----------------------------------------------------------------------------
(* The device (external).  Nothing tells it that a capture was stopped      *)

Sends(kind) ==
  /\ msgs < MaxMsg
  /\ msgs' = msgs + 1
  /\ inbox' = inbox \o [i \in 1..Parts |-> <<msgs + 1, i, kind>>]

DeviceReply ==
  /\ conn = "open" /\ devq # <<>>
  /\ devq' = Tail(devq)
  /\ \/ /\ Sends(Head(devq))
        /\ streaming' = (streaming \/ Head(devq) = "StartActivity")
        /\ chunks' = IF Head(devq) = "CreateArchive" THEN MaxChunk ELSE chunks
     \/ Sends("refused") /\ UNCHANGED <<streaming, chunks>>
  /\ UNCHANGED <<clientVars, appVars, workerVars, threads, logs, delivered, stored, cut>>

DeviceLog ==
  /\ conn = "open" /\ streaming
  /\ Sends("log")
  /\ logs' = Append(logs, msgs + 1)
  /\ UNCHANGED <<clientVars, appVars, workerVars, threads, devq, streaming, chunks, delivered, stored, cut>>

\* the connection is closed after the last message of an archive
DeviceArchive ==
  /\ conn = "open" /\ chunks > 0
  /\ Sends("archive")
  /\ chunks' = chunks - 1
  /\ conn' = IF chunks = 1 THEN "lost" ELSE conn
  /\ UNCHANGED <<service, parent, worker, appVars, workerVars, threads, devq, streaming, logs, delivered, stored, cut>>

DeviceLost ==
  /\ conn = "open"
  /\ conn' = "lost"
  /\ UNCHANGED <<service, parent, worker, appVars, workerVars, threads, devVars, inbox, delivered, stored, cut>>

Calls == StartCapture \/ Request("PidList") \/ Request("CreateArchive")
         \/ StopCapture("stop") \/ StopCapture("free")
AppStep == SendPlist \/ ReceivePlist \/ MisreadPlist \/ ReceivePlistError \/ NewThread
           \/ ArchiveReceive \/ ArchiveError \/ Join \/ Close
WorkerStep(w) ==
  WorkerHead(w) \/ WorkerLoad(w) \/ WorkerReceive(w) \/ WorkerMisread(w) \/ WorkerShort(w)
  \/ WorkerTimeout(w) \/ WorkerLost(w) \/ WorkerCallback(w)
Device == DeviceReply \/ DeviceLog \/ DeviceArchive \/ DeviceLost

Finished == app = "freed" /\ UNCHANGED vars

Next == Calls \/ AppStep \/ (\E w \in Workers : WorkerStep(w)) \/ Device \/ Finished

Spec == Init /\ [][Next]_vars

\* every receive has a timeout and callbacks return; the application calls and the
\* device acts as they like
FairSpec == Spec /\ WF_vars(AppStep) /\ \A w \in Workers : WF_vars(WorkerStep(w))

-----------------------------------------------------------------------------
(* Properties                                                              *)

Elements(s) == {s[i] : i \in DOMAIN s}
WorkerPcs == {"none", "head", "load", "recv", "callback", "exited"}
Live(w) == pc[w] \notin {"none", "exited"}

\* Every variable keeps its type.
TypeOK ==
  /\ service \in Services /\ parent \in BOOLEAN /\ worker \in {0} \union Workers
  /\ conn \in {"open", "lost", "freed"}
  /\ app \in {"idle", "send", "plist", "new", "archive", "join", "close", "freed"}
  /\ op \in Requests \union {"none", "stop", "free"}
  /\ res \in {"none", "SUCCESS", "UNKNOWN_ERROR", "REQUEST_FAILED", "TIMEOUT"}
  /\ part \in 1..3 /\ reqs \in 0..MaxReq /\ threads \in 0..MaxStart
  /\ pc \in [Workers -> WorkerPcs] /\ wpart \in [Workers -> 1..3]
  /\ Elements(devq) \subseteq Requests /\ streaming \in BOOLEAN /\ chunks \in 0..MaxChunk
  /\ \A p \in Elements(inbox) : p \in (1..MaxMsg) \X (0..3) \X Kinds
  /\ msgs \in 0..MaxMsg /\ stored \in 0..MaxMsg /\ cut \in BOOLEAN

\* client->worker names the only worker thread that still runs, from its creation until
\* a stop has joined it: no second reader of the connection, no callback after a stop.
WorkerNamed == \A w \in Workers : Live(w) => worker = w /\ conn # "freed"

\* Until a reader leaves a message half-way, or ostrace makes a request during a
\* stream, every callback gets one whole message, and the captures together get each
\* message the device has sent, in order, also across a stop and a start.
WholeMessages ==
  ~cut => /\ Len(delivered) <= Len(logs)
          /\ \A i \in DOMAIN delivered :
               delivered[i] = [k \in 1..Parts |-> <<logs[i], k, "log">>]

\* What the worker's handle is for: one reader of the connection, and whole messages.
Inv == TypeOK /\ WorkerNamed /\ WholeMessages

LastMessage == IF delivered = <<>> THEN 0
               ELSE LET d == delivered[Len(delivered)] IN d[Len(d)][1]
Promise == INSTANCE Capture WITH on <- worker # 0, last <- LastMessage

\* The workers implement Capture: callbacks only between a start and the end of the
\* stop that follows, in the device's order and never twice, even when a message was
\* cut and the rest of the stream is read at the wrong place.
CaptureCorrect == Promise!Spec

\* A stop, and with it a free, returns: the worker sees that client->parent is NULL
\* after at most the receive and the callback that it is in.
StopReturns == app = "join" ~> app # "join"
================================================================================
