-------------------------- MODULE DeviceLink_proofs --------------------------
(***************************************************************************)
(* Proofs about DeviceLink, for any data classes, versions and number of   *)
(* calls: a client of mobilesync knows the session that its device is in.  *)
(* A start that fails is taken for one that succeeded, so what the device  *)
(* still has to read decides, and the invariant is about the requests that *)
(* are under way.                                                          *)
(***************************************************************************)
EXTENDS DeviceLink, TLAPS

NoClass == "none"
ClassOrNone == DataClasses \union {"none"}
Requests == [kind : Calls \union {"versionsOk", "ping", "backupOk"}, to : 0..MaxCalls,
             class : ClassOrNone]
Ends(m) == m.kind \in {"finish", "cancel"}

\* The device in session d that reads the requests q is then in session c, or in none.
Agrees(q, d, c) ==
  /\ d # "none" /\ (\A i \in 1..Len(q) : ~Ends(q[i])) => d = c
  /\ \A i \in 1..Len(q) :
       q[i].kind = "start" /\ (\A j \in 1..Len(q) : j > i => ~Ends(q[j])) => q[i].class = c

\* The session of the client once the call in progress is over.
ClientClass ==
  IF pc = "receive" /\ call = "start" THEN class
  ELSE IF pc = "receive" /\ call = "finish" THEN "none" ELSE dataClass

\* The calls that wait for a message.
Waits == Receives \union DOMAIN Awaited

\* The requests under way, and the service that makes them.
QueueOK ==
  /\ toDevice \in Seq(Requests)
  /\ \A i \in 1..Len(toDevice) : toDevice[i].kind = "start" => toDevice[i].class # "none"
  /\ conn = "lost" => toDevice = <<>> /\ devClass = "none"
  /\ service # "mobilesync" => devClass = "none"
  /\ pc \in {"receive", "reply"} => call \in CallsOf[service]
  /\ pc = "receive" => call \in Waits

SessionOf == Agrees(toDevice, devClass, ClientClass)
IInv == TypeOK /\ QueueOK /\ SessionOf

-----------------------------------------------------------------------------
(* The requests under way                                                  *)

LEMMA AppendFacts ==
  ASSUME NEW S, NEW q \in Seq(S), NEW m \in S
  PROVE  /\ Append(q, m) \in Seq(S) /\ Len(Append(q, m)) = Len(q) + 1 /\ Len(q) \in Nat
         /\ \A i \in 1..Len(q) : Append(q, m)[i] = q[i]
         /\ Append(q, m)[Len(q) + 1] = m
OBVIOUS

LEMMA TailFacts ==
  ASSUME NEW S, NEW q \in Seq(S), q # <<>>
  PROVE  /\ Tail(q) \in Seq(S) /\ Len(q) \in Nat \ {0} /\ Len(Tail(q)) = Len(q) - 1
         /\ \A i \in 1..Len(Tail(q)) : i + 1 \in 1..Len(q) /\ Tail(q)[i] = q[i + 1]
         /\ Head(q) = q[1] /\ Head(q) \in S
OBVIOUS

\* Nothing under way.
LEMMA AgreesEmpty == \A c : Agrees(<<>>, "none", c)
BY DEF Agrees

\* A request that neither begins nor ends a session, one that begins one, one that ends it.
LEMMA AgreesAppend ==
  ASSUME NEW q \in Seq(Requests), NEW d, NEW c, NEW m \in Requests, Agrees(q, d, c),
         \A i \in 1..Len(q) : q[i].kind = "start" => q[i].class # "none"
  PROVE  /\ m.kind # "start" /\ ~Ends(m) => Agrees(Append(q, m), d, c)
         /\ m.kind = "start" /\ c = "none" => Agrees(Append(q, m), d, m.class)
         /\ Ends(m) => \A e : Agrees(Append(q, m), d, e)
<1> DEFINE a == Append(q, m)
<1>1. /\ Len(a) = Len(q) + 1 /\ Len(q) \in Nat
      /\ \A i \in 1..Len(q) : a[i] = q[i] /\ i \in 1..Len(a) /\ i < Len(a)
      /\ a[Len(a)] = m /\ Len(a) \in 1..Len(a)
      /\ \A i \in 1..Len(a) : i = Len(a) \/ i \in 1..Len(q)
      BY AppendFacts
<1> HIDE DEF a
<1>2. ASSUME ~Ends(m) PROVE (\A i \in 1..Len(a) : ~Ends(a[i])) => \A i \in 1..Len(q) : ~Ends(q[i])
      BY <1>1
<1>3. ASSUME NEW i \in 1..Len(q), \A j \in 1..Len(a) : j > i => ~Ends(a[j])
      PROVE  a[i] = q[i] /\ ~Ends(m) /\ \A j \in 1..Len(q) : j > i => ~Ends(q[j])
      BY <1>1, <1>3
<1>4. ASSUME m.kind # "start", ~Ends(m) PROVE Agrees(a, d, c)
      BY <1>1, <1>3, <1>4 DEF Agrees
<1>5. ASSUME m.kind = "start", c = "none" PROVE Agrees(a, d, m.class)
  <2>1. ~Ends(m)
        BY <1>5 DEF Ends
  <2>2. d # "none" => \E i \in 1..Len(q) : Ends(q[i])
        BY <1>5 DEF Agrees
  <2>3. d # "none" => \E i \in 1..Len(a) : Ends(a[i])
        BY <1>1, <2>2
  <2>4. ASSUME NEW i \in 1..Len(q), a[i].kind = "start", \A j \in 1..Len(a) : j > i => ~Ends(a[j])
        PROVE  FALSE
        BY <1>1, <1>3, <1>5, <2>4 DEF Agrees
  <2> QED BY <1>1, <2>3, <2>4 DEF Agrees
<1>6. ASSUME Ends(m), NEW e PROVE Agrees(a, d, e)
  <2>1. m.kind # "start"
        BY <1>6 DEF Ends
  <2>2. \E i \in 1..Len(a) : Ends(a[i])
        BY <1>1, <1>6
  <2>3. ASSUME NEW i \in 1..Len(a), a[i].kind = "start", \A j \in 1..Len(a) : j > i => ~Ends(a[j])
        PROVE  FALSE
        BY <1>1, <1>3, <1>6, <2>1, <2>3
  <2> QED BY <2>2, <2>3 DEF Agrees
<1> QED BY <1>4, <1>5, <1>6 DEF a

\* The device reads a request: it stays in its session, begins one, or is in none.
LEMMA AgreesTail ==
  ASSUME NEW q \in Seq(Requests), NEW d, NEW c, q # <<>>, Agrees(q, d, c)
  PROVE  /\ ~Ends(Head(q)) => Agrees(Tail(q), d, c)
         /\ Head(q).kind = "start" => Agrees(Tail(q), Head(q).class, c)
         /\ Agrees(Tail(q), "none", c)
<1> DEFINE t == Tail(q)
<1>1. /\ Len(t) = Len(q) - 1 /\ Len(q) \in Nat \ {0} /\ Head(q) = q[1] /\ 1 \in 1..Len(q)
      /\ \A i \in 1..Len(t) : i + 1 \in 1..Len(q) /\ t[i] = q[i + 1]
      BY TailFacts
<1> HIDE DEF t
<1>2. \A i \in 1..Len(q) : i = 1 \/ (i - 1 \in 1..Len(t) /\ t[i - 1] = q[i])
      BY <1>1
<1>3. ASSUME ~Ends(q[1]), \A i \in 1..Len(t) : ~Ends(t[i]) PROVE \A i \in 1..Len(q) : ~Ends(q[i])
      BY <1>2, <1>3
<1>4. ASSUME NEW i \in 1..Len(t), t[i].kind = "start", \A j \in 1..Len(t) : j > i => ~Ends(t[j])
      PROVE  t[i].class = c
  <2>1. i + 1 \in 1..Len(q) /\ t[i] = q[i + 1]
        BY <1>1
  <2>2. ASSUME NEW j \in 1..Len(q), j > i + 1 PROVE ~Ends(q[j])
    <3>1. j - 1 \in 1..Len(t) /\ t[j - 1] = q[j] /\ j - 1 > i
          BY <1>1, <1>2, <2>2
    <3> QED BY <1>4, <3>1
  <2> QED BY <1>4, <2>1, <2>2 DEF Agrees
<1>5. ASSUME q[1].kind = "start", \A i \in 1..Len(t) : ~Ends(t[i]) PROVE q[1].class = c
  <2>1. \A j \in 1..Len(q) : j > 1 => ~Ends(q[j])
        BY <1>2, <1>5
  <2> QED BY <1>1, <1>5, <2>1 DEF Agrees
<1>6. Agrees(t, "none", c)
      BY <1>4 DEF Agrees
<1>7. ASSUME ~Ends(q[1]) PROVE Agrees(t, d, c)
      BY <1>3, <1>4, <1>7 DEF Agrees
<1>8. ASSUME q[1].kind = "start" PROVE Agrees(t, q[1].class, c)
      BY <1>4, <1>5, <1>8 DEF Agrees
<1> QED BY <1>1, <1>6, <1>7, <1>8 DEF t

-----------------------------------------------------------------------------
(* The types                                                               *)

\* The calls and what they are called with.
LEMMA CallFacts ==
  /\ SyncCalls \subseteq Calls /\ \A s \in Services : CallsOf[s] \subseteq Calls
  /\ \A s \in Services : s # "mobilesync" => CallsOf[s] \cap (SyncCalls \union {"start", "cancel", "finish"}) = {}
  /\ CallsOf["mobilesync"] = SyncCalls /\ "start" \in SyncCalls /\ "complete" \notin SyncCalls
BY ConstAssumption DEF Calls, CallsOf, SyncCalls

LEMMA InitIInv == Init => IInv
<1> SUFFICES ASSUME Init PROVE IInv
    OBVIOUS
<1>1. TypeOK
  <2>1. typed \in BOOLEAN /\ behind \in BOOLEAN /\ asked \in BOOLEAN
        BY Zenon DEF Init
  <2>2. calls \in 0..MaxCalls
        BY ConstAssumption DEF Init
  <2>3. /\ service \in Services /\ version \in DeviceVersions /\ parent = "none" /\ conn = "open"
        /\ pc = "idle" /\ call = "none" /\ stage = "greet" /\ dataClass = "none" /\ class = "none"
        /\ devClass = "none" /\ direction = "deviceToComputer"
        BY DEF Init
  <2> QED BY <2>1, <2>2, <2>3 DEF TypeOK
<1>2. QueueOK
      BY DEF Init, QueueOK
<1>3. SessionOf
      BY AgreesEmpty DEF Init, SessionOf
<1> QED BY <1>1, <1>2, <1>3 DEF IInv

\* The version of the device is accepted, and the answer goes out, or the client ends.
LEMMA VersionMoves ==
  ASSUME NEW r, ReceiveVersion(r)
  PROVE  \/ /\ conn = "open" /\ toDevice' = Sent("versionsOk", "none") /\ pc' = "deviceReady"
            /\ UNCHANGED <<parent, dataClass, direction, conn, devClass, asked>>
         \/ \E e : Close(e)
<1> DEFINE e == IF r = Nothing THEN ReceiveError ELSE IF r.kind # "version" THEN "PLIST_ERROR"
                ELSE IF Newer THEN "BAD_VERSION" ELSE SendError
<1>1. IF e = "SUCCESS"
      THEN /\ toDevice' = Sent("versionsOk", "none") /\ pc' = "deviceReady"
           /\ UNCHANGED <<parent, syncVars, ret, conn, devClass, asked>>
      ELSE Close(e)
      BY DEF ReceiveVersion
<1>2. e = "SUCCESS" => conn = "open"
      BY DEF ReceiveError, SendError
<1> HIDE DEF e
<1> QED BY <1>1, <1>2 DEF syncVars

LEMMA HandshakeType ==
  ASSUME TypeOK, \/ New \/ Free
                 \/ \E r \in Messages : ReceiveVersion(r) \/ ReceiveReady(r)
  PROVE  TypeOK'
<1>1. CASE New
  <2>1. calls' \in 0..MaxCalls
        BY <1>1, ConstAssumption DEF New, TypeOK
  <2>2. typed' \in BOOLEAN /\ behind' \in BOOLEAN /\ asked' \in BOOLEAN
        BY <1>1, Zenon DEF New, TypeOK
  <2>3. /\ UNCHANGED <<service, version, class>> /\ parent' = "open" /\ conn' = "open" /\ pc' = "version"
        /\ call' = "new" /\ stage' = "greet" /\ dataClass' = "none" /\ devClass' = "none"
        /\ direction' = "deviceToComputer"
        BY <1>1 DEF New
  <2> QED BY <2>1, <2>2, <2>3 DEF TypeOK
<1>2. CASE Free
  <2>1. calls' \in 0..MaxCalls
        BY <1>2, ConstAssumption DEF Free, TypeOK
  <2>2. typed' \in BOOLEAN /\ behind' \in BOOLEAN /\ asked' \in BOOLEAN
        BY <1>2, Zenon DEF Free, Close, TypeOK
  <2>3. /\ UNCHANGED <<service, version, class, stage>> /\ parent' = "none" /\ conn' = "lost" /\ pc' = "idle"
        /\ call' = "free" /\ dataClass' = "none" /\ devClass' = "none" /\ direction' = "deviceToComputer"
        BY <1>2 DEF Free, Close
  <2> QED BY <2>1, <2>2, <2>3 DEF TypeOK
<1>3. CASE \E r \in Messages : ReceiveVersion(r)
  <2>1. PICK r \in Messages : ReceiveVersion(r)
        BY <1>3
  <2>2. UNCHANGED <<service, version, call, typed, class, calls, behind, stage>> /\ pc = "version"
        BY <2>1 DEF ReceiveVersion, callVars
  <2>3. \/ /\ pc' = "deviceReady" /\ UNCHANGED <<parent, dataClass, direction, conn, devClass, asked>>
        \/ \E e : Close(e)
        BY <2>1, VersionMoves
  <2> QED BY <2>2, <2>3 DEF TypeOK, Close
<1>4. CASE \E r \in Messages : ReceiveReady(r)
  <2>1. PICK r \in Messages : ReceiveReady(r)
        BY <1>4
  <2>2. UNCHANGED <<service, version, call, typed, class, calls, behind, stage>>
        BY <2>1 DEF ReceiveReady, callVars
  <2>3. \/ /\ pc' = "idle" /\ UNCHANGED <<parent, dataClass, direction, conn, devClass, asked>>
        \/ \E e : Close(e)
        BY <2>1 DEF ReceiveReady, syncVars
  <2> QED BY <2>2, <2>3 DEF TypeOK, Close
<1> QED BY <1>1, <1>2, <1>3, <1>4

LEMMA CallType ==
  ASSUME TypeOK, NEW op \in Calls, NEW c \in ClassOrNone, NEW t \in BOOLEAN, Call(op, c, t)
  PROVE  TypeOK'
<1>1. /\ UNCHANGED <<service, version, parent, conn, stage, devClass, asked>>
      /\ call' = op /\ class' = c /\ calls' = calls + 1 /\ calls < MaxCalls
      BY DEF Call, devVars
<1>2. typed' \in BOOLEAN
      BY DEF Call
<1>3. pc' \in {"idle", "receive"} /\ (pc' # "idle" => parent = "open")
      BY DEF Call, Refusal, TypeOK
<1>4. dataClass' \in ClassOrNone /\ direction' \in {"deviceToComputer", "computerToDevice"}
      BY DEF Call, Session, TypeOK, ClassOrNone, syncVars
<1>5. behind' \in BOOLEAN
  <2>1. behind' = behind \/ behind' = (behind \/ (op = "cancel" /\ (inbox # <<>> \/ toDevice # <<>>)))
        BY DEF Call
  <2> QED BY <2>1, Zenon DEF TypeOK
<1>6. calls' \in 0..MaxCalls
      BY <1>1, ConstAssumption DEF TypeOK
<1> QED BY <1>1, <1>2, <1>3, <1>4, <1>5, <1>6 DEF TypeOK, ClassOrNone

LEMMA AnswerType ==
  ASSUME TypeOK, NEW r \in Messages, ReceiveAnswer(r)
  PROVE  TypeOK'
<1>1. /\ UNCHANGED <<service, version, call, typed, class, calls, stage, devClass, asked>>
      /\ conn' \in {conn, "lost"}
      BY DEF ReceiveAnswer, TypeOK, devVars, callVars
<1>2. pc' \in {"idle", "reply"} /\ parent = "open" /\ parent' \in {"open", "null"} /\ (pc' # "idle" => parent' = "open")
      BY DEF ReceiveAnswer, TypeOK
<1>3. dataClass' \in ClassOrNone /\ direction' \in {"deviceToComputer", "computerToDevice"}
      BY DEF ReceiveAnswer, Session, TypeOK, ClassOrNone, syncVars, callVars
<1>4. behind' \in BOOLEAN
      BY Zenon DEF ReceiveAnswer, TypeOK
<1> QED BY <1>1, <1>2, <1>3, <1>4 DEF TypeOK, ClassOrNone

LEMMA OtherType ==
  ASSUME TypeOK, QueueOK, Reply \/ DeviceGreet \/ DeviceAnswer \/ DeviceCancel \/ DeviceLost \/ UNCHANGED vars
  PROVE  TypeOK'
<1>1. CASE Reply
      BY <1>1 DEF TypeOK, Reply, callVars, devVars
<1>2. CASE DeviceGreet
      BY <1>2 DEF TypeOK, DeviceGreet, callVars, syncVars
<1>3. CASE DeviceAnswer
  <2>1. UNCHANGED <<service, version, parent, dataClass, direction, pc, call, typed, class, calls, conn, behind>>
        BY <1>3 DEF DeviceAnswer, callVars, syncVars
  <2>2. stage' \in {stage, "ready"}
        BY <1>3 DEF DeviceAnswer
  <2>3. devClass' \in ClassOrNone /\ asked' \in BOOLEAN
    <3>1. Head(toDevice) \in Requests
          BY <1>3, TailFacts DEF DeviceAnswer, QueueOK
    <3>2. Head(toDevice).class \in ClassOrNone
          BY <3>1 DEF Requests
    <3> HIDE DEF ClassOrNone
    <3>3. devClass' \in {devClass, "none", Head(toDevice).class} /\ asked' \in {asked, TRUE, FALSE}
          BY <1>3 DEF DeviceAnswer, SyncAnswer, OtherAnswer
    <3> QED BY <3>2, <3>3 DEF TypeOK, ClassOrNone
  <2> QED BY <2>1, <2>2, <2>3 DEF TypeOK, ClassOrNone
<1>4. CASE DeviceCancel \/ DeviceLost
      BY <1>4 DEF TypeOK, DeviceCancel, DeviceLost, callVars, syncVars
<1>5. CASE UNCHANGED vars
      BY <1>5 DEF TypeOK, vars, callVars, syncVars, devVars
<1> QED BY <1>1, <1>2, <1>3, <1>4, <1>5

-----------------------------------------------------------------------------
(* The session                                                             *)

\* A request under way.
LEMMA SentFacts ==
  ASSUME NEW k \in Calls \union {"versionsOk", "ping", "backupOk"}, NEW c \in ClassOrNone, calls' \in 0..MaxCalls
  PROVE  [kind |-> k, to |-> calls', class |-> c] \in Requests
BY DEF Requests

LEMMA ConnectSession ==
  ASSUME IInv, New \/ Free \/ DeviceLost
  PROVE  QueueOK' /\ SessionOf'
<1>1. toDevice' = <<>> /\ devClass' = "none" /\ pc' \in {"version", "idle", pc} /\ service' = service
      /\ (pc' \in {"receive", "reply"} => call' = call /\ pc' = pc)
      BY DEF New, Free, Close, DeviceLost, callVars
<1>2. QueueOK'
      BY <1>1 DEF QueueOK, IInv
<1>3. SessionOf'
      BY <1>1, AgreesEmpty DEF SessionOf
<1> QED BY <1>2, <1>3

LEMMA VersionSession ==
  ASSUME IInv, NEW r \in Messages, ReceiveVersion(r) \/ ReceiveReady(r)
  PROVE  QueueOK' /\ SessionOf'
<1>1. pc \notin {"receive", "reply"} /\ pc' \notin {"receive", "reply"} /\ service' = service /\ calls' = calls
      BY DEF ReceiveVersion, ReceiveReady, Close, callVars
<1>2. CASE toDevice' = <<>> /\ devClass' = "none"
  <2>1. QueueOK'
        BY <1>1, <1>2 DEF QueueOK
  <2>2. SessionOf'
        BY <1>2, AgreesEmpty DEF SessionOf
  <2> QED BY <2>1, <2>2
<1>3. CASE UNCHANGED <<toDevice, devClass, dataClass, conn>>
      BY <1>1, <1>3 DEF IInv, QueueOK, SessionOf, ClientClass
<1>4. CASE /\ conn = "open" /\ UNCHANGED <<devClass, dataClass, conn>>
           /\ toDevice' = Append(toDevice, [kind |-> "versionsOk", to |-> calls', class |-> "none"])
  <2> DEFINE m == [kind |-> "versionsOk", to |-> calls', class |-> "none"]
  <2>1. m \in Requests /\ m.kind = "versionsOk"
        BY <1>1 DEF Requests, ClassOrNone, IInv, TypeOK
  <2> HIDE DEF m
  <2>2. toDevice' \in Seq(Requests) /\ \A i \in 1..Len(toDevice') : toDevice'[i].kind = "start" => toDevice'[i].class # "none"
        BY <1>4, <2>1, AppendFacts DEF m, IInv, QueueOK
  <2>3. Agrees(toDevice', devClass, ClientClass)
        BY <1>4, <2>1, AgreesAppend DEF m, IInv, QueueOK, SessionOf, Ends
  <2> QED BY <1>1, <1>4, <2>2, <2>3 DEF IInv, QueueOK, SessionOf, ClientClass
<1> QED
  <2>1. CASE ReceiveVersion(r)
    <3>1. CASE \E e : Close(e)
          BY <1>2, <3>1 DEF Close
    <3>2. CASE conn = "open" /\ toDevice' = Sent("versionsOk", "none") /\ UNCHANGED <<dataClass, conn, devClass>>
          BY <1>4, <3>2 DEF Sent
    <3> QED BY <2>1, <3>1, <3>2, VersionMoves
  <2>2. CASE ReceiveReady(r)
        BY <1>2, <1>3, <2>2 DEF ReceiveReady, Close, syncVars
  <2> QED BY <2>1, <2>2

\* The requests of a call, and the session that the client then expects.
LEMMA CallSession ==
  ASSUME IInv, NEW op \in CallsOf[service], NEW c \in ClassOrNone, NEW t \in BOOLEAN, Call(op, c, t),
         op = "start" => c # "none"
  PROVE  QueueOK' /\ SessionOf'
<1> DEFINE m == [kind |-> op, to |-> calls', class |-> c]
<1>1. /\ pc = "idle" /\ UNCHANGED <<service, conn, devClass>> /\ call' = op /\ class' = c
      /\ calls' \in 0..MaxCalls /\ op \in Calls
      BY CallFacts, ConstAssumption DEF Call, devVars, IInv, TypeOK
<1>2. m \in Requests
      BY <1>1, SentFacts
<1>3. toDevice' \in {toDevice, Append(toDevice, m)} /\ (toDevice' # toDevice => conn = "open")
      BY DEF Call, Sent
<1>4. QueueOK'
  <2>1. toDevice' \in Seq(Requests) /\ \A i \in 1..Len(toDevice') : toDevice'[i].kind = "start" => toDevice'[i].class # "none"
    <3>1. m.kind = "start" => m.class # "none"
          OBVIOUS
    <3> HIDE DEF m
    <3> QED BY <1>2, <1>3, <3>1, AppendFacts DEF IInv, QueueOK
  <2>2. conn' = "lost" => toDevice' = <<>> /\ devClass' = "none"
        BY <1>1, <1>3 DEF IInv, QueueOK, TypeOK
  <2>3. pc' = "receive" => op \in Waits
        BY <1>1 DEF Call, Waits
  <2> QED BY <1>1, <2>1, <2>2, <2>3 DEF QueueOK, IInv
<1>5. /\ m.kind # "start" /\ ~Ends(m) => Agrees(Append(toDevice, m), devClass, dataClass)
      /\ m.kind = "start" /\ dataClass = "none" => Agrees(Append(toDevice, m), devClass, m.class)
      /\ Ends(m) => \A e : Agrees(Append(toDevice, m), devClass, e)
      /\ Agrees(toDevice, devClass, dataClass)
  <2>1. Agrees(toDevice, devClass, dataClass)
        BY <1>1 DEF IInv, SessionOf, ClientClass
  <2> HIDE DEF m
  <2> QED BY <1>2, <2>1, AgreesAppend DEF IInv, QueueOK
<1>6. m.kind = op /\ m.class = c
      OBVIOUS
<1> HIDE DEF m
<1>7. ASSUME Refusal(op) # "none" PROVE SessionOf'
      BY <1>1, <1>5, <1>7 DEF Call, SessionOf, ClientClass, syncVars
<1>8. ASSUME Refusal(op) = "none" PROVE SessionOf'
  <2>1. op \in SyncCalls => (op # "start" <=> dataClass # "none")
        BY <1>8 DEF Refusal
  <2>2. toDevice' = IF op \in Receives \/ conn # "open" THEN toDevice ELSE Append(toDevice, m)
        BY <1>8 DEF Call, Sent, m
  <2>3. CASE op = "start"
    <3>1. dataClass = "none" /\ op \notin Receives
          BY <2>1, <2>3, CallFacts DEF Receives
    <3>2. CASE conn = "open"
      <4>1. pc' = "receive" /\ ClientClass' = c
            BY <1>1, <1>8, <2>3, <3>1, <3>2 DEF Call, Awaited, ClientClass
      <4> QED BY <1>1, <1>5, <1>6, <2>2, <2>3, <3>1, <3>2, <4>1 DEF SessionOf
    <3>3. CASE conn # "open"
      <4>1. toDevice' = <<>> /\ devClass' = "none"
            BY <1>1, <2>2, <3>3 DEF IInv, QueueOK, TypeOK
      <4> QED BY <4>1, AgreesEmpty DEF SessionOf
    <3> QED BY <3>2, <3>3
  <2>4. CASE op \in {"finish", "cancel"}
    <3>1. op \notin Receives
          BY <2>4 DEF Receives
    <3>2. CASE conn = "open"
          BY <1>1, <1>5, <1>6, <2>2, <2>4, <3>1, <3>2 DEF SessionOf, Ends
    <3>3. CASE conn # "open"
      <4>1. toDevice' = <<>> /\ devClass' = "none"
            BY <1>1, <2>2, <3>3 DEF IInv, QueueOK, TypeOK
      <4> QED BY <4>1, AgreesEmpty DEF SessionOf
    <3> QED BY <3>2, <3>3
  <2>5. CASE op \notin {"start", "finish", "cancel"}
    <3>1. dataClass' = dataClass
          BY <1>8, <2>5 DEF Call, Session, syncVars
    <3>2. ClientClass' = dataClass
          BY <1>1, <2>5, <3>1 DEF ClientClass
    <3> QED BY <1>1, <1>3, <1>5, <1>6, <2>5, <3>2 DEF SessionOf, Ends
  <2> QED BY <2>3, <2>4, <2>5
<1> QED BY <1>4, <1>7, <1>8

\* The answer of a call: the session of the client is what the call makes of it, and the
\* requests under way stay.
LEMMA AnswerSession ==
  ASSUME IInv, NEW r \in Messages, ReceiveAnswer(r)
  PROVE  QueueOK' /\ SessionOf'
<1>1. /\ pc = "receive" /\ UNCHANGED <<service, call, class, devClass>>
      /\ pc' \in {"idle", "reply"}
      BY DEF ReceiveAnswer, callVars, devVars
<1>2. CASE parent' # "null"
  <2>1. UNCHANGED <<toDevice, conn>>
        BY <1>2 DEF ReceiveAnswer
  <2>2. ClientClass' = ClientClass
    <3>1. pc' = "reply" => call \in {"ready", "backup"} /\ dataClass' = dataClass
          BY DEF ReceiveAnswer, syncVars
    <3>2. pc' = "idle" => dataClass' = IF call = "start" THEN class ELSE IF call \in {"finish", "cancel"} THEN "none" ELSE dataClass
          BY <1>1 DEF ReceiveAnswer, Session, syncVars
    <3>3. call = "cancel" => FALSE
          BY <1>1 DEF IInv, QueueOK, Waits, Receives, Awaited
    <3> QED BY <1>1, <3>1, <3>2, <3>3 DEF ClientClass
  <2> QED BY <1>1, <2>1, <2>2 DEF IInv, QueueOK, SessionOf
<1>3. CASE parent' = "null"
  <2>1. toDevice' = <<>> /\ conn' = "lost" /\ call = "complete"
        BY <1>1, <1>3 DEF ReceiveAnswer, IInv, TypeOK
  <2>2. devClass = "none"
        BY <1>1, <2>1, CallFacts DEF IInv, QueueOK
  <2> QED BY <1>1, <2>1, <2>2, AgreesEmpty DEF IInv, QueueOK, SessionOf
<1> QED BY <1>2, <1>3

LEMMA ReplySession ==
  ASSUME IInv, Reply
  PROVE  QueueOK' /\ SessionOf'
<1>1. /\ pc = "reply" /\ pc' = "idle" /\ UNCHANGED <<service, dataClass, conn, devClass, calls>>
      BY DEF Reply, callVars, devVars
<1>2. CASE toDevice' = toDevice
      BY <1>1, <1>2 DEF IInv, QueueOK, SessionOf, ClientClass
<1>3. CASE conn = "open" /\ \E k \in {"ping", "backupOk"} :
             toDevice' = Append(toDevice, [kind |-> k, to |-> calls', class |-> "none"])
  <2>1. PICK k \in {"ping", "backupOk"} : toDevice' = Append(toDevice, [kind |-> k, to |-> calls', class |-> "none"])
        BY <1>3
  <2> DEFINE m == [kind |-> k, to |-> calls', class |-> "none"]
  <2>2. m \in Requests /\ m.kind = k
        BY <1>1 DEF Requests, ClassOrNone, IInv, TypeOK
  <2> HIDE DEF m
  <2>3. toDevice' \in Seq(Requests) /\ \A i \in 1..Len(toDevice') : toDevice'[i].kind = "start" => toDevice'[i].class # "none"
        BY <2>1, <2>2, AppendFacts DEF m, IInv, QueueOK
  <2>4. Agrees(toDevice', devClass, ClientClass)
        BY <2>1, <2>2, AgreesAppend DEF m, IInv, QueueOK, SessionOf, Ends
  <2> QED BY <1>1, <1>3, <2>3, <2>4 DEF IInv, QueueOK, SessionOf, ClientClass
<1> QED BY <1>2, <1>3 DEF Reply, Sent

\* The device reads a request, or ends the session itself.
LEMMA DeviceSession ==
  ASSUME IInv, DeviceAnswer \/ DeviceGreet \/ DeviceCancel \/ UNCHANGED vars
  PROVE  QueueOK' /\ SessionOf'
<1>1. /\ UNCHANGED <<service, pc, call, class, dataClass, conn>> /\ ClientClass' = ClientClass
      BY DEF DeviceAnswer, DeviceGreet, DeviceCancel, vars, callVars, syncVars, ClientClass
<1>2. CASE DeviceAnswer
  <2>1. toDevice # <<>> /\ toDevice' = Tail(toDevice) /\ conn = "open" /\ toDevice \in Seq(Requests)
        BY <1>2 DEF DeviceAnswer, IInv, QueueOK
  <2>2. \/ devClass' = devClass /\ ~Ends(Head(toDevice))
        \/ devClass' = "none"
        \/ devClass' = Head(toDevice).class /\ Head(toDevice).kind = "start" /\ service = "mobilesync"
    <3>1. Head(toDevice).kind = "versionsOk" => devClass' = devClass /\ ~Ends(Head(toDevice))
          BY <1>2 DEF DeviceAnswer, Ends
    <3>2. CASE SyncAnswer(Head(toDevice)) /\ service = "mobilesync"
          BY <3>2 DEF SyncAnswer, Ends
    <3>3. CASE service # "mobilesync"
          BY <1>2, <3>3 DEF DeviceAnswer, OtherAnswer, IInv, QueueOK
    <3> QED BY <1>2, <3>1, <3>2, <3>3 DEF DeviceAnswer
  <2>3. toDevice' \in Seq(Requests) /\ \A i \in 1..Len(toDevice') : toDevice'[i].kind = "start" => toDevice'[i].class # "none"
        BY <2>1, TailFacts DEF IInv, QueueOK
  <2>4. QueueOK'
        BY <1>1, <2>1, <2>2, <2>3 DEF IInv, QueueOK
  <2>5. SessionOf'
        BY <1>1, <2>1, <2>2, AgreesTail DEF IInv, SessionOf
  <2> QED BY <2>4, <2>5
<1>3. CASE DeviceCancel
  <2>1. toDevice' = toDevice /\ devClass' = "none"
        BY <1>3 DEF DeviceCancel
  <2>2. Agrees(toDevice, "none", ClientClass)
        BY DEF IInv, SessionOf, Agrees
  <2> QED BY <1>1, <2>1, <2>2 DEF IInv, QueueOK, SessionOf
<1>4. CASE DeviceGreet \/ UNCHANGED vars
  <2>1. UNCHANGED <<toDevice, devClass>>
        BY <1>4 DEF DeviceGreet, vars, devVars
  <2> QED BY <1>1, <2>1 DEF IInv, QueueOK, SessionOf
<1> QED BY <1>2, <1>3, <1>4

LEMMA StepIInv == IInv /\ [Next]_vars => IInv'
<1> SUFFICES ASSUME IInv, [Next]_vars PROVE IInv'
    OBVIOUS
<1>1. ASSUME NEW c \in DataClasses, NEW t \in BOOLEAN, service = "mobilesync", Call("start", c, t)
      PROVE  IInv'
  <2>1. "start" \in Calls /\ "start" \in CallsOf[service] /\ c \in ClassOrNone /\ c # "none"
        BY <1>1, CallFacts, ConstAssumption DEF ClassOrNone
  <2> QED BY <1>1, <2>1, CallType, CallSession DEF IInv
<1>2. ASSUME NEW op \in CallsOf[service] \ {"start"}, Call(op, "none", FALSE)
      PROVE  IInv'
  <2>1. op \in Calls /\ "none" \in ClassOrNone
        BY CallFacts DEF ClassOrNone, IInv, TypeOK
  <2> QED BY <1>2, <2>1, CallType, CallSession DEF IInv
<1>3. CASE New \/ Free \/ \E r \in Messages : ReceiveVersion(r) \/ ReceiveReady(r)
      BY <1>3, HandshakeType, ConnectSession, VersionSession DEF IInv
<1>4. CASE \E r \in Messages : ReceiveAnswer(r)
      BY <1>4, AnswerType, AnswerSession DEF IInv
<1>5. CASE Reply \/ DeviceGreet \/ DeviceAnswer \/ DeviceCancel \/ DeviceLost \/ UNCHANGED vars
      BY <1>5, OtherType, ReplySession, DeviceSession, ConnectSession DEF IInv
<1> QED BY <1>1, <1>2, <1>3, <1>4, <1>5 DEF Next

\* The client never forgets a session that its device is in, whatever calls failed, timed
\* out or were answered late.
THEOREM Safety == Spec => []Inv
<1>1. IInv => Inv
  <2>1. IInv => SessionKnown
        BY DEF IInv, QueueOK, SessionOf, Agrees, SessionKnown, ClientClass, Ends
  <2> QED BY <2>1 DEF IInv, Inv
<1> QED BY <1>1, InitIInv, StepIInv, PTL DEF Spec

-----------------------------------------------------------------------------
(* Answers and their requests                                              *)

AnswerKinds == {"version", "deviceReady", "started", "refused", "finished", "changes", "willClear",
                "remap", "readyToReceive", "cancelled", "backupOk", "restoreOk", "restored",
                "disconnect", "response", "image", "failure", "file"}
Answers == [kind : AnswerKinds, to : 0..MaxCalls, newer : BOOLEAN]

\* The calls that make a request and wait for its answer; a finish takes what comes.
OwnCalls == {"start", "clear", "backup", "restore", "complete", "hello", "screenshot"}
AnswersOf(op) == IF op = "start" THEN {"started", "refused"} ELSE {Awaited[op]}

\* An answer to op that nobody has read; a request op that the device will still answer: it
\* ignores a clear that it reads outside a session.
Has(op, i) == i \in 1..Len(inbox) /\ inbox[i].kind \in AnswersOf(op)
Dead(i) == /\ toDevice[i].kind = "clear" /\ devClass = "none"
           /\ \A j \in 1..Len(toDevice) : j < i => toDevice[j].kind # "start"
Waiting(op, i) == i \in 1..Len(toDevice) /\ toDevice[i].kind = op /\ ~Dead(i)
InProgress(op) == pc = "receive" /\ call = op

\* Of each call at most one request or answer is under way.
Single(op) ==
  /\ \A i, j \in Nat : Has(op, i) /\ Has(op, j) => i = j
  /\ \A i, j \in Nat : Waiting(op, i) /\ Waiting(op, j) => i = j
  /\ \A i, j \in Nat : ~(Has(op, i) /\ Waiting(op, j))

\* It is of the call in progress.
Numbered(op) ==
  InProgress(op) => /\ \A i \in Nat : Has(op, i) => inbox[i].to = calls
                    /\ \A i \in Nat : Waiting(op, i) => toDevice[i].to = calls

\* Without a call in progress there is none, but for a start.
OwnOnly(op) == op # "start" /\ ~InProgress(op) => \A i \in Nat : ~Has(op, i) /\ ~Waiting(op, i)

\* A start that was over when the device had cancelled the session before: the answer of
\* the device is the next message that it sends.
CancelsBefore(i) == \A j \in 1..Len(toDevice) : j < i => toDevice[j].kind = "cancel"
LeftStart ==
  ~InProgress("start") =>
    \A i \in Nat : /\ Has("start", i) => i = 1 /\ dataClass # "none"
                   /\ Waiting("start", i) =>
                        inbox = <<>> /\ dataClass # "none" /\ devClass = "none" /\ CancelsBefore(i)

\* A start in progress: the session before is over, or a cancel of the client will end it.
OpenStart ==
  InProgress("start") =>
    \A i \in Nat :
      /\ Waiting("start", i) =>
           /\ devClass # "none" => inbox = <<>> /\ i > 1 /\ CancelsBefore(i)
           /\ inbox # <<>> /\ inbox[1].kind = "cancelled" => Len(inbox) = 1 /\ CancelsBefore(i)
      /\ Has("start", i) /\ inbox[1].kind = "cancelled" => i = 2

\* The client is in no session.
OnlyCancels == \A i \in 1..Len(toDevice) : toDevice[i].kind = "cancel"
BetweenSessions ==
  pc = "idle" /\ dataClass = "none" /\ service = "mobilesync" =>
    /\ devClass # "none" => inbox = <<>> /\ toDevice # <<>> /\ OnlyCancels
    /\ inbox # <<>> /\ inbox[1].kind = "cancelled" => Len(inbox) = 1 /\ OnlyCancels
    /\ \A i \in 1..Len(inbox) : inbox[i].kind # "readyToReceive"

\* After a message that ends a session the device sends none of it, until a start.
SessionOver ==
  \A i \in 1..Len(inbox) : inbox[i].kind \in {"cancelled", "finished", "refused"} =>
    \/ /\ devClass = "none"
       /\ \A j \in 1..Len(inbox) : j > i => inbox[j].kind \notin {"cancelled", "willClear", "readyToReceive"}
    \/ \E j \in 1..Len(inbox) : j > i /\ inbox[j].kind = "started"

\* Nothing allows the client to send changes.
NotReady == /\ direction = "deviceToComputer" /\ ~(pc = "reply" /\ call = "ready")
            /\ \A i \in 1..Len(inbox) : inbox[i].kind # "readyToReceive"
DirectionKnown ==
  /\ devClass # "none" /\ ~asked => NotReady
  /\ (\E i \in 1..Len(toDevice) : toDevice[i].kind = "start") => NotReady

\* The handshake comes before any request.
Greeting ==
  /\ stage = "greet" /\ parent # "none" => pc = "version" /\ inbox = <<>>
  /\ pc \in {"version", "deviceReady"} =>
       /\ call = "new" /\ devClass = "none" /\ dataClass = "none"
       /\ \A i \in 1..Len(inbox) : inbox[i].kind \in {"version", "deviceReady"}
       /\ \A i \in 1..Len(toDevice) : toDevice[i].kind = "versionsOk"

\* What a call in progress has begun with.
CallOK ==
  /\ inbox \in Seq(Answers)
  /\ pc = "receive" /\ call = "start" => class # "none"
  /\ pc \in {"receive", "reply"} /\ service = "mobilesync" /\ call # "start" => dataClass # "none"
  /\ pc = "reply" => call \in {"ready", "backup"}
  /\ dataClass = "none" \/ parent = "none" => direction = "deviceToComputer"

Streams ==
  (\A op \in OwnCalls : Single(op) /\ OwnOnly(op))
    /\ LeftStart /\ OpenStart /\ BetweenSessions /\ SessionOver /\ DirectionKnown
Taken ==
  pc = "reply" => answer.kind = Awaited[call] /\ (call = "backup" => answer.to = calls)
OwnInv ==
  ~behind /\ parent # "none" =>
    /\ \A op \in OwnCalls : Numbered(op)
    /\ Taken
    /\ conn = "open" => Streams
FullInv == IInv /\ CallOK /\ Greeting /\ OwnInv /\ AnswerOwn


LEMMA OwnFacts ==
  /\ AnswersOf("start") = {"started", "refused"} /\ AnswersOf("clear") = {"willClear"} /\ "start" \in OwnCalls
  /\ \A op \in OwnCalls : /\ op \notin Receives /\ op \notin {"finish", "cancel", "versionsOk", "ping", "backupOk"}
                          /\ op \in DOMAIN Awaited /\ Awaited[op] \in AnswersOf(op)
                          /\ "cancelled" \notin AnswersOf(op) /\ (op # "start" => AnswersOf(op) = {Awaited[op]})
BY DEF AnswersOf, OwnCalls, Receives, Awaited

\* What the device answers to what.
AnswerPairs ==
  {<<"versionsOk", "deviceReady">>, <<"start", "started">>, <<"start", "refused">>, <<"finish", "finished">>,
   <<"get", "changes">>, <<"clear", "willClear">>, <<"sendChanges", "remap">>,
   <<"acknowledge", "readyToReceive">>, <<"backup", "backupOk">>, <<"backup", "failure">>,
   <<"restore", "restoreOk">>, <<"restore", "failure">>, <<"hello", "response">>, <<"hello", "failure">>,
   <<"screenshot", "image">>, <<"screenshot", "failure">>, <<"complete", "disconnect">>, <<"send", "restored">>,
   <<"backupOk", "file">>, <<"fileReceived", "file">>, <<"error", "file">>, <<"request", "file">>,
   <<"status", "file">>}

LEMMA PairFacts ==
  ASSUME NEW k, NEW a, <<k, a>> \in AnswerPairs
  PROVE  /\ a \in AnswerKinds /\ a # "cancelled" /\ k # "cancel"
         /\ (a = "finished" => k = "finish") /\ (a \in {"started", "refused"} => k = "start")
         /\ \A op \in OwnCalls : a \in AnswersOf(op) => k = op
BY DEF AnswerPairs, AnswerKinds, OwnCalls, AnswersOf, Awaited

\* The session that the device is in when it answers with k.
SessionAfter(k) ==
  \/ k = "started" /\ devClass = "none" /\ ~asked'
  \/ k = "finished" /\ devClass' = "none"
  \/ k = "readyToReceive" /\ devClass # "none" /\ devClass' = devClass /\ asked'
  \/ k = "willClear" /\ devClass # "none" /\ UNCHANGED <<devClass, asked>>
  \/ k \notin {"started", "finished", "readyToReceive", "willClear"} /\ UNCHANGED <<devClass, asked>>

\* It answers a request with a message, with nothing, or twice with changes.
Answered(m) ==
  \/ inbox' = inbox /\ (devClass' = "none" \/ (m.kind # "cancel" /\ UNCHANGED <<devClass, asked>>))
  \/ \E a \in Answers : /\ inbox' = Append(inbox, a) /\ <<m.kind, a.kind>> \in AnswerPairs /\ a.to = m.to
                        /\ SessionAfter(a.kind)
  \/ \E a \in Answers : /\ inbox' = Append(Append(inbox, a), a) /\ m.kind = "get" /\ a.kind = "changes"
                        /\ UNCHANGED <<devClass, asked>>

LEMMA AnswerCases ==
  ASSUME IInv, inbox \in Seq(Answers), DeviceAnswer
  PROVE  Answered(Head(toDevice)) /\ Head(toDevice) \in Requests
<1>1. Head(toDevice) \in Requests /\ Head(toDevice).to \in 0..MaxCalls
  <2>1. Head(toDevice) \in Requests
        BY TailFacts DEF DeviceAnswer, IInv, QueueOK
  <2> QED BY <2>1 DEF Requests
<1> DEFINE m == Head(toDevice)
<1>2. \A k \in AnswerKinds, n \in BOOLEAN : [kind |-> k, to |-> m.to, newer |-> n] \in Answers
      BY <1>1 DEF Answers
<1> HIDE DEF m
<1>3. ASSUME NEW k, NEW n \in BOOLEAN, <<m.kind, k>> \in AnswerPairs, SessionAfter(k),
             inbox' = Append(inbox, [kind |-> k, to |-> m.to, newer |-> n])
      PROVE  Answered(m)
  <2> DEFINE a == [kind |-> k, to |-> m.to, newer |-> n]
  <2>1. a \in Answers /\ a.kind = k /\ a.to = m.to /\ inbox' = Append(inbox, a)
        BY <1>2, <1>3, PairFacts
  <2> HIDE DEF a
  <2> QED BY <1>3, <2>1, ZenonT(30) DEF Answered
<1>4. ASSUME NEW k, <<m.kind, k>> \in AnswerPairs, SessionAfter(k), inbox' = Said(m, k)
      PROVE  Answered(m)
      BY <1>3, <1>4 DEF Said, About
<1>5. ASSUME m.kind = "versionsOk" PROVE Answered(m)
  <2>1. inbox' = Said(m, "deviceReady") /\ SessionAfter("deviceReady") /\ <<m.kind, "deviceReady">> \in AnswerPairs
        BY <1>5 DEF m, DeviceAnswer, SessionAfter, AnswerPairs
  <2> QED BY <1>4, <2>1
<1>6. ASSUME SyncAnswer(m) PROVE Answered(m)
  <2>1. CASE inbox' = inbox
    <3>1. devClass' = "none" \/ (m.kind # "cancel" /\ UNCHANGED <<devClass, asked>>)
      <4>1. inbox' # Said(m, "started") /\ inbox' # Said(m, "refused") /\ inbox' # Said(m, "finished") /\ inbox' # Said(m, "readyToReceive")
            BY <2>1 DEF Said
      <4> QED BY <1>6, <4>1 DEF SyncAnswer
    <3> QED BY <2>1, <3>1 DEF Answered
  <2>2. CASE \E k \in {"started", "refused", "finished", "changes", "willClear", "remap", "readyToReceive"} :
             inbox' = Said(m, k) /\ <<m.kind, k>> \in AnswerPairs /\ SessionAfter(k)
        BY <1>4, <2>2
  <2>3. CASE /\ inbox' = Append(Said(m, "changes"), About(m, "changes")) /\ m.kind = "get"
             /\ UNCHANGED <<devClass, asked>>
    <3>1. About(m, "changes") \in Answers /\ About(m, "changes").kind = "changes"
          BY <1>2 DEF About, AnswerKinds
    <3> QED BY <2>3, <3>1 DEF Answered, Said
  <2> QED BY <1>6, <2>1, <2>2, <2>3 DEF SyncAnswer, AnswerPairs, SessionAfter
<1>7. ASSUME OtherAnswer(m) PROVE Answered(m)
  <2>1. \A k \in {"failure", "file", "restored", "response", "image", "disconnect", "backupOk", "restoreOk"} : SessionAfter(k)
        BY <1>7 DEF OtherAnswer, SessionAfter
  <2>2. CASE inbox' = inbox
        BY <1>7, <2>2 DEF OtherAnswer, Answered
  <2>3. CASE \E k \in {"failure", "file", "restored", "response", "image", "disconnect"} :
             inbox' = Said(m, k) /\ <<m.kind, k>> \in AnswerPairs
        BY <1>4, <2>1, <2>3
  <2>4. CASE \E k \in {"backupOk", "restoreOk"}, n \in BOOLEAN :
             inbox' = Append(inbox, [kind |-> k, to |-> m.to, newer |-> n]) /\ <<m.kind, k>> \in AnswerPairs
        BY <1>3, <2>1, <2>4
  <2>5. /\ m.kind \in {"backup", "restore"} => Awaited[m.kind] \in {"backupOk", "restoreOk"}
        /\ m.kind \in {"hello", "screenshot", "complete"} => Awaited[m.kind] \in {"response", "image", "disconnect"}
        /\ m.kind \in {"backup", "restore", "hello", "screenshot", "complete"} => <<m.kind, Awaited[m.kind]>> \in AnswerPairs
        BY DEF Awaited, AnswerPairs
  <2>6. /\ m.kind \in {"backup", "restore", "hello", "screenshot"} => <<m.kind, "failure">> \in AnswerPairs
        /\ m.kind \in {"backupOk", "fileReceived", "error", "request", "status"} => <<m.kind, "file">> \in AnswerPairs
        /\ m.kind = "send" => <<m.kind, "restored">> \in AnswerPairs
        BY DEF AnswerPairs
  <2> QED BY <1>7, <2>2, <2>3, <2>4, <2>5, <2>6 DEF OtherAnswer
<1> QED BY <1>1, <1>5, <1>6, <1>7 DEF DeviceAnswer, m

\* What the device does with the request m, as far as the streams tell.
SessionRead(m) ==
  /\ devClass' # "none" => \/ devClass' = devClass /\ m.kind # "cancel" /\ (asked' = asked \/ asked')
                           \/ m.kind = "start" /\ devClass = "none" /\ ~asked'
  /\ devClass' # "none" /\ devClass = "none" =>
       Len(inbox') = Len(inbox) + 1 /\ inbox'[Len(inbox) + 1].kind = "started" /\ m.kind = "start"
  /\ m.kind = "cancel" => inbox' = inbox /\ devClass' = "none"
NewMessages(m) ==
  \A i \in 1..Len(inbox') : i > Len(inbox) =>
    LET k == inbox'[i].kind IN
    /\ k # "cancelled"
    /\ k = "finished" => devClass' = "none"
    /\ k = "refused" => m.kind = "start" /\ devClass' = devClass
    /\ k \in {"willClear", "readyToReceive"} => devClass # "none" /\ devClass' = devClass
    /\ k = "readyToReceive" => asked'
    /\ \A op \in OwnCalls : k \in AnswersOf(op) =>
         m.kind = op /\ i = Len(inbox) + 1 /\ inbox'[i].to = m.to /\ (op = "clear" => devClass # "none")

LEMMA DeviceReads ==
  ASSUME inbox \in Seq(Answers), NEW m, Answered(m)
  PROVE  /\ inbox' \in Seq(Answers) /\ Len(inbox) \in Nat /\ Len(inbox') \in Nat /\ Len(inbox') >= Len(inbox)
         /\ \A i \in 1..Len(inbox) : inbox'[i] = inbox[i]
         /\ SessionRead(m) /\ NewMessages(m)
<1>1. CASE inbox' = inbox /\ (devClass' = "none" \/ (m.kind # "cancel" /\ UNCHANGED <<devClass, asked>>))
      BY <1>1 DEF SessionRead, NewMessages
<1>2. ASSUME NEW a \in Answers, inbox' = Append(inbox, a), <<m.kind, a.kind>> \in AnswerPairs, a.to = m.to,
             SessionAfter(a.kind)
      PROVE  /\ inbox' \in Seq(Answers) /\ Len(inbox) \in Nat /\ Len(inbox') \in Nat /\ Len(inbox') >= Len(inbox)
             /\ \A i \in 1..Len(inbox) : inbox'[i] = inbox[i]
             /\ SessionRead(m) /\ NewMessages(m)
  <2>1. /\ inbox' \in Seq(Answers) /\ Len(inbox') = Len(inbox) + 1 /\ Len(inbox) \in Nat
        /\ \A i \in 1..Len(inbox) : inbox'[i] = inbox[i]
        /\ inbox'[Len(inbox) + 1] = a
        BY <1>2, AppendFacts
  <2>2. m.kind # "cancel"
        BY <1>2, PairFacts
  <2>3. SessionRead(m)
        BY <1>2, <2>1, <2>2, PairFacts DEF SessionRead, SessionAfter
  <2>4. /\ a.kind # "cancelled"
        /\ a.kind = "finished" => devClass' = "none"
        /\ a.kind = "refused" => m.kind = "start" /\ devClass' = devClass
        /\ a.kind \in {"willClear", "readyToReceive"} => devClass # "none" /\ devClass' = devClass
        /\ a.kind = "readyToReceive" => asked'
        /\ \A op \in OwnCalls : a.kind \in AnswersOf(op) =>
             m.kind = op /\ a.to = m.to /\ (op = "clear" => devClass # "none")
        BY <1>2, PairFacts, OwnFacts DEF SessionAfter
  <2>5. \A i \in 1..Len(inbox') : i > Len(inbox) => i = Len(inbox) + 1
        BY <2>1
  <2>6. NewMessages(m)
        BY <2>1, <2>4, <2>5 DEF NewMessages
  <2> QED BY <2>1, <2>3, <2>6
<1>3. ASSUME NEW a \in Answers, inbox' = Append(Append(inbox, a), a), m.kind = "get", a.kind = "changes",
             UNCHANGED <<devClass, asked>>
      PROVE  /\ inbox' \in Seq(Answers) /\ Len(inbox) \in Nat /\ Len(inbox') \in Nat /\ Len(inbox') >= Len(inbox)
             /\ \A i \in 1..Len(inbox) : inbox'[i] = inbox[i]
             /\ SessionRead(m) /\ NewMessages(m)
  <2> DEFINE b == Append(inbox, a)
  <2>1. /\ b \in Seq(Answers) /\ Len(b) = Len(inbox) + 1 /\ Len(inbox) \in Nat
        /\ \A i \in 1..Len(inbox) : b[i] = inbox[i]
        /\ b[Len(inbox) + 1] = a
        BY AppendFacts
  <2> HIDE DEF b
  <2>2. /\ inbox' \in Seq(Answers) /\ Len(inbox') = Len(b) + 1
        /\ \A i \in 1..Len(b) : inbox'[i] = b[i]
        /\ inbox'[Len(b) + 1] = a
        BY <1>3, <2>1, AppendFacts DEF b
  <2>3. \A i \in 1..Len(inbox') : i > Len(inbox) => inbox'[i] = a
        BY <2>1, <2>2
  <2>4. \A i \in 1..Len(inbox) : inbox'[i] = inbox[i]
        BY <2>1, <2>2
  <2>5. \A op \in OwnCalls : "changes" \notin AnswersOf(op)
        BY DEF OwnCalls, AnswersOf, Awaited
  <2>6. NewMessages(m)
        BY <1>3, <2>3, <2>5 DEF NewMessages
  <2>7. SessionRead(m)
        BY <1>3 DEF SessionRead
  <2> QED BY <2>1, <2>2, <2>4, <2>6, <2>7
<1> QED BY <1>1, <1>2, <1>3 DEF Answered

\* The device reads the request m.
Reading(m) ==
  /\ inbox \in Seq(Answers) /\ toDevice \in Seq(Requests) /\ toDevice # <<>> /\ toDevice' = Tail(toDevice)
  /\ m = Head(toDevice) /\ Answered(m)
  /\ UNCHANGED <<service, dataClass, direction, pc, call, calls, answer>>

\* An answer on its way was there or is to the request read; a request has moved up.
LEMMA ReadMoves ==
  ASSUME NEW m, Reading(m)
  PROVE  /\ m = toDevice[1] /\ Len(toDevice) \in Nat \ {0} /\ Len(toDevice') = Len(toDevice) - 1
         /\ \A i \in 1..Len(toDevice') : i + 1 \in 1..Len(toDevice) /\ toDevice'[i] = toDevice[i + 1]
         /\ \A op \in OwnCalls, i \in Nat :
              Has(op, i)' => \/ Has(op, i) /\ inbox'[i] = inbox[i]
                             \/ Waiting(op, 1) /\ i = Len(inbox) + 1 /\ inbox'[i].to = toDevice[1].to
         /\ \A op \in OwnCalls, i \in Nat :
              Waiting(op, i)' => Waiting(op, i + 1) /\ toDevice'[i] = toDevice[i + 1]
<1>1. /\ m = toDevice[1] /\ Len(toDevice) \in Nat \ {0} /\ Len(toDevice') = Len(toDevice) - 1
      /\ \A i \in 1..Len(toDevice') : i + 1 \in 1..Len(toDevice) /\ toDevice'[i] = toDevice[i + 1]
      BY TailFacts DEF Reading
<1>2. /\ Len(inbox) \in Nat /\ Len(inbox') \in Nat /\ \A i \in 1..Len(inbox) : inbox'[i] = inbox[i]
      /\ SessionRead(m) /\ NewMessages(m)
      BY DeviceReads DEF Reading
<1>3. ASSUME NEW op \in OwnCalls, NEW i \in Nat, Has(op, i)'
      PROVE  \/ Has(op, i) /\ inbox'[i] = inbox[i]
             \/ Waiting(op, 1) /\ i = Len(inbox) + 1 /\ inbox'[i].to = toDevice[1].to
  <2>1. i \in 1..Len(inbox') /\ inbox'[i].kind \in AnswersOf(op)
        BY <1>3 DEF Has
  <2>2. CASE i <= Len(inbox)
        BY <1>2, <2>1, <2>2 DEF Has
  <2>3. CASE i > Len(inbox)
    <3>1. m.kind = op /\ i = Len(inbox) + 1 /\ inbox'[i].to = m.to /\ (op = "clear" => devClass # "none")
          BY <1>2, <2>1, <2>3 DEF NewMessages
    <3>2. Waiting(op, 1)
          BY <1>1, <3>1 DEF Waiting, Dead
    <3> QED BY <1>1, <3>1, <3>2
  <2> QED BY <1>2, <2>2, <2>3
<1>4. ASSUME NEW op \in OwnCalls, NEW i \in Nat, Waiting(op, i)'
      PROVE  Waiting(op, i + 1) /\ toDevice'[i] = toDevice[i + 1]
  <2>1. i \in 1..Len(toDevice') /\ toDevice'[i].kind = op /\ ~Dead(i)'
        BY <1>4 DEF Waiting
  <2>2. i + 1 \in 1..Len(toDevice) /\ toDevice[i + 1].kind = op
        BY <1>1, <2>1
  <2>3. ASSUME Dead(i + 1) PROVE Dead(i)'
    <3>1. toDevice[i + 1].kind = "clear" /\ devClass = "none"
          BY <2>3 DEF Dead
    <3>2. \A j \in 1..Len(toDevice) : j < i + 1 => toDevice[j].kind # "start"
          BY <2>3 DEF Dead
    <3>3. m.kind # "start"
      <4>1. 1 \in 1..Len(toDevice) /\ 1 < i + 1
            BY <1>1, <2>1
      <4> QED BY <1>1, <3>2, <4>1
    <3>4. devClass' = "none"
          BY <1>2, <3>1, <3>3 DEF SessionRead
    <3>5. \A j \in 1..Len(toDevice') : j < i => toDevice'[j].kind # "start"
          BY <1>1, <3>2
    <3> QED BY <1>1, <2>1, <3>1, <3>4, <3>5 DEF Dead
  <2> QED BY <1>1, <2>1, <2>2, <2>3 DEF Waiting
<1> QED BY <1>1, <1>3, <1>4

LEMMA ReadSingle ==
  ASSUME NEW m, Reading(m), NEW op \in OwnCalls, Single(op)
  PROVE  Single(op)'
<1>1. \A i \in Nat : Has(op, i)' => Has(op, i) \/ (Waiting(op, 1) /\ i = Len(inbox) + 1)
      BY ReadMoves
<1>2. \A i \in Nat : Waiting(op, i)' => Waiting(op, i + 1)
      BY ReadMoves
<1>3. \A i, j \in Nat : /\ Has(op, i) /\ Has(op, j) => i = j
                        /\ Waiting(op, i) /\ Waiting(op, j) => i = j
                        /\ ~(Has(op, i) /\ Waiting(op, j))
      BY DEF Single
<1>4. ASSUME NEW i \in Nat, NEW j \in Nat
      PROVE  /\ Has(op, i)' /\ Has(op, j)' => i = j
             /\ Waiting(op, i)' /\ Waiting(op, j)' => i = j
             /\ ~(Has(op, i)' /\ Waiting(op, j)')
  <2>1. Has(op, i)' /\ Has(op, j)' => i = j
        BY <1>1, <1>3
  <2>2. Waiting(op, i)' /\ Waiting(op, j)' => i + 1 = j + 1
        BY <1>2, <1>3
  <2>3. ASSUME Has(op, i)', Waiting(op, j)' PROVE FALSE
    <3>1. Waiting(op, j + 1) /\ j + 1 # 1 /\ j + 1 \in Nat
      <4>1. j # 0
            BY <2>3 DEF Waiting
      <4> QED BY <1>2, <2>3, <4>1
    <3> QED BY <1>1, <1>3, <2>3, <3>1
  <2> QED BY <2>1, <2>2, <2>3
<1> QED BY <1>4 DEF Single

LEMMA ReadNumbered ==
  ASSUME NEW m, Reading(m), NEW op \in OwnCalls, Numbered(op)
  PROVE  Numbered(op)'
<1>1. InProgress(op)' = InProgress(op) /\ calls' = calls
      BY DEF InProgress, Reading
<1>2. ASSUME InProgress(op), NEW i \in Nat, Has(op, i)' PROVE inbox'[i].to = calls
  <2>1. \/ Has(op, i) /\ inbox'[i] = inbox[i]
        \/ Waiting(op, 1) /\ inbox'[i].to = toDevice[1].to
        BY <1>2, ReadMoves
  <2> QED BY <1>2, <2>1 DEF Numbered
<1>3. ASSUME InProgress(op), NEW i \in Nat, Waiting(op, i)' PROVE toDevice'[i].to = calls
  <2>1. Waiting(op, i + 1) /\ toDevice'[i] = toDevice[i + 1] /\ i + 1 \in Nat
        BY <1>3, ReadMoves
  <2> QED BY <1>3, <2>1 DEF Numbered
<1> QED BY <1>1, <1>2, <1>3 DEF Numbered

LEMMA ReadOwnOnly ==
  ASSUME NEW m, Reading(m), NEW op \in OwnCalls, OwnOnly(op)
  PROVE  OwnOnly(op)'
<1>1. InProgress(op)' = InProgress(op)
      BY DEF InProgress, Reading
<1>2. ASSUME op # "start", ~InProgress(op), NEW i \in Nat PROVE ~Has(op, i)' /\ ~Waiting(op, i)'
  <2>1. \A j \in Nat : ~Has(op, j) /\ ~Waiting(op, j)
        BY <1>2 DEF OwnOnly
  <2> QED BY <2>1, ReadMoves
<1> QED BY <1>1, <1>2 DEF OwnOnly

\* With nothing but cancels before a request, the device reads one: it says nothing and
\* is then in no session.
LEMMA ReadCancel ==
  ASSUME NEW m, Reading(m), NEW i \in 1..Len(toDevice), CancelsBefore(i + 1)
  PROVE  m.kind = "cancel" /\ inbox' = inbox /\ devClass' = "none" /\ CancelsBefore(i)'
<1>1. /\ m = toDevice[1] /\ Len(toDevice) \in Nat \ {0} /\ Len(toDevice') = Len(toDevice) - 1
      /\ \A j \in 1..Len(toDevice') : j + 1 \in 1..Len(toDevice) /\ toDevice'[j] = toDevice[j + 1]
      BY ReadMoves
<1>2. 1 \in 1..Len(toDevice) /\ 1 < i + 1
      BY <1>1
<1>3. m.kind = "cancel"
      BY <1>1, <1>2 DEF CancelsBefore
<1>4. inbox' = inbox /\ devClass' = "none"
      BY <1>3, DeviceReads DEF Reading, SessionRead
<1>5. ASSUME NEW j \in 1..Len(toDevice'), j < i PROVE toDevice'[j].kind = "cancel"
  <2>1. j + 1 \in 1..Len(toDevice) /\ j + 1 < i + 1 /\ toDevice'[j] = toDevice[j + 1]
        BY <1>1, <1>5
  <2> QED BY <2>1 DEF CancelsBefore
<1> QED BY <1>3, <1>4, <1>5 DEF CancelsBefore

LEMMA ReadOnlyCancels ==
  ASSUME NEW m, Reading(m), OnlyCancels
  PROVE  inbox' = inbox /\ devClass' = "none" /\ OnlyCancels'
<1>1. /\ m = toDevice[1] /\ 1 \in 1..Len(toDevice)
      /\ \A i \in 1..Len(toDevice') : i + 1 \in 1..Len(toDevice) /\ toDevice'[i] = toDevice[i + 1]
      BY ReadMoves
<1>2. m.kind = "cancel"
      BY <1>1 DEF OnlyCancels
<1>3. inbox' = inbox /\ devClass' = "none"
      BY <1>2, DeviceReads DEF Reading, SessionRead
<1>4. OnlyCancels'
      BY <1>1 DEF OnlyCancels
<1> QED BY <1>3, <1>4

\* A request that is still under way was so before, behind the one read.
LEMMA StillWaiting ==
  ASSUME NEW m, Reading(m), NEW op \in OwnCalls, NEW i \in Nat, Waiting(op, i)'
  PROVE  Waiting(op, i + 1) /\ i \in 1..Len(toDevice) /\ i + 1 \in Nat /\ i + 1 # 1
<1>1. Waiting(op, i + 1) /\ Len(toDevice) \in Nat \ {0} /\ Len(toDevice') = Len(toDevice) - 1
      BY ReadMoves
<1>2. i \in 1..Len(toDevice')
      BY DEF Waiting
<1> QED BY <1>1, <1>2

LEMMA ReadLeftStart ==
  ASSUME NEW m, Reading(m), LeftStart
  PROVE  LeftStart'
<1>1. InProgress("start")' = InProgress("start") /\ dataClass' = dataClass /\ "start" \in OwnCalls
      BY OwnFacts DEF InProgress, Reading
<1>2. ASSUME ~InProgress("start"), NEW i \in Nat, Has("start", i)' PROVE i = 1 /\ dataClass # "none"
  <2>1. CASE Has("start", i)
        BY <1>2, <2>1 DEF LeftStart
  <2>2. CASE Waiting("start", 1) /\ i = Len(inbox) + 1
    <3>1. inbox = <<>> /\ dataClass # "none"
          BY <1>2, <2>2 DEF LeftStart
    <3>2. Len(inbox) = 0
          BY <3>1
    <3> QED BY <2>2, <3>1, <3>2
  <2> QED BY <1>1, <1>2, <2>1, <2>2, ReadMoves
<1>3. ASSUME ~InProgress("start"), NEW i \in Nat, Waiting("start", i)'
      PROVE  inbox' = <<>> /\ dataClass # "none" /\ devClass' = "none" /\ CancelsBefore(i)'
  <2>1. Waiting("start", i + 1) /\ i \in 1..Len(toDevice) /\ i + 1 \in Nat
        BY <1>1, <1>3, StillWaiting
  <2>2. inbox = <<>> /\ dataClass # "none" /\ CancelsBefore(i + 1)
        BY <1>3, <2>1 DEF LeftStart
  <2> QED BY <2>1, <2>2, ReadCancel
<1> QED BY <1>1, <1>2, <1>3 DEF LeftStart

\* The first message under way is that of before, or an answer just made.
LEMMA ReadFirst ==
  ASSUME NEW m, Reading(m), inbox' # <<>>, inbox'[1].kind = "cancelled"
  PROVE  inbox # <<>> /\ inbox[1].kind = "cancelled"
<1>1. /\ Len(inbox) \in Nat /\ Len(inbox') \in Nat /\ \A i \in 1..Len(inbox) : inbox'[i] = inbox[i]
      /\ NewMessages(m) /\ inbox' \in Seq(Answers)
      BY DeviceReads DEF Reading
<1>2. 1 \in 1..Len(inbox')
      BY <1>1
<1>3. ~(1 > Len(inbox))
      BY <1>1, <1>2 DEF NewMessages
<1>4. 1 \in 1..Len(inbox) /\ inbox # <<>>
      BY <1>1, <1>3
<1> QED BY <1>1, <1>4

LEMMA ReadOpenStart ==
  ASSUME NEW m, Reading(m), OpenStart, Single("start")
  PROVE  OpenStart'
<1>1. InProgress("start")' = InProgress("start") /\ "start" \in OwnCalls
      BY OwnFacts DEF InProgress, Reading
<1>2. ASSUME InProgress("start"), NEW i \in Nat, Waiting("start", i)'
      PROVE  /\ devClass' = "none"
             /\ inbox' # <<>> /\ inbox'[1].kind = "cancelled" => Len(inbox') = 1 /\ CancelsBefore(i)'
  <2>1. Waiting("start", i + 1) /\ i \in 1..Len(toDevice) /\ i + 1 \in Nat /\ i + 1 # 1
        BY <1>1, <1>2, StillWaiting
  <2>2. devClass' = "none"
    <3>1. CASE devClass # "none"
      <4>1. CancelsBefore(i + 1)
            BY <1>2, <2>1, <3>1 DEF OpenStart
      <4> QED BY <2>1, <4>1, ReadCancel
    <3>2. CASE devClass = "none" /\ devClass' # "none"
      <4>1. m.kind = "start"
            BY <3>2, DeviceReads DEF Reading, SessionRead
      <4>2. m = toDevice[1] /\ 1 \in 1..Len(toDevice)
            BY ReadMoves
      <4>3. Waiting("start", 1)
            BY <4>1, <4>2 DEF Waiting, Dead
      <4> QED BY <2>1, <4>3 DEF Single
    <3> QED BY <3>1, <3>2
  <2>3. ASSUME inbox' # <<>>, inbox'[1].kind = "cancelled" PROVE Len(inbox') = 1 /\ CancelsBefore(i)'
    <3>1. inbox # <<>> /\ inbox[1].kind = "cancelled"
          BY <2>3, ReadFirst
    <3>2. Len(inbox) = 1 /\ CancelsBefore(i + 1)
          BY <1>2, <2>1, <3>1 DEF OpenStart
    <3> QED BY <2>1, <3>2, ReadCancel
  <2> QED BY <2>2, <2>3
<1>3. ASSUME InProgress("start"), NEW i \in Nat, Has("start", i)', inbox'[1].kind = "cancelled" PROVE i = 2
  <2>1. inbox' # <<>>
    <3>1. i \in 1..Len(inbox')
          BY <1>3 DEF Has
    <3> QED BY <3>1
  <2>2. inbox # <<>> /\ inbox[1].kind = "cancelled"
        BY <1>3, <2>1, ReadFirst
  <2>3. CASE Has("start", i)
        BY <1>3, <2>2, <2>3 DEF OpenStart
  <2>4. CASE Waiting("start", 1) /\ i = Len(inbox) + 1
    <3>1. Len(inbox) = 1
          BY <1>3, <2>2, <2>4 DEF OpenStart
    <3> QED BY <2>4, <3>1
  <2> QED BY <1>1, <1>3, <2>3, <2>4, ReadMoves
<1> QED BY <1>1, <1>2, <1>3 DEF OpenStart

LEMMA ReadBetween ==
  ASSUME NEW m, Reading(m), BetweenSessions, LeftStart
  PROVE  BetweenSessions'
<1> SUFFICES ASSUME pc = "idle", dataClass = "none", service = "mobilesync"
             PROVE  /\ devClass' = "none"
                    /\ inbox' # <<>> /\ inbox'[1].kind = "cancelled" =>
                         Len(inbox') = 1 /\ OnlyCancels'
                    /\ \A i \in 1..Len(inbox') : inbox'[i].kind # "readyToReceive"
    BY DEF BetweenSessions, Reading
<1>1. /\ m = toDevice[1] /\ Len(toDevice) \in 1..Len(toDevice) /\ Len(toDevice') = Len(toDevice) - 1
      /\ 1 \in 1..Len(toDevice) /\ Len(toDevice) \in Nat /\ Len(toDevice') + 1 = Len(toDevice)
      BY ReadMoves
<1>2. SessionRead(m) /\ NewMessages(m) /\ Len(inbox) \in Nat /\ Len(inbox') \in Nat /\ \A i \in 1..Len(inbox) : inbox'[i] = inbox[i]
      BY DeviceReads DEF Reading
<1>3. devClass # "none" => inbox' = inbox /\ devClass' = "none" /\ inbox = <<>>
      BY ReadOnlyCancels DEF BetweenSessions
<1>4. devClass = "none" => devClass' = "none"
  <2>1. ~Waiting("start", 1)
        BY DEF LeftStart, InProgress
  <2> QED BY <1>1, <1>2, <2>1 DEF SessionRead, Waiting, Dead
<1>5. ASSUME inbox' # <<>>, inbox'[1].kind = "cancelled"
      PROVE  Len(inbox') = 1 /\ OnlyCancels'
  <2>1. Len(inbox) = 1 /\ OnlyCancels
        BY <1>5, ReadFirst DEF BetweenSessions
  <2>2. inbox' = inbox /\ OnlyCancels'
        BY <2>1, ReadOnlyCancels
  <2> QED BY <2>1, <2>2
<1>6. ASSUME NEW i \in 1..Len(inbox') PROVE inbox'[i].kind # "readyToReceive"
  <2>1. CASE i <= Len(inbox)
    <3>1. i \in 1..Len(inbox)
          BY <1>2, <2>1
    <3> QED BY <1>2, <3>1 DEF BetweenSessions
  <2>2. CASE i > Len(inbox)
        BY <1>2, <1>3, <2>2 DEF NewMessages
  <2> QED BY <1>2, <2>1, <2>2
<1> QED BY <1>3, <1>4, <1>5, <1>6

LEMMA ReadSessionOver ==
  ASSUME NEW m, Reading(m), SessionOver, LeftStart, OpenStart
  PROVE  SessionOver'
<1>1. /\ Len(inbox) \in Nat /\ Len(inbox') \in Nat /\ Len(inbox') >= Len(inbox)
      /\ \A i \in 1..Len(inbox) : inbox'[i] = inbox[i]
      /\ SessionRead(m) /\ NewMessages(m)
      BY DeviceReads DEF Reading
<1>2. devClass = "none" => \/ devClass' = "none"
                           \/ Len(inbox') = Len(inbox) + 1 /\ inbox'[Len(inbox) + 1].kind = "started"
      BY <1>1 DEF SessionRead
<1>3. m.kind = "start" => devClass = "none"
  <2>1. m = toDevice[1] /\ 1 \in 1..Len(toDevice)
        BY ReadMoves
  <2>2. m.kind = "start" => Waiting("start", 1)
        BY <2>1 DEF Waiting, Dead
  <2>3. Waiting("start", 1) => devClass = "none"
        BY DEF LeftStart, OpenStart
  <2> QED BY <2>2, <2>3
<1>4. ASSUME NEW i \in 1..Len(inbox'), inbox'[i].kind \in {"cancelled", "finished", "refused"}
      PROVE  \/ /\ devClass' = "none"
                /\ \A j \in 1..Len(inbox') : j > i => inbox'[j].kind \notin {"cancelled", "willClear", "readyToReceive"}
             \/ \E j \in 1..Len(inbox') : j > i /\ inbox'[j].kind = "started"
  <2>1. CASE i > Len(inbox)
    <3>1. devClass' = "none"
          BY <1>1, <1>3, <1>4, <2>1 DEF NewMessages
    <3>2. ASSUME NEW j \in 1..Len(inbox'), j > i, inbox'[j].kind \in {"cancelled", "willClear", "readyToReceive"}
          PROVE  FALSE
      <4>1. j > Len(inbox)
            BY <1>1, <2>1, <3>2
      <4> QED BY <1>1, <3>1, <3>2, <4>1 DEF NewMessages
    <3> QED BY <3>1, <3>2
  <2>2. CASE i \in 1..Len(inbox)
    <3>1. CASE \E j \in 1..Len(inbox) : j > i /\ inbox[j].kind = "started"
          BY <1>1, <3>1
    <3>2. CASE /\ devClass = "none"
               /\ \A j \in 1..Len(inbox) : j > i => inbox[j].kind \notin {"cancelled", "willClear", "readyToReceive"}
      <4>1. ASSUME NEW j \in 1..Len(inbox'), j > i PROVE inbox'[j].kind \notin {"cancelled", "willClear", "readyToReceive"}
        <5>1. CASE j \in 1..Len(inbox)
              BY <1>1, <3>2, <4>1, <5>1
        <5>2. CASE j > Len(inbox)
              BY <1>1, <3>2, <5>2 DEF NewMessages
        <5> QED BY <1>1, <5>1, <5>2
      <4>2. CASE Len(inbox') = Len(inbox) + 1 /\ inbox'[Len(inbox) + 1].kind = "started"
        <5>1. Len(inbox) + 1 \in 1..Len(inbox') /\ Len(inbox) + 1 > i
              BY <1>1, <2>2, <4>2
        <5> QED BY <4>2, <5>1
      <4> QED BY <1>2, <3>2, <4>1, <4>2
    <3>3. inbox[i].kind \in {"cancelled", "finished", "refused"}
          BY <1>1, <1>4, <2>2
    <3> QED BY <2>2, <3>1, <3>2, <3>3 DEF SessionOver
  <2> QED BY <1>1, <2>1, <2>2
<1> QED BY <1>4 DEF SessionOver

LEMMA ReadDirection ==
  ASSUME NEW m, Reading(m), DirectionKnown, LeftStart, OpenStart
  PROVE  DirectionKnown'
<1>1. /\ Len(inbox) \in Nat /\ Len(inbox') \in Nat /\ \A i \in 1..Len(inbox) : inbox'[i] = inbox[i]
      /\ SessionRead(m) /\ NewMessages(m)
      BY DeviceReads DEF Reading
<1>2. /\ m = toDevice[1] /\ 1 \in 1..Len(toDevice) /\ Len(toDevice) \in Nat
      /\ \A i \in 1..Len(toDevice') : i + 1 \in 1..Len(toDevice) /\ toDevice'[i] = toDevice[i + 1]
      BY ReadMoves
<1>3. ASSUME NotReady, \A i \in 1..Len(inbox') : i > Len(inbox) => inbox'[i].kind # "readyToReceive"
      PROVE  NotReady'
  <2>1. \A i \in 1..Len(inbox') : inbox'[i].kind # "readyToReceive"
    <3> SUFFICES ASSUME NEW i \in 1..Len(inbox') PROVE inbox'[i].kind # "readyToReceive"
        OBVIOUS
    <3>1. i \in 1..Len(inbox) \/ i > Len(inbox)
          BY <1>1
    <3> QED BY <1>1, <1>3, <3>1 DEF NotReady
  <2>2. UNCHANGED <<direction, pc, call>>
        BY DEF Reading
  <2> QED BY <1>3, <2>1, <2>2 DEF NotReady
<1>4. ASSUME devClass' # "none", ~asked' PROVE NotReady'
  <2>1. NotReady
    <3>1. CASE devClass' = devClass /\ (asked' = asked \/ asked')
          BY <1>4, <3>1 DEF DirectionKnown
    <3>2. CASE m.kind = "start"
          BY <1>2, <3>2 DEF DirectionKnown
    <3> QED BY <1>1, <1>4, <3>1, <3>2 DEF SessionRead
  <2>2. \A i \in 1..Len(inbox') : i > Len(inbox) => inbox'[i].kind # "readyToReceive"
        BY <1>1, <1>4 DEF NewMessages
  <2> QED BY <1>3, <2>1, <2>2
<1>5. ASSUME NEW i \in 1..Len(toDevice'), toDevice'[i].kind = "start" PROVE NotReady'
  <2>1. i + 1 \in 1..Len(toDevice) /\ toDevice[i + 1].kind = "start" /\ i + 1 \in Nat
        BY <1>2, <1>5
  <2>2. NotReady /\ Waiting("start", i + 1)
        BY <2>1 DEF DirectionKnown, Waiting, Dead
  <2>3. devClass # "none" => m.kind = "cancel"
    <3>1. devClass # "none" => CancelsBefore(i + 1)
          BY <2>1, <2>2 DEF LeftStart, OpenStart
    <3>2. i \in 1..Len(toDevice)
          BY <1>2, <2>1
    <3> QED BY <3>1, <3>2, ReadCancel
  <2>4. \A j \in 1..Len(inbox') : j > Len(inbox) => inbox'[j].kind # "readyToReceive"
    <3>1. m.kind = "cancel" => Len(inbox') = Len(inbox)
          BY <1>1 DEF SessionRead
    <3> QED BY <1>1, <2>3, <3>1 DEF NewMessages
  <2> QED BY <1>3, <2>2, <2>4
<1> QED BY <1>4, <1>5 DEF DirectionKnown

-----------------------------------------------------------------------------
(* The device ends its session                                             *)

\* It says so at the end of what it has said.
Cancelling ==
  /\ inbox \in Seq(Answers) /\ devClass # "none" /\ devClass' = "none"
  /\ \E c \in Answers : c.kind = "cancelled" /\ inbox' = Append(inbox, c)
  /\ UNCHANGED <<service, dataClass, direction, pc, call, calls, answer, toDevice>>

LEMMA CancelMoves ==
  ASSUME Cancelling
  PROVE  /\ Len(inbox) \in Nat /\ Len(inbox') = Len(inbox) + 1 /\ inbox'[Len(inbox) + 1].kind = "cancelled"
         /\ \A i \in 1..Len(inbox) : inbox'[i] = inbox[i]
         /\ \A op \in OwnCalls, i \in Nat : Has(op, i)' => Has(op, i) /\ inbox'[i] = inbox[i]
         /\ \A op \in OwnCalls, i \in Nat : Waiting(op, i)' => Waiting(op, i)
<1>1. PICK c \in Answers : c.kind = "cancelled" /\ inbox' = Append(inbox, c)
      BY DEF Cancelling
<1>2. /\ Len(inbox) \in Nat /\ Len(inbox') = Len(inbox) + 1 /\ inbox'[Len(inbox) + 1] = c
      /\ \A i \in 1..Len(inbox) : inbox'[i] = inbox[i]
      BY <1>1, AppendFacts DEF Cancelling
<1>3. ASSUME NEW op \in OwnCalls, NEW i \in Nat, Has(op, i)' PROVE Has(op, i) /\ inbox'[i] = inbox[i]
  <2>1. i \in 1..Len(inbox') /\ inbox'[i].kind \in AnswersOf(op)
        BY <1>3 DEF Has
  <2>2. i # Len(inbox) + 1
        BY <1>1, <1>2, <2>1, OwnFacts
  <2>3. i \in 1..Len(inbox)
        BY <1>2, <2>1, <2>2
  <2> QED BY <1>2, <2>1, <2>3 DEF Has
<1>4. ASSUME NEW op \in OwnCalls, NEW i \in Nat, Waiting(op, i)' PROVE Waiting(op, i)
      BY <1>4 DEF Waiting, Dead, Cancelling
<1> QED BY <1>1, <1>2, <1>3, <1>4

LEMMA CancelStreams ==
  ASSUME Cancelling, Streams, \A op \in OwnCalls : Numbered(op)
  PROVE  Streams' /\ \A op \in OwnCalls : Numbered(op)'
<1>1. /\ Len(inbox) \in Nat /\ Len(inbox') = Len(inbox) + 1 /\ inbox'[Len(inbox) + 1].kind = "cancelled"
      /\ \A i \in 1..Len(inbox) : inbox'[i] = inbox[i]
      /\ \A op \in OwnCalls, i \in Nat : Has(op, i)' => Has(op, i) /\ inbox'[i] = inbox[i]
      /\ \A op \in OwnCalls, i \in Nat : Waiting(op, i)' => Waiting(op, i)
      BY CancelMoves
<1>2. /\ UNCHANGED <<service, dataClass, direction, pc, call, calls, answer, toDevice>>
      /\ devClass # "none" /\ devClass' = "none" /\ inbox \in Seq(Answers)
      BY DEF Cancelling
<1>3. /\ \A op \in OwnCalls : InProgress(op)' = InProgress(op)
      /\ \A i \in Nat : CancelsBefore(i)' = CancelsBefore(i)
      /\ OnlyCancels' = OnlyCancels
      BY <1>2 DEF InProgress, CancelsBefore, OnlyCancels
<1>4. inbox = <<>> => Len(inbox') = 1
      BY <1>1
<1>5. inbox' # <<>> /\ inbox'[1].kind = "cancelled" => inbox = <<>> \/ inbox[1].kind = "cancelled"
  <2>1. inbox = <<>> \/ 1 \in 1..Len(inbox)
        BY <1>1, <1>2
  <2> QED BY <1>1, <2>1
<1>6. ASSUME NEW op \in OwnCalls PROVE Single(op)' /\ Numbered(op)' /\ OwnOnly(op)'
  <2>1. Single(op)'
        BY <1>1, <1>6 DEF Single, Streams
  <2>2. Numbered(op)'
    <3>1. Numbered(op)
          OBVIOUS
    <3>2. /\ \A i \in Nat : Has(op, i)' => Has(op, i) /\ inbox'[i] = inbox[i]
          /\ \A i \in Nat : Waiting(op, i)' => Waiting(op, i)
          BY <1>1
    <3>3. InProgress(op)' = InProgress(op) /\ calls' = calls /\ toDevice' = toDevice
          BY <1>2, <1>3
    <3> QED BY <3>1, <3>2, <3>3 DEF Numbered
  <2>3. OwnOnly(op)'
        BY <1>1, <1>3, <1>6 DEF OwnOnly, Streams
  <2> QED BY <2>1, <2>2, <2>3
<1>7. LeftStart'
      BY <1>1, <1>2, <1>3, OwnFacts DEF LeftStart, Streams
<1>8. OpenStart'
  <2>1. InProgress("start")' = InProgress("start") /\ "start" \in OwnCalls
        BY <1>3, OwnFacts
  <2>2. ASSUME InProgress("start"), NEW i \in Nat, Waiting("start", i)' PROVE Len(inbox') = 1 /\ CancelsBefore(i)'
    <3>1. inbox = <<>> /\ CancelsBefore(i)
          BY <1>1, <1>2, <2>1, <2>2 DEF OpenStart, Streams
    <3> QED BY <1>3, <1>4, <3>1
  <2>3. ASSUME InProgress("start"), NEW i \in Nat, Has("start", i)', inbox'[1].kind = "cancelled" PROVE i = 2
    <3>1. Has("start", i) /\ i \in 1..Len(inbox)
          BY <1>1, <2>1, <2>3 DEF Has
    <3>2. inbox[1].kind = "cancelled"
          BY <1>1, <2>3, <3>1
    <3> QED BY <2>3, <3>1, <3>2 DEF OpenStart, Streams
  <2> QED BY <1>2, <2>1, <2>2, <2>3 DEF OpenStart
<1>9. BetweenSessions'
  <2> SUFFICES ASSUME pc = "idle", dataClass = "none", service = "mobilesync"
               PROVE  /\ Len(inbox') = 1 /\ OnlyCancels'
                      /\ \A i \in 1..Len(inbox') : inbox'[i].kind # "readyToReceive"
      BY <1>2 DEF BetweenSessions
  <2>1. inbox = <<>> /\ OnlyCancels
        BY <1>2 DEF BetweenSessions, Streams
  <2>2. Len(inbox) = 0 /\ Len(inbox') = 1
        BY <1>1, <2>1
  <2> QED BY <1>1, <1>3, <2>1, <2>2
<1>10. SessionOver'
  <2> SUFFICES ASSUME NEW i \in 1..Len(inbox'), inbox'[i].kind \in {"cancelled", "finished", "refused"}
               PROVE  \/ \A j \in 1..Len(inbox') : ~(j > i)
                      \/ \E j \in 1..Len(inbox') : j > i /\ inbox'[j].kind = "started"
      BY <1>2 DEF SessionOver
  <2>1. CASE i \in 1..Len(inbox)
    <3>1. \E j \in 1..Len(inbox) : j > i /\ inbox[j].kind = "started"
          BY <1>1, <1>2, <2>1 DEF SessionOver, Streams
    <3> QED BY <1>1, <3>1
  <2>2. CASE i = Len(inbox) + 1
        BY <1>1, <2>2
  <2> QED BY <1>1, <2>1, <2>2
<1>11. DirectionKnown'
  <2>1. NotReady => NotReady'
    <3>1. ASSUME NotReady, NEW i \in 1..Len(inbox') PROVE inbox'[i].kind # "readyToReceive"
      <4>1. i \in 1..Len(inbox) \/ i = Len(inbox) + 1
            BY <1>1
      <4> QED BY <1>1, <3>1, <4>1 DEF NotReady
    <3> QED BY <1>2, <3>1 DEF NotReady
  <2> QED BY <1>2, <2>1 DEF DirectionKnown, Streams
<1> QED BY <1>6, <1>7, <1>8, <1>9, <1>10, <1>11 DEF Streams

LEMMA ReadStreams ==
  ASSUME NEW m, Reading(m), Streams, \A op \in OwnCalls : Numbered(op)
  PROVE  Streams' /\ \A op \in OwnCalls : Numbered(op)'
<1>1. \A op \in OwnCalls : Single(op)' /\ OwnOnly(op)' /\ Numbered(op)'
  <2> SUFFICES ASSUME NEW op \in OwnCalls PROVE Single(op)' /\ OwnOnly(op)' /\ Numbered(op)'
      OBVIOUS
  <2>1. Single(op) /\ OwnOnly(op) /\ Numbered(op)
        BY DEF Streams
  <2> QED BY <2>1, ReadSingle, ReadOwnOnly, ReadNumbered
<1>2. LeftStart' /\ OpenStart' /\ BetweenSessions' /\ SessionOver' /\ DirectionKnown'
      BY ReadLeftStart, ReadOpenStart, ReadBetween, ReadSessionOver, ReadDirection, OwnFacts DEF Streams
<1> QED BY <1>1, <1>2 DEF Streams

-----------------------------------------------------------------------------
(* The handshake, and what ends a connection                               *)

\* Only the handshake is under way.
Fresh ==
  /\ pc \notin {"receive", "reply"} /\ devClass = "none" /\ dataClass = "none" /\ direction = "deviceToComputer"
  /\ \A i \in 1..Len(inbox) : inbox[i].kind \in {"version", "deviceReady"}
  /\ \A i \in 1..Len(toDevice) : toDevice[i].kind = "versionsOk"
  /\ inbox # <<>> => 1 \in 1..Len(inbox)

LEMMA FreshStreams == Fresh => Streams /\ Taken /\ \A op \in OwnCalls : Numbered(op)
<1> SUFFICES ASSUME Fresh PROVE Streams /\ Taken /\ \A op \in OwnCalls : Numbered(op)
    OBVIOUS
<1>1. \A op \in OwnCalls : ~InProgress(op)
      BY DEF Fresh, InProgress
<1>2. \A op \in OwnCalls, i \in Nat : ~Has(op, i) /\ ~Waiting(op, i)
  <2>1. \A op \in OwnCalls : {"version", "deviceReady"} \cap AnswersOf(op) = {} /\ op # "versionsOk"
        BY DEF OwnCalls, AnswersOf, Awaited
  <2> QED BY <2>1 DEF Fresh, Has, Waiting
<1>3. \A op \in OwnCalls : Single(op) /\ OwnOnly(op) /\ Numbered(op)
      BY <1>1, <1>2 DEF Single, OwnOnly, Numbered
<1>4. LeftStart /\ OpenStart
      BY <1>1, <1>2, OwnFacts DEF LeftStart, OpenStart
<1>5. BetweenSessions /\ SessionOver /\ DirectionKnown /\ Taken
      BY DEF Fresh, BetweenSessions, SessionOver, DirectionKnown, Taken
<1> QED BY <1>3, <1>4, <1>5 DEF Streams

LEMMA FreshNext == Fresh' => OwnInv'
<1>1. Fresh => OwnInv
      BY FreshStreams DEF OwnInv
<1> QED BY <1>1, PTL

LEMMA GreetNew ==
  ASSUME FullInv, New \/ Free
  PROVE  CallOK' /\ Greeting' /\ OwnInv' /\ AnswerOwn'
<1>1. CASE New
  <2>1. /\ pc' = "version" /\ parent' = "open" /\ dataClass' = "none" /\ direction' = "deviceToComputer"
        /\ toDevice' = <<>> /\ inbox' = <<>> /\ devClass' = "none" /\ call' = "new"
        BY <1>1 DEF New
  <2>2. Fresh'
        BY <2>1 DEF Fresh
  <2>3. CallOK' /\ Greeting' /\ AnswerOwn'
        BY <2>1 DEF CallOK, Greeting, AnswerOwn
  <2> QED BY <2>2, <2>3, FreshNext
<1>2. CASE Free
  <2>1. /\ pc' = "idle" /\ parent' = "none" /\ dataClass' = "none" /\ direction' = "deviceToComputer"
        /\ inbox' = inbox /\ call' = "free"
        BY <1>2 DEF Free, Close
  <2>2. "free" \notin DOMAIN Awaited
        BY DEF Awaited
  <2> QED BY <2>1, <2>2 DEF FullInv, CallOK, Greeting, AnswerOwn, OwnInv
<1> QED BY <1>1, <1>2

\* The client ends during the handshake.
LEMMA GreetClose ==
  ASSUME FullInv, NEW e, Close(e), pc \in {"version", "deviceReady"}, call' = call, inbox' \in Seq(Answers)
  PROVE  CallOK' /\ Greeting' /\ OwnInv' /\ AnswerOwn'
<1>1. pc' = "idle" /\ parent' = "none" /\ dataClass' = "none" /\ direction' = "deviceToComputer" /\ call' = "new"
      BY DEF Close, FullInv, Greeting
<1>2. "new" \notin DOMAIN Awaited
      BY DEF Awaited
<1> QED BY <1>1, <1>2 DEF CallOK, Greeting, OwnInv, AnswerOwn

LEMMA GreetReceive ==
  ASSUME FullInv, NEW r \in Messages, ReceiveVersion(r) \/ ReceiveReady(r)
  PROVE  CallOK' /\ Greeting' /\ OwnInv' /\ AnswerOwn'
<1>1. /\ Receive(r) /\ UNCHANGED <<call, stage>> /\ inbox \in Seq(Answers) /\ toDevice \in Seq(Requests)
      /\ pc \in {"version", "deviceReady"}
      BY DEF ReceiveVersion, ReceiveReady, callVars, FullInv, CallOK, IInv, QueueOK
<1>2. /\ call = "new" /\ devClass = "none" /\ dataClass = "none" /\ direction = "deviceToComputer"
      /\ \A i \in 1..Len(inbox) : inbox[i].kind \in {"version", "deviceReady"}
      /\ \A i \in 1..Len(toDevice) : toDevice[i].kind = "versionsOk"
      BY <1>1 DEF FullInv, Greeting, CallOK
<1>3. /\ inbox' \in Seq(Answers) /\ \A i \in 1..Len(inbox') : inbox'[i].kind \in {"version", "deviceReady"}
      /\ inbox' # <<>> => 1 \in 1..Len(inbox')
      /\ r # Nothing => inbox # <<>>
  <2>1. CASE inbox # <<>> /\ inbox' = Tail(inbox)
        BY <1>1, <1>2, <2>1, TailFacts
  <2>2. CASE inbox = <<>> /\ r = Nothing /\ inbox' = inbox
        BY <2>2
  <2> QED BY <1>1, <2>1, <2>2 DEF Receive
<1>4. CASE ReceiveVersion(r) /\ ~\E e : Close(e)
  <2>1. /\ conn = "open" /\ toDevice' = Sent("versionsOk", "none") /\ pc' = "deviceReady"
        /\ UNCHANGED <<parent, dataClass, direction, conn, devClass, asked>>
        BY <1>4, VersionMoves
  <2>2. r # Nothing
    <3>1. r = Nothing => Close(ReceiveError)
          BY <1>4 DEF ReceiveVersion, ReceiveError
    <3> QED BY <1>4, <3>1
  <2>3. \A i \in 1..Len(toDevice') : toDevice'[i].kind = "versionsOk"
    <3> DEFINE v == [kind |-> "versionsOk", to |-> calls', class |-> "none"]
    <3>1. toDevice' = Append(toDevice, v) /\ v.kind = "versionsOk"
          BY <2>1 DEF Sent
    <3>2. v \in Requests
      <4>1. calls' = calls /\ calls \in 0..MaxCalls
            BY <1>4 DEF ReceiveVersion, callVars, FullInv, IInv, TypeOK
      <4> QED BY <4>1 DEF Requests, ClassOrNone
    <3> HIDE DEF v
    <3>3. /\ Len(toDevice') = Len(toDevice) + 1 /\ Len(toDevice) \in Nat /\ toDevice'[Len(toDevice) + 1] = v
          /\ \A i \in 1..Len(toDevice) : toDevice'[i] = toDevice[i]
          BY <1>1, <3>1, <3>2, AppendFacts
    <3> QED BY <1>2, <3>1, <3>3
  <2>4. Fresh'
        BY <1>2, <1>3, <2>1, <2>3 DEF Fresh
  <2>5. stage # "greet" \/ parent = "none"
        BY <1>3, <2>2 DEF FullInv, Greeting
  <2>6. CallOK' /\ Greeting' /\ AnswerOwn'
        BY <1>1, <1>2, <1>3, <2>1, <2>3, <2>5 DEF CallOK, Greeting, AnswerOwn
  <2> QED BY <2>4, <2>6, FreshNext
<1>5. CASE ReceiveReady(r) /\ ~\E e : Close(e)
  <2>1. pc' = "idle" /\ UNCHANGED <<parent, dataClass, direction, conn, toDevice, devClass, asked>> /\ r.kind = "deviceReady"
        BY <1>5 DEF ReceiveReady, syncVars
  <2>2. r # Nothing
        BY <2>1 DEF Nothing
  <2>3. Fresh'
        BY <1>2, <1>3, <2>1 DEF Fresh
  <2>4. stage # "greet" \/ parent = "none"
        BY <1>3, <2>2 DEF FullInv, Greeting
  <2>5. "new" \notin DOMAIN Awaited
        BY DEF Awaited
  <2>6. CallOK' /\ Greeting' /\ AnswerOwn'
        BY <1>1, <1>2, <1>3, <2>1, <2>4, <2>5 DEF CallOK, Greeting, AnswerOwn
  <2> QED BY <2>3, <2>6, FreshNext
<1> QED BY <1>1, <1>3, <1>4, <1>5, GreetClose

LEMMA GreetDevice ==
  ASSUME FullInv, DeviceGreet
  PROVE  CallOK' /\ Greeting' /\ OwnInv' /\ AnswerOwn'
<1> DEFINE v == [kind |-> "version", to |-> calls, newer |-> FALSE]
<1>1. /\ UNCHANGED <<service, parent, dataClass, direction, pc, call, class, calls, ret, answer, toDevice, behind, devClass>>
      /\ stage = "greet" /\ stage' = "offered" /\ parent = "open" /\ inbox' = Append(inbox, v)
      BY DEF DeviceGreet, syncVars, callVars, Said, About
<1>2. v \in Answers /\ v.kind = "version"
      BY DEF Answers, AnswerKinds, FullInv, IInv, TypeOK
<1> HIDE DEF v
<1>3. /\ pc = "version" /\ inbox = <<>> /\ call = "new" /\ devClass = "none" /\ dataClass = "none" /\ direction = "deviceToComputer"
      /\ \A i \in 1..Len(toDevice) : toDevice[i].kind = "versionsOk"
      BY <1>1 DEF FullInv, Greeting, CallOK
<1>4. inbox' \in Seq(Answers) /\ Len(inbox') = 1 /\ inbox'[1] = v
      BY <1>1, <1>2, <1>3
<1>5. \A i \in 1..Len(inbox') : inbox'[i].kind \in {"version", "deviceReady"}
      BY <1>2, <1>4
<1>6. Fresh'
      BY <1>1, <1>3, <1>4, <1>5 DEF Fresh
<1>7. CallOK' /\ Greeting' /\ AnswerOwn'
      BY <1>1, <1>3, <1>4, <1>5 DEF CallOK, Greeting, AnswerOwn
<1> QED BY <1>6, <1>7, FreshNext

-----------------------------------------------------------------------------
(* The steps                                                               *)

LEMMA DeviceOwn ==
  ASSUME FullInv, DeviceAnswer \/ DeviceCancel
  PROVE  CallOK' /\ Greeting' /\ OwnInv' /\ AnswerOwn'
<1>1. /\ UNCHANGED <<service, parent, dataClass, direction, pc, call, class, calls, ret, answer, conn, behind>>
      /\ conn = "open" /\ inbox \in Seq(Answers) /\ toDevice \in Seq(Requests)
      BY DEF DeviceAnswer, DeviceCancel, syncVars, callVars, FullInv, CallOK, IInv, QueueOK
<1>2. CASE DeviceAnswer
  <2> DEFINE m == Head(toDevice)
  <2>1. Reading(m)
    <3>1. Answered(m)
          BY <1>1, <1>2, AnswerCases DEF FullInv
    <3> QED BY <1>1, <1>2, <3>1 DEF Reading, DeviceAnswer
  <2> HIDE DEF m
  <2>2. OwnInv'
    <3>1. (\A op \in OwnCalls : Numbered(op)) /\ Streams => (\A op \in OwnCalls : Numbered(op)') /\ Streams'
          BY <2>1, ReadStreams
    <3>2. Taken => Taken'
          BY <1>1 DEF Taken
    <3> QED BY <1>1, <3>1, <3>2 DEF FullInv, OwnInv
  <2>3. CallOK'
    <3>1. inbox' \in Seq(Answers)
          BY <2>1, DeviceReads DEF Reading
    <3> QED BY <1>1, <3>1 DEF FullInv, CallOK
  <2>4. Greeting'
    <3>1. CASE pc \in {"version", "deviceReady"}
      <4>1. /\ m = toDevice[1] /\ 1 \in 1..Len(toDevice)
            /\ \A i \in 1..Len(toDevice') : i + 1 \in 1..Len(toDevice) /\ toDevice'[i] = toDevice[i + 1]
            BY <2>1, ReadMoves
      <4>2. /\ call = "new" /\ devClass = "none" /\ dataClass = "none"
            /\ \A i \in 1..Len(inbox) : inbox[i].kind \in {"version", "deviceReady"}
            /\ \A i \in 1..Len(toDevice) : toDevice[i].kind = "versionsOk"
            BY <3>1 DEF FullInv, Greeting
      <4>3. m.kind = "versionsOk"
            BY <4>1, <4>2
      <4>4. stage' = "ready" /\ inbox' = Append(inbox, About(m, "deviceReady")) /\ devClass' = devClass
            BY <1>2, <4>3 DEF DeviceAnswer, Said, m
      <4>5. About(m, "deviceReady") \in Answers /\ About(m, "deviceReady").kind = "deviceReady"
        <5>1. m \in Requests
              BY <4>1, <1>1
        <5> QED BY <5>1 DEF About, Answers, AnswerKinds, Requests
      <4>6. \A i \in 1..Len(inbox') : inbox'[i].kind \in {"version", "deviceReady"}
        <5>1. /\ Len(inbox) \in Nat /\ Len(inbox') = Len(inbox) + 1 /\ \A i \in 1..Len(inbox) : inbox'[i] = inbox[i]
              /\ inbox'[Len(inbox) + 1] = About(m, "deviceReady")
              BY <1>1, <4>4, <4>5, AppendFacts
        <5> QED BY <4>2, <4>5, <5>1
      <4>7. \A i \in 1..Len(toDevice') : toDevice'[i].kind = "versionsOk"
            BY <4>1, <4>2
      <4> QED BY <1>1, <4>2, <4>4, <4>6, <4>7 DEF Greeting
    <3>2. CASE pc \notin {"version", "deviceReady"}
      <4>1. stage' \in {stage, "ready"}
            BY <1>2 DEF DeviceAnswer
      <4> QED BY <1>1, <3>2, <4>1 DEF FullInv, Greeting
    <3> QED BY <3>1, <3>2
  <2>5. AnswerOwn'
        BY <1>1 DEF FullInv, AnswerOwn
  <2> QED BY <2>2, <2>3, <2>4, <2>5
<1>3. CASE DeviceCancel
  <2> DEFINE c == [kind |-> "cancelled", to |-> 0, newer |-> FALSE]
  <2>1. c \in Answers /\ c.kind = "cancelled"
    <3>1. 0 \in 0..MaxCalls
          BY ConstAssumption
    <3> QED BY <3>1 DEF Answers, AnswerKinds
  <2>2. inbox' = Append(inbox, c) /\ UNCHANGED <<toDevice, stage>> /\ devClass # "none" /\ devClass' = "none"
        BY <1>3 DEF DeviceCancel, Said, About
  <2> HIDE DEF c
  <2>3. Cancelling
        BY <1>1, <2>1, <2>2 DEF Cancelling
  <2>4. OwnInv'
    <3>1. (\A op \in OwnCalls : Numbered(op)) /\ Streams => (\A op \in OwnCalls : Numbered(op)') /\ Streams'
          BY <2>3, CancelStreams
    <3>2. Taken => Taken'
          BY <1>1 DEF Taken
    <3> QED BY <1>1, <3>1, <3>2 DEF FullInv, OwnInv
  <2>5. CallOK'
    <3>1. inbox' \in Seq(Answers)
          BY <1>1, <2>1, <2>2, AppendFacts
    <3> QED BY <1>1, <3>1 DEF FullInv, CallOK
  <2>6. Greeting' /\ AnswerOwn'
        BY <1>1, <2>2 DEF FullInv, Greeting, AnswerOwn
  <2> QED BY <2>4, <2>5, <2>6
<1> QED BY <1>2, <1>3

LEMMA LostOwn ==
  ASSUME FullInv, DeviceLost \/ UNCHANGED vars
  PROVE  CallOK' /\ Greeting' /\ OwnInv' /\ AnswerOwn'
<1>1. CASE DeviceLost
  <2>1. /\ UNCHANGED <<service, parent, dataClass, direction, pc, call, class, calls, ret, answer, inbox, behind, stage>>
        /\ conn' = "lost" /\ toDevice' = <<>> /\ devClass' = "none"
        BY <1>1 DEF DeviceLost, syncVars, callVars
  <2>2. ASSUME NEW op \in OwnCalls, Numbered(op) PROVE Numbered(op)'
    <3>1. \A i \in Nat : ~Waiting(op, i)'
          BY <2>1 DEF Waiting
    <3> QED BY <2>1, <2>2, <3>1 DEF Numbered, InProgress, Has
  <2>3. Taken => Taken'
        BY <2>1 DEF Taken
  <2>4. OwnInv'
        BY <2>1, <2>2, <2>3 DEF FullInv, OwnInv
  <2>5. CallOK' /\ Greeting' /\ AnswerOwn'
        BY <2>1 DEF FullInv, CallOK, Greeting, AnswerOwn
  <2> QED BY <2>4, <2>5
<1>2. CASE UNCHANGED vars
  <2>1. /\ UNCHANGED <<service, parent, dataClass, direction, pc, call, class, calls, ret, answer, inbox, behind, stage,
                       conn, toDevice, devClass, asked>>
        BY <1>2 DEF vars, syncVars, callVars, devVars
  <2>2. /\ \A op \in OwnCalls : Numbered(op)' = Numbered(op) /\ Single(op)' = Single(op) /\ OwnOnly(op)' = OwnOnly(op)
        BY <2>1 DEF Numbered, Single, OwnOnly, InProgress, Has, Waiting, Dead
  <2>3. LeftStart' = LeftStart /\ OpenStart' = OpenStart /\ BetweenSessions' = BetweenSessions
        BY <2>1 DEF LeftStart, OpenStart, BetweenSessions, InProgress, Has, Waiting, Dead, CancelsBefore, OnlyCancels
  <2>4. SessionOver' = SessionOver /\ DirectionKnown' = DirectionKnown /\ Taken' = Taken
        BY <2>1 DEF SessionOver, DirectionKnown, NotReady, Taken
  <2>5. OwnInv'
        BY <2>1, <2>2, <2>3, <2>4 DEF FullInv, OwnInv, Streams
  <2>6. CallOK' /\ Greeting' /\ AnswerOwn'
        BY <2>1 DEF FullInv, CallOK, Greeting, AnswerOwn
  <2> QED BY <2>5, <2>6
<1> QED BY <1>1, <1>2

\* The client sends m, or nothing.
Sending(m) ==
  /\ inbox \in Seq(Answers) /\ toDevice \in Seq(Requests) /\ m \in Requests
  /\ toDevice' \in {toDevice, Append(toDevice, m)} /\ UNCHANGED <<inbox, devClass, asked, service>>

LEMMA SendMoves ==
  ASSUME NEW m, Sending(m)
  PROVE  /\ Len(toDevice) \in Nat /\ Len(toDevice') \in {Len(toDevice), Len(toDevice) + 1}
         /\ \A i \in 1..Len(toDevice) : toDevice'[i] = toDevice[i]
         /\ \A i \in 1..Len(toDevice') : i \in 1..Len(toDevice) \/ (i = Len(toDevice) + 1 /\ toDevice'[i] = m)
         /\ \A op \in OwnCalls, i \in Nat : Has(op, i)' = Has(op, i)
         /\ \A op \in OwnCalls, i \in Nat :
              Waiting(op, i)' => \/ Waiting(op, i) /\ toDevice'[i] = toDevice[i] /\ i \in 1..Len(toDevice)
                                 \/ m.kind = op /\ i = Len(toDevice) + 1 /\ toDevice'[i] = m
         /\ \A i \in 1..(Len(toDevice) + 1) : CancelsBefore(i) => CancelsBefore(i)'
<1>1. /\ Len(toDevice) \in Nat /\ Len(toDevice') \in {Len(toDevice), Len(toDevice) + 1}
      /\ \A i \in 1..Len(toDevice) : toDevice'[i] = toDevice[i]
      /\ Len(toDevice') = Len(toDevice) + 1 => toDevice'[Len(toDevice) + 1] = m
      BY AppendFacts DEF Sending
<1>2. \A i \in 1..Len(toDevice') : i \in 1..Len(toDevice) \/ (i = Len(toDevice) + 1 /\ toDevice'[i] = m)
      BY <1>1
<1>3. ASSUME NEW op \in OwnCalls, NEW i \in Nat, Waiting(op, i)'
      PROVE  \/ Waiting(op, i) /\ toDevice'[i] = toDevice[i] /\ i \in 1..Len(toDevice)
             \/ m.kind = op /\ i = Len(toDevice) + 1 /\ toDevice'[i] = m
  <2>1. i \in 1..Len(toDevice') /\ toDevice'[i].kind = op /\ ~Dead(i)'
        BY <1>3 DEF Waiting
  <2>2. ASSUME i \in 1..Len(toDevice), Dead(i) PROVE Dead(i)'
    <3>1. \A j \in 1..Len(toDevice') : j < i => j \in 1..Len(toDevice) /\ toDevice'[j] = toDevice[j]
          BY <1>1, <2>2
    <3> QED BY <1>1, <2>2, <3>1 DEF Dead, Sending
  <2> QED BY <1>1, <1>2, <2>1, <2>2 DEF Waiting
<1>4. ASSUME NEW i \in 1..(Len(toDevice) + 1), CancelsBefore(i) PROVE CancelsBefore(i)'
      BY <1>1, <1>4 DEF CancelsBefore
<1>5. \A op \in OwnCalls, i \in Nat : Has(op, i)' = Has(op, i)
      BY DEF Has, Sending
<1> QED BY <1>1, <1>2, <1>3, <1>4, <1>5

\* A request for which nothing is under way yet, or one that has no answer of its own.
LEMMA SendSingle ==
  ASSUME NEW m, Sending(m), NEW op \in OwnCalls, Single(op),
         m.kind = op => \A i \in Nat : ~Has(op, i) /\ ~Waiting(op, i)
  PROVE  Single(op)'
<1>1. CASE m.kind = op
  <2>1. \A i \in Nat : ~Has(op, i)' /\ (Waiting(op, i)' => i = Len(toDevice) + 1)
        BY <1>1, SendMoves
  <2> QED BY <2>1 DEF Single
<1>2. CASE m.kind # op
  <2>1. \A i \in Nat : (Has(op, i)' <=> Has(op, i)) /\ (Waiting(op, i)' => Waiting(op, i))
        BY <1>2, SendMoves
  <2>2. \A i, j \in Nat : /\ Has(op, i) /\ Has(op, j) => i = j
                          /\ Waiting(op, i) /\ Waiting(op, j) => i = j
                          /\ ~(Has(op, i) /\ Waiting(op, j))
        BY DEF Single
  <2>3. \A i, j \in Nat : /\ Has(op, i)' /\ Has(op, j)' => i = j
                          /\ Waiting(op, i)' /\ Waiting(op, j)' => i = j
                          /\ ~(Has(op, i)' /\ Waiting(op, j)')
        BY ONLY <2>1, <2>2
  <2> QED BY <2>3 DEF Single
<1> QED BY <1>1, <1>2

LEMMA SendOwnOnly ==
  ASSUME NEW m, Sending(m), NEW op \in OwnCalls, OwnOnly(op), ~InProgress(op)' => ~InProgress(op) /\ m.kind # op
  PROVE  OwnOnly(op)'
<1>1. ASSUME op # "start", ~InProgress(op)', NEW i \in Nat PROVE ~Has(op, i)' /\ ~Waiting(op, i)'
  <2>1. ~Has(op, i) /\ ~Waiting(op, i) /\ m.kind # op
        BY <1>1 DEF OwnOnly
  <2> QED BY <2>1, SendMoves
<1> QED BY <1>1 DEF OwnOnly

LEMMA SendLeftStart ==
  ASSUME NEW m, Sending(m), LeftStart, m.kind # "start", ~InProgress("start"), dataClass' = dataClass
  PROVE  LeftStart'
<1>1. ASSUME NEW i \in Nat, Has("start", i)' PROVE i = 1 /\ dataClass # "none"
  <2>1. Has("start", i)
        BY <1>1, SendMoves, OwnFacts
  <2> QED BY <2>1 DEF LeftStart
<1>2. ASSUME NEW i \in Nat, Waiting("start", i)'
      PROVE  inbox = <<>> /\ dataClass # "none" /\ devClass = "none" /\ CancelsBefore(i)'
  <2>1. Waiting("start", i) /\ i \in 1..Len(toDevice)
        BY <1>2, SendMoves, OwnFacts
  <2>2. i \in 1..(Len(toDevice) + 1)
        BY <2>1, SendMoves
  <2> QED BY <2>1, <2>2, SendMoves DEF LeftStart
<1> QED BY <1>1, <1>2 DEF LeftStart, Sending

LEMMA SendOver ==
  ASSUME NEW m, Sending(m), SessionOver
  PROVE  SessionOver'
BY DEF SessionOver, Sending

LEMMA SendDirection ==
  ASSUME NEW m, Sending(m), DirectionKnown, NotReady => NotReady', m.kind = "start" => NotReady'
  PROVE  DirectionKnown'
<1>1. devClass' # "none" /\ ~asked' => NotReady'
      BY DEF DirectionKnown, Sending
<1>2. ASSUME NEW i \in 1..Len(toDevice'), toDevice'[i].kind = "start" PROVE NotReady'
  <2>1. CASE i \in 1..Len(toDevice)
    <3>1. toDevice[i].kind = "start"
          BY <1>2, <2>1, SendMoves
    <3> QED BY <2>1, <3>1 DEF DirectionKnown
  <2>2. CASE i = Len(toDevice) + 1 /\ toDevice'[i] = m
        BY <1>2, <2>2
  <2> QED BY <2>1, <2>2, SendMoves
<1> QED BY <1>1, <1>2 DEF DirectionKnown

\* What a call that is not refused does.
LEMMA CallMoves ==
  ASSUME FullInv, NEW op \in CallsOf[service], NEW c \in ClassOrNone, NEW t \in BOOLEAN, Call(op, c, t),
         Refusal(op) = "none"
  PROVE  /\ op \in SyncCalls => (op # "start" <=> dataClass # "none")
         /\ service = "mobilesync" <=> op \in SyncCalls
         /\ conn = "open" /\ op \notin Receives =>
              /\ toDevice' = Append(toDevice, [kind |-> op, to |-> calls', class |-> c])
              /\ op \in DOMAIN Awaited => pc' = "receive"
         /\ op \in Receives => toDevice' = toDevice /\ pc' = "receive"
         /\ op \notin Receives /\ conn # "open" => toDevice' = toDevice /\ pc' = "idle" /\ ret' = "MUX_ERROR"
         /\ pc' = "receive" => UNCHANGED <<dataClass, direction, behind>>
         /\ pc' = "receive" \/ (pc' = "idle" /\ op \notin DOMAIN Awaited) \/ (pc' = "idle" /\ ret' = "MUX_ERROR")
         /\ pc' = "idle" /\ op \notin {"start", "finish", "cancel"} => UNCHANGED <<dataClass, direction, behind>>
         /\ pc' = "idle" /\ op \in {"finish", "cancel"} => dataClass' = "none" /\ direction' = "deviceToComputer"
         /\ pc' = "idle" /\ op = "cancel" /\ ~behind' => inbox = <<>> /\ toDevice = <<>>
         /\ ~behind' => ~behind
<1>1. op \in SyncCalls => (op # "start" <=> dataClass # "none")
      BY DEF Refusal
<1>2. service = "mobilesync" <=> op \in SyncCalls
      BY CallFacts DEF FullInv, IInv, TypeOK
<1>3. pc = "idle" /\ class' = c
      BY DEF Call
<1>4. /\ toDevice' = IF op \in Receives THEN toDevice ELSE Sent(op, c)
      /\ IF op \in Receives \/ (op \in DOMAIN Awaited /\ conn = "open")
         THEN pc' = "receive" /\ UNCHANGED <<ret, syncVars, behind>>
         ELSE /\ ret' = SendError /\ Session(op, ret') /\ UNCHANGED pc
              /\ behind' = (behind \/ (op = "cancel" /\ (inbox # <<>> \/ toDevice # <<>>)))
      BY DEF Call
<1>5. conn # "open" => SendError = "MUX_ERROR"
      BY DEF SendError
<1>6. op \in {"finish", "cancel", "start"} => op \notin Receives
      BY DEF Receives
<1>7. ASSUME op \in Receives \/ (op \in DOMAIN Awaited /\ conn = "open")
      PROVE  pc' = "receive" /\ UNCHANGED <<dataClass, direction, behind>>
      BY <1>4, <1>7 DEF syncVars
<1>8. ASSUME ~(op \in Receives \/ (op \in DOMAIN Awaited /\ conn = "open"))
      PROVE  /\ pc' = "idle" /\ ret' = SendError
             /\ op \notin {"start", "finish", "cancel"} => UNCHANGED <<dataClass, direction>>
             /\ op \in {"finish", "cancel"} => dataClass' = "none" /\ direction' = "deviceToComputer"
      BY <1>3, <1>4, <1>8 DEF Session, syncVars
<1>9. ASSUME ~(op \in Receives \/ (op \in DOMAIN Awaited /\ conn = "open"))
      PROVE  /\ ~behind' => ~behind /\ ~(op = "cancel" /\ (inbox # <<>> \/ toDevice # <<>>))
             /\ op # "cancel" => behind' = behind
  <2>1. behind' = (behind \/ (op = "cancel" /\ (inbox # <<>> \/ toDevice # <<>>)))
        BY <1>4, <1>9
  <2>2. behind \in BOOLEAN
        BY Zenon DEF FullInv, IInv, TypeOK
  <2> QED BY ONLY <2>1, <2>2
<1>10. conn = "open" /\ op \notin Receives => toDevice' = Append(toDevice, [kind |-> op, to |-> calls', class |-> c])
      BY <1>4 DEF Sent
<1>11. conn # "open" \/ op \in Receives => toDevice' = toDevice
      BY <1>4 DEF Sent
<1> QED
  <2>1. CASE op \in Receives \/ (op \in DOMAIN Awaited /\ conn = "open")
        BY <1>1, <1>2, <1>7, <1>10, <1>11, <2>1
  <2>2. CASE ~(op \in Receives \/ (op \in DOMAIN Awaited /\ conn = "open"))
        BY <1>1, <1>2, <1>5, <1>8, <1>9, <1>10, <1>11, <2>2
  <2> QED BY <2>1, <2>2

\* A call whose request goes out, or that only waits.
LEMMA CallStreams ==
  ASSUME FullInv, NEW op \in CallsOf[service], NEW c \in ClassOrNone, NEW t \in BOOLEAN, Call(op, c, t),
         Refusal(op) = "none", conn = "open", ~behind', Streams
  PROVE  Streams' /\ \A x \in OwnCalls : Numbered(x)'
<1> DEFINE m == [kind |-> op, to |-> calls', class |-> c]
<1>1. /\ pc = "idle" /\ UNCHANGED <<service, inbox, devClass, asked>> /\ call' = op
      /\ calls' \in 0..MaxCalls /\ op \in Calls
      BY CallFacts, ConstAssumption DEF Call, devVars, FullInv, IInv, TypeOK
<1>2. m \in Requests /\ m.kind = op /\ m.to = calls'
      BY <1>1, SentFacts
<1>3. /\ op \notin Receives => toDevice' = Append(toDevice, m)
      /\ op \in Receives => toDevice' = toDevice
      BY CallMoves
<1> HIDE DEF m
<1>4. Sending(m)
      BY <1>1, <1>2, <1>3 DEF Sending, FullInv, CallOK, IInv, QueueOK
<1>5. \A x \in OwnCalls : ~InProgress(x)
      BY <1>1 DEF InProgress
<1>6. op \in OwnCalls => \A i \in Nat : ~Has(op, i) /\ ~Waiting(op, i)
  <2>1. op = "start" => dataClass = "none"
        BY CallMoves, CallFacts
  <2>2. op = "start" => \A i \in Nat : ~Has(op, i) /\ ~Waiting(op, i)
        BY <1>5, <2>1, OwnFacts DEF LeftStart, Streams
  <2>3. op \in OwnCalls \ {"start"} => \A i \in Nat : ~Has(op, i) /\ ~Waiting(op, i)
        BY <1>5 DEF OwnOnly, Streams
  <2> QED BY <2>2, <2>3
<1>7. ASSUME op \in OwnCalls PROVE pc' = "receive" /\ InProgress(op)'
  <2>1. op \notin Receives /\ op \in DOMAIN Awaited
        BY <1>7, OwnFacts
  <2>2. pc' = "receive"
        BY <2>1, CallMoves
  <2> QED BY <1>1, <2>2 DEF InProgress
<1>8. ASSUME NEW x \in OwnCalls PROVE Single(x)' /\ OwnOnly(x)' /\ Numbered(x)'
  <2>1. Single(x)'
        BY <1>2, <1>4, <1>6, SendSingle DEF Streams
  <2>2. OwnOnly(x)'
    <3>1. ~InProgress(x)' => ~InProgress(x) /\ m.kind # x
          BY <1>2, <1>5, <1>7
    <3> QED BY <1>4, <3>1, SendOwnOnly DEF Streams
  <2>3. Numbered(x)'
    <3> SUFFICES ASSUME InProgress(x)'
                 PROVE  /\ \A i \in Nat : ~Has(x, i)'
                        /\ \A i \in Nat : Waiting(x, i)' => toDevice'[i].to = calls'
        BY DEF Numbered
    <3>1. x = op
          BY <1>1 DEF InProgress
    <3>2. \A i \in Nat : ~Has(x, i) /\ ~Waiting(x, i)
          BY <1>6, <3>1
    <3> QED BY <1>2, <1>4, <3>2, SendMoves
  <2> QED BY <2>1, <2>2, <2>3
<1>9. CASE op = "start"
  <2>1. pc' = "receive" /\ UNCHANGED <<dataClass, direction>> /\ dataClass = "none" /\ service = "mobilesync"
    <3>1. op \in OwnCalls /\ op \in SyncCalls
          BY <1>9, OwnFacts, CallFacts
    <3>2. pc' = "receive"
          BY <1>7, <3>1
    <3>3. UNCHANGED <<dataClass, direction>> /\ dataClass = "none" /\ service = "mobilesync"
          BY <1>9, <3>1, <3>2, CallMoves
    <3> QED BY <3>2, <3>3
  <2>2. toDevice' = Append(toDevice, m)
        BY <1>3, <1>9, OwnFacts
  <2>3. /\ devClass # "none" => inbox = <<>> /\ toDevice # <<>> /\ OnlyCancels
        /\ inbox # <<>> /\ inbox[1].kind = "cancelled" => Len(inbox) = 1 /\ OnlyCancels
        /\ \A i \in 1..Len(inbox) : inbox[i].kind # "readyToReceive"
        BY <1>1, <2>1 DEF BetweenSessions, Streams
  <2>4. OpenStart'
    <3>1. \A i \in Nat : ~Has("start", i)'
          BY <1>4, <1>6, <1>9, SendMoves, OwnFacts
    <3>2. ASSUME NEW i \in Nat, Waiting("start", i)'
          PROVE  /\ devClass # "none" => inbox = <<>> /\ i > 1 /\ CancelsBefore(i)'
                 /\ inbox # <<>> /\ inbox[1].kind = "cancelled" => Len(inbox) = 1 /\ CancelsBefore(i)'
      <4>1. i = Len(toDevice) + 1 /\ Len(toDevice) \in Nat
            BY <1>4, <1>6, <1>9, <3>2, SendMoves, OwnFacts
      <4>2. OnlyCancels => CancelsBefore(i)'
        <5>1. OnlyCancels => CancelsBefore(i)
              BY <4>1 DEF OnlyCancels, CancelsBefore
        <5> QED BY <1>4, <4>1, <5>1, SendMoves
      <4>3. toDevice # <<>> => i > 1
        <5>1. toDevice \in Seq(Requests)
              BY <1>4 DEF Sending
        <5> QED BY <4>1, <5>1
      <4> QED BY <2>3, <4>2, <4>3
    <3> QED BY <1>1, <3>1, <3>2 DEF OpenStart
  <2>5. LeftStart' /\ BetweenSessions'
    <3>1. InProgress("start")'
          BY <1>1, <1>9, <2>1 DEF InProgress
    <3> QED BY <2>1, <3>1 DEF LeftStart, BetweenSessions
  <2>6. DirectionKnown'
    <3>1. direction = "deviceToComputer"
          BY <2>1 DEF FullInv, CallOK
    <3>2. NotReady'
          BY <1>1, <2>1, <2>3, <3>1 DEF NotReady
    <3> QED BY <3>2 DEF DirectionKnown
  <2>7. SessionOver'
        BY <1>4, SendOver DEF Streams
  <2> QED BY <1>8, <2>4, <2>5, <2>6, <2>7 DEF Streams
<1>10. CASE op # "start"
  <2>1. OpenStart' /\ SessionOver'
    <3>1. ~InProgress("start")'
          BY <1>1, <1>10 DEF InProgress
    <3>2. SessionOver'
          BY <1>4, SendOver DEF Streams
    <3> QED BY <3>1, <3>2 DEF OpenStart
  <2>2. CASE UNCHANGED <<dataClass, direction>>
    <3>1. LeftStart'
          BY <1>2, <1>4, <1>5, <1>10, <2>2, SendLeftStart, OwnFacts DEF Streams
    <3>2. DirectionKnown'
      <4>1. pc' # "reply"
            BY CallMoves
      <4>2. NotReady => NotReady'
            BY <1>1, <2>2, <4>1 DEF NotReady
      <4> QED BY <1>2, <1>4, <1>10, <4>2, SendDirection DEF Streams
    <3>3. BetweenSessions'
      <4>1. service = "mobilesync" => dataClass # "none"
            BY <1>10, CallMoves
      <4> QED BY <1>1, <2>2, <4>1 DEF BetweenSessions
    <3> QED BY <1>8, <2>1, <3>1, <3>2, <3>3 DEF Streams
  <2>3. CASE ~UNCHANGED <<dataClass, direction>>
    <3>1. pc' = "idle" /\ op = "cancel" /\ dataClass' = "none" /\ direction' = "deviceToComputer"
          /\ inbox = <<>> /\ toDevice = <<>>
      <4>1. op \in {"finish", "cancel"} /\ pc' = "idle"
            BY <1>10, <2>3, CallMoves
      <4>2. op # "finish"
        <5>1. "finish" \in DOMAIN Awaited /\ "finish" \notin Receives
              BY DEF Awaited, Receives
        <5> QED BY <4>1, <5>1, CallMoves
      <4> QED BY <4>1, <4>2, CallMoves
    <3>2. toDevice' = Append(<<>>, m) /\ inbox' = <<>>
      <4>1. op \notin Receives
            BY <3>1 DEF Receives
      <4> QED BY <1>1, <1>3, <3>1, <4>1
    <3>3. Len(toDevice') = 1 /\ toDevice' # <<>> /\ toDevice'[1].kind = "cancel"
          BY <1>2, <3>1, <3>2
    <3>4. OnlyCancels' /\ \A i \in 1..Len(toDevice') : toDevice'[i].kind = "cancel"
          BY <3>3 DEF OnlyCancels
    <3>5. \A i \in Nat : ~Has("start", i)' /\ ~Waiting("start", i)'
          BY <3>2, <3>4 DEF Has, Waiting
    <3>6. LeftStart' /\ BetweenSessions'
          BY <3>2, <3>3, <3>4, <3>5 DEF LeftStart, BetweenSessions
    <3>7. DirectionKnown'
          BY <3>1, <3>2 DEF DirectionKnown, NotReady
    <3> QED BY <1>8, <2>1, <3>6, <3>7 DEF Streams
  <2> QED BY <2>2, <2>3
<1> QED BY <1>9, <1>10

\* Once the handshake is over, it stays so.
LEMMA GreetingKept ==
  ASSUME FullInv, parent # "none", pc \notin {"version", "deviceReady"}, pc' \notin {"version", "deviceReady"},
         stage' = stage
  PROVE  Greeting'
BY DEF FullInv, Greeting

LEMMA CallOwn ==
  ASSUME FullInv, NEW op \in CallsOf[service], NEW c \in ClassOrNone, NEW t \in BOOLEAN, Call(op, c, t),
         op = "start" => c # "none"
  PROVE  CallOK' /\ Greeting' /\ OwnInv' /\ AnswerOwn'
<1>1. /\ pc = "idle" /\ parent # "none" /\ UNCHANGED <<service, parent, conn, inbox, devClass, asked, stage>>
      /\ call' = op /\ class' = c
      BY DEF Call, devVars
<1>2. pc' \in {"idle", "receive"}
      BY DEF Call
<1>3. Greeting'
      BY <1>1, <1>2, GreetingKept
<1>4. CASE Refusal(op) # "none"
  <2>1. UNCHANGED <<pc, dataClass, direction, toDevice, behind>> /\ ret' # "SUCCESS"
        BY <1>4 DEF Call, Refusal, syncVars
  <2>2. \A x \in OwnCalls : Numbered(x)' /\ InProgress(x)' = InProgress(x)
        BY <1>1, <2>1 DEF Numbered, InProgress
  <2>3. Streams => Streams'
    <3>1. \A x \in OwnCalls : Single(x)' = Single(x) /\ OwnOnly(x)' = OwnOnly(x)
          BY <1>1, <2>1 DEF Single, OwnOnly, InProgress, Has, Waiting, Dead
    <3>2. LeftStart' = LeftStart /\ OpenStart' = OpenStart /\ BetweenSessions' = BetweenSessions
          BY <1>1, <2>1 DEF LeftStart, OpenStart, BetweenSessions, InProgress, Has, Waiting, Dead, CancelsBefore, OnlyCancels
    <3>3. SessionOver' = SessionOver /\ DirectionKnown' = DirectionKnown
          BY <1>1, <2>1 DEF SessionOver, DirectionKnown, NotReady
    <3> QED BY <3>1, <3>2, <3>3 DEF Streams
  <2>4. OwnInv'
        BY <1>1, <2>1, <2>2, <2>3 DEF FullInv, OwnInv, Taken
  <2>5. CallOK' /\ AnswerOwn'
        BY <1>1, <2>1 DEF FullInv, CallOK, AnswerOwn
  <2> QED BY <1>3, <2>4, <2>5
<1>5. CASE Refusal(op) = "none"
  <2>1. /\ op \in SyncCalls => (op # "start" <=> dataClass # "none")
        /\ service = "mobilesync" <=> op \in SyncCalls
        /\ pc' = "receive" => UNCHANGED <<dataClass, direction, behind>>
        /\ pc' = "receive" \/ (pc' = "idle" /\ op \notin DOMAIN Awaited) \/ (pc' = "idle" /\ ret' = "MUX_ERROR")
        /\ pc' = "idle" /\ op \notin {"start", "finish", "cancel"} => UNCHANGED <<dataClass, direction, behind>>
        /\ pc' = "idle" /\ op \in {"finish", "cancel"} => dataClass' = "none" /\ direction' = "deviceToComputer"
        /\ ~behind' => ~behind
        BY <1>5, CallMoves
  <2>2. pc' = "idle" /\ op = "start" => dataClass' = c /\ direction' = "deviceToComputer"
    <3>1. ASSUME pc' = "idle", op = "start" PROVE Session(op, ret')
          BY <1>5, <3>1 DEF Call
    <3> QED BY <1>1, <3>1 DEF Session
  <2>3. CallOK'
        BY <1>1, <1>2, <2>1, <2>2 DEF FullInv, CallOK
  <2>4. AnswerOwn'
        BY <1>1, <1>2, <2>1 DEF AnswerOwn
  <2>5. Taken'
        BY <1>2 DEF Taken
  <2>6. conn # "open" => \A x \in OwnCalls : Numbered(x)'
    <3>1. ASSUME conn # "open", NEW x \in OwnCalls PROVE ~InProgress(x)'
      <4>1. op \notin Receives => pc' = "idle"
            BY <1>5, <3>1, CallMoves
      <4> QED BY <1>1, <4>1, OwnFacts DEF InProgress
    <3> QED BY <3>1 DEF Numbered
  <2>7. ASSUME ~behind', conn = "open" PROVE Streams' /\ \A x \in OwnCalls : Numbered(x)'
    <3>1. Streams
          BY <1>1, <2>1, <2>7 DEF FullInv, OwnInv
    <3> QED BY <1>5, <2>7, <3>1, CallStreams
  <2>8. OwnInv'
        BY <1>1, <2>5, <2>6, <2>7 DEF OwnInv
  <2> QED BY <1>3, <2>3, <2>4, <2>8
<1> QED BY <1>4, <1>5

LEMMA ReplyOwn ==
  ASSUME FullInv, Reply
  PROVE  CallOK' /\ Greeting' /\ OwnInv' /\ AnswerOwn'
<1> DEFINE m == [kind |-> IF call = "ready" THEN "ping" ELSE "backupOk", to |-> calls', class |-> "none"]
<1>1. /\ pc = "reply" /\ pc' = "idle" /\ ret' = SendError
      /\ UNCHANGED <<call, class, calls, service, parent, dataClass, answer, conn, inbox, behind, stage, devClass, asked>>
      /\ toDevice' = Sent(IF call = "ready" THEN "ping" ELSE "backupOk", "none")
      /\ direction' = IF call = "ready" /\ conn = "open" THEN "computerToDevice" ELSE direction
      BY DEF Reply, callVars, devVars
<1>2. m \in Requests /\ m.kind \in {"ping", "backupOk"}
      BY <1>1 DEF Requests, ClassOrNone, FullInv, IInv, TypeOK
<1>3. toDevice' \in {toDevice, Append(toDevice, m)}
      BY <1>1 DEF Sent
<1> HIDE DEF m
<1>4. Sending(m)
      BY <1>1, <1>2, <1>3 DEF Sending, FullInv, CallOK, IInv, QueueOK
<1>5. parent = "open" /\ call \in {"ready", "backup"} /\ (service = "mobilesync" => dataClass # "none")
  <2>1. /\ parent = "open" /\ call \in {"ready", "backup"}
        BY <1>1 DEF FullInv, IInv, TypeOK, CallOK
  <2> QED BY <1>1, <2>1 DEF FullInv, CallOK
<1>6. Greeting'
      BY <1>1, <1>5, GreetingKept
<1>7. CallOK'
  <2>1. dataClass = "none" => call # "ready"
    <3>1. call = "ready" => service = "mobilesync"
      <4>1. call \in CallsOf[service] /\ service \in Services
            BY <1>1 DEF FullInv, IInv, QueueOK, TypeOK
      <4> QED BY <4>1, CallFacts DEF SyncCalls
    <3> QED BY <1>5, <3>1
  <2> QED BY <1>1, <1>5, <2>1 DEF FullInv, CallOK
<1>8. ASSUME ~behind PROVE Taken
      BY <1>5, <1>8 DEF FullInv, OwnInv
<1>9. AnswerOwn'
      BY <1>1, <1>5, <1>8 DEF AnswerOwn, Taken, Receives
<1>10. \A x \in OwnCalls : Numbered(x)' /\ ~InProgress(x) /\ ~InProgress(x)' /\ m.kind # x
      BY <1>1, <1>2, OwnFacts DEF Numbered, InProgress
<1>11. ASSUME Streams, conn = "open" PROVE Streams'
  <2>1. \A x \in OwnCalls : Single(x)' /\ OwnOnly(x)'
    <3> SUFFICES ASSUME NEW x \in OwnCalls PROVE Single(x)' /\ OwnOnly(x)'
        OBVIOUS
    <3>1. Single(x) /\ OwnOnly(x)
          BY <1>11 DEF Streams
    <3> QED BY <1>4, <1>10, <3>1, SendSingle, SendOwnOnly
  <2>2. LeftStart' /\ OpenStart' /\ SessionOver'
    <3>1. LeftStart' /\ SessionOver'
          BY <1>1, <1>4, <1>10, <1>11, SendLeftStart, SendOver, OwnFacts DEF Streams
    <3> QED BY <1>10, <3>1, OwnFacts DEF OpenStart
  <2>3. BetweenSessions'
        BY <1>1, <1>5 DEF BetweenSessions
  <2>4. DirectionKnown'
    <3>1. NotReady => NotReady'
          BY <1>1 DEF NotReady
    <3> QED BY <1>2, <1>4, <1>11, <3>1, SendDirection DEF Streams
  <2> QED BY <2>1, <2>2, <2>3, <2>4 DEF Streams
<1>12. OwnInv'
      BY <1>1, <1>10, <1>11 DEF FullInv, OwnInv, Taken
<1> QED BY <1>6, <1>7, <1>9, <1>12

\* What a call has taken for its answer, if it has left nothing for a later call.
LEMMA ResultFacts ==
  ASSUME NEW op \in Waits, NEW r, ~LeavesBehind(op, r)
  PROVE  /\ r # Nothing
         /\ op = "start" => r.kind \in {"started", "refused", "cancelled"} /\ (Result(op, r) = "SUCCESS" => r.kind = "started")
         /\ op = "finish" => r.kind \in {"finished", "refused", "cancelled"}
         /\ op = "clear" => r.kind \in {"willClear", "cancelled"} /\ (Result(op, r) = "SUCCESS" => r.kind = "willClear")
         /\ op \in OwnCalls \ {"start", "clear"} => r.kind = Awaited[op]
         /\ op \in {"ready", "remap", "receiveRestored"} /\ Result(op, r) = "SUCCESS" => r.kind = Awaited[op]
<1>1. /\ Result(op, r) \in {"SUCCESS", "CANCELLED", "SYNC_REFUSED", "BAD_VERSION"}
      /\ op \in {"start", "finish"} => r.kind \in {Awaited[op], "refused", "cancelled"}
      BY DEF LeavesBehind
<1>2. r # Nothing
  <2>1. r = Nothing => Result(op, r) \in {"RECEIVE_TIMEOUT", "MUX_ERROR"}
        BY DEF Result, ReceiveError
  <2> QED BY <1>1, <2>1
<1>3. /\ Awaited["start"] = "started" /\ Awaited["finish"] = "finished" /\ Awaited["clear"] = "willClear"
      BY DEF Awaited
<1>4. ASSUME op \in SyncCalls PROVE Result(op, r) = SyncResult(op, r)
      BY <1>2, <1>4 DEF Result
<1>5. ASSUME op \notin SyncCalls PROVE Result(op, r) = MessageResult(op, r)
      BY <1>2, <1>5 DEF Result
<1>6. op \in {"start", "finish", "clear", "ready", "remap"} => op \in SyncCalls
      BY DEF SyncCalls
<1>7. op \in (OwnCalls \ {"start", "clear"}) \union {"receiveRestored"} => op \notin SyncCalls /\ op # "receive"
      BY DEF SyncCalls, OwnCalls
<1>8. ASSUME op = "start" PROVE r.kind \in {"started", "refused", "cancelled"} /\ (Result(op, r) = "SUCCESS" => r.kind = "started")
      BY <1>1, <1>3, <1>4, <1>6, <1>8 DEF SyncResult
<1>9. ASSUME op = "clear" PROVE r.kind \in {"willClear", "cancelled"} /\ (Result(op, r) = "SUCCESS" => r.kind = "willClear")
      BY <1>1, <1>3, <1>4, <1>6, <1>9 DEF SyncResult
<1>10. ASSUME op \in OwnCalls \ {"start", "clear"} PROVE r.kind = Awaited[op]
      BY <1>1, <1>5, <1>7, <1>10 DEF MessageResult
<1>11. ASSUME op \in {"ready", "remap"}, Result(op, r) = "SUCCESS" PROVE r.kind = Awaited[op]
      BY <1>4, <1>6, <1>11 DEF SyncResult
<1>12. ASSUME op = "receiveRestored", Result(op, r) = "SUCCESS" PROVE r.kind = Awaited[op]
      BY <1>5, <1>7, <1>12 DEF MessageResult
<1> QED BY <1>1, <1>2, <1>3, <1>8, <1>9, <1>10, <1>11, <1>12

\* The client takes the first message.
Taking(r) ==
  /\ inbox \in Seq(Answers) /\ inbox # <<>> /\ r = Head(inbox) /\ inbox' = Tail(inbox)
  /\ pc = "receive" /\ pc' \in {"idle", "reply"}
  /\ UNCHANGED <<service, call, class, calls, devClass, asked>>

LEMMA TakeMoves ==
  ASSUME NEW r, Taking(r)
  PROVE  /\ r = inbox[1] /\ 1 \in 1..Len(inbox) /\ Len(inbox) \in Nat /\ Len(inbox') = Len(inbox) - 1 /\ inbox' \in Seq(Answers)
         /\ \A i \in 1..Len(inbox') : i + 1 \in 1..Len(inbox) /\ i + 1 \in Nat /\ i + 1 # 1 /\ inbox'[i] = inbox[i + 1]
         /\ \A op \in OwnCalls, i \in Nat : Has(op, i)' => Has(op, i + 1) /\ i + 1 \in Nat /\ i + 1 # 1
         /\ \A op \in OwnCalls : r.kind \in AnswersOf(op) => Has(op, 1)
<1>1. /\ r = inbox[1] /\ 1 \in 1..Len(inbox) /\ Len(inbox) \in Nat /\ Len(inbox') = Len(inbox) - 1 /\ inbox' \in Seq(Answers)
      /\ \A i \in 1..Len(inbox') : i + 1 \in 1..Len(inbox) /\ inbox'[i] = inbox[i + 1]
      BY TailFacts DEF Taking
<1>2. \A i \in 1..Len(inbox') : i + 1 \in Nat /\ i + 1 # 1
      BY <1>1
<1>3. \A op \in OwnCalls, i \in Nat : Has(op, i)' => Has(op, i + 1) /\ i + 1 \in Nat /\ i + 1 # 1
      BY <1>1, <1>2 DEF Has
<1>4. \A op \in OwnCalls : r.kind \in AnswersOf(op) => Has(op, 1)
      BY <1>1 DEF Has
<1> QED BY <1>1, <1>2, <1>3, <1>4

\* A session is over when the client takes the message that says so.
LEMMA TakeEnd ==
  ASSUME NEW r, Taking(r), r.kind \in {"cancelled", "finished", "refused"}, SessionOver, LeftStart, call # "start"
  PROVE  /\ devClass = "none"
         /\ \A j \in 1..Len(inbox) : j > 1 => inbox[j].kind \notin {"cancelled", "willClear", "readyToReceive"}
<1>1. r = inbox[1] /\ 1 \in 1..Len(inbox) /\ Len(inbox) \in Nat
      BY TakeMoves
<1>2. ASSUME NEW j \in 1..Len(inbox), j > 1, inbox[j].kind = "started" PROVE FALSE
  <2>1. Has("start", j) /\ j \in Nat /\ ~InProgress("start")
        BY <1>1, <1>2, OwnFacts DEF Has, InProgress
  <2> QED BY <1>2, <2>1 DEF LeftStart
<1> QED BY <1>1, <1>2 DEF SessionOver

LEMMA TakeOver ==
  ASSUME NEW r, Taking(r), SessionOver
  PROVE  SessionOver'
<1>1. /\ Len(inbox) \in Nat /\ Len(inbox') = Len(inbox) - 1 /\ devClass' = devClass
      /\ \A i \in 1..Len(inbox') : i + 1 \in 1..Len(inbox) /\ inbox'[i] = inbox[i + 1]
      BY TakeMoves DEF Taking
<1>2. ASSUME NEW i \in 1..Len(inbox'), inbox'[i].kind \in {"cancelled", "finished", "refused"}
      PROVE  \/ /\ devClass' = "none"
                /\ \A j \in 1..Len(inbox') : j > i => inbox'[j].kind \notin {"cancelled", "willClear", "readyToReceive"}
             \/ \E j \in 1..Len(inbox') : j > i /\ inbox'[j].kind = "started"
  <2>1. i + 1 \in 1..Len(inbox) /\ inbox[i + 1].kind \in {"cancelled", "finished", "refused"}
        BY <1>1, <1>2
  <2>2. CASE \E j \in 1..Len(inbox) : j > i + 1 /\ inbox[j].kind = "started"
    <3>1. PICK j \in 1..Len(inbox) : j > i + 1 /\ inbox[j].kind = "started"
          BY <2>2
    <3>2. j - 1 \in 1..Len(inbox') /\ j - 1 > i /\ inbox'[j - 1] = inbox[(j - 1) + 1] /\ (j - 1) + 1 = j
          BY <1>1, <3>1
    <3> QED BY <3>1, <3>2
  <2>3. CASE /\ devClass = "none"
             /\ \A j \in 1..Len(inbox) : j > i + 1 => inbox[j].kind \notin {"cancelled", "willClear", "readyToReceive"}
    <3>1. ASSUME NEW j \in 1..Len(inbox'), j > i PROVE inbox'[j].kind \notin {"cancelled", "willClear", "readyToReceive"}
      <4>1. j + 1 \in 1..Len(inbox) /\ j + 1 > i + 1 /\ inbox'[j] = inbox[j + 1]
            BY <1>1, <3>1
      <4> QED BY <2>3, <4>1
    <3> QED BY <1>1, <2>3, <3>1
  <2> QED BY <2>1, <2>2, <2>3 DEF SessionOver
<1> QED BY <1>2 DEF SessionOver

\* The requests stay under way.
LEMMA TakeSingle ==
  ASSUME NEW r, Taking(r), toDevice' = toDevice, NEW op \in OwnCalls, Single(op)
  PROVE  /\ Single(op)' /\ \A i \in Nat : Waiting(op, i)' = Waiting(op, i)
         /\ r.kind \in AnswersOf(op) => \A i \in Nat : ~Has(op, i)' /\ ~Waiting(op, i)'
<1>1. \A i \in Nat : Waiting(op, i)' = Waiting(op, i)
      BY DEF Waiting, Dead, Taking
<1>2. \A i \in Nat : Has(op, i)' => Has(op, i + 1) /\ i + 1 \in Nat /\ i + 1 # 1
      BY TakeMoves
<1>3. \A i, j \in Nat : /\ Has(op, i) /\ Has(op, j) => i = j
                        /\ Waiting(op, i) /\ Waiting(op, j) => i = j
                        /\ ~(Has(op, i) /\ Waiting(op, j))
      BY DEF Single
<1>4. \A i, j \in Nat : Has(op, i)' /\ Has(op, j)' => i + 1 = j + 1
      BY <1>2, <1>3
<1>5. \A i, j \in Nat : i + 1 = j + 1 => i = j
      OBVIOUS
<1>6. \A i, j \in Nat : ~(Has(op, i)' /\ Waiting(op, j)')
      BY <1>1, <1>2, <1>3
<1>7. Single(op)'
      BY <1>1, <1>3, <1>4, <1>5, <1>6 DEF Single
<1>8. ASSUME r.kind \in AnswersOf(op), NEW i \in Nat PROVE ~Has(op, i)' /\ ~Waiting(op, i)'
  <2>1. Has(op, 1) /\ 1 \in Nat
        BY <1>8, TakeMoves
  <2>2. Has(op, i)' => i + 1 = 1 /\ i + 1 # 1
        BY <1>2, <1>3, <2>1
  <2> QED BY <1>1, <1>3, <2>1, <2>2
<1> QED BY <1>1, <1>7, <1>8

LEMMA ReceiveMoves ==
  ASSUME FullInv, NEW r \in Messages, ReceiveAnswer(r)
  PROVE  /\ call \in Waits /\ call \in CallsOf[service] /\ pc = "receive" /\ pc' \in {"idle", "reply"} /\ parent = "open"
         /\ UNCHANGED <<service, call, class, calls, devClass, asked, stage>> /\ answer' = r
         /\ inbox' \in Seq(Answers)
         /\ ~behind' => ~behind /\ ~LeavesBehind(call, r) /\ Taking(r)
         /\ pc' = "reply" => call \in {"ready", "backup"} /\ Result(call, r) = "SUCCESS" /\ UNCHANGED <<parent, dataClass, direction>>
         /\ pc' = "idle" => ret' = Result(call, r) /\ (ret' = "SUCCESS" => call \notin {"ready", "backup"}) /\ Session(call, Result(call, r))
         /\ conn' \in {conn, "lost"} /\ (conn' = conn => parent' = parent \/ conn = "lost")
         /\ parent' \in {parent, "null"} /\ (parent' = "null" => conn' = "lost") /\ (parent' = parent => toDevice' = toDevice)
<1>1. /\ call \in Waits /\ call \in CallsOf[service] /\ pc = "receive" /\ parent = "open"
      BY DEF ReceiveAnswer, FullInv, IInv, QueueOK, TypeOK
<1>2. /\ pc' \in {"idle", "reply"} /\ UNCHANGED <<service, call, class, calls, devClass, asked, stage>> /\ answer' = r
      BY DEF ReceiveAnswer, callVars, devVars
<1>3. inbox' \in Seq(Answers) /\ (r # Nothing => inbox # <<>> /\ r = Head(inbox) /\ inbox' = Tail(inbox))
  <2>1. inbox \in Seq(Answers) /\ Receive(r)
        BY DEF FullInv, CallOK, ReceiveAnswer
  <2> QED BY <2>1, TailFacts DEF Receive
<1>4. ~behind' => ~behind /\ ~LeavesBehind(call, r)
  <2>1. behind' = (behind \/ LeavesBehind(call, r))
        BY DEF ReceiveAnswer
  <2>2. behind \in BOOLEAN
        BY Zenon DEF FullInv, IInv, TypeOK
  <2> QED BY ONLY <2>1, <2>2
<1>5. ~behind' => Taking(r)
      BY <1>1, <1>2, <1>3, <1>4, ResultFacts DEF Taking, FullInv, CallOK
<1>6. /\ pc' = "reply" => call \in {"ready", "backup"} /\ Result(call, r) = "SUCCESS" /\ UNCHANGED <<parent, dataClass, direction>>
      /\ pc' = "idle" => ret' = Result(call, r) /\ (ret' = "SUCCESS" => call \notin {"ready", "backup"}) /\ Session(call, Result(call, r))
      /\ parent' \in {parent, "null"}
      BY DEF ReceiveAnswer, syncVars
<1>7. /\ conn' = IF parent' = "null" THEN "lost" ELSE conn
      /\ toDevice' = IF parent' = "null" THEN <<>> ELSE toDevice
      BY DEF ReceiveAnswer
<1> QED BY <1>1, <1>2, <1>3, <1>4, <1>5, <1>6, <1>7

LEMMA TakeStreams ==
  ASSUME FullInv, NEW r \in Messages, ReceiveAnswer(r), ~behind', conn' = "open", Streams
  PROVE  Streams'
<1>1. /\ call \in Waits /\ call \in CallsOf[service] /\ pc = "receive" /\ pc' \in {"idle", "reply"}
      /\ UNCHANGED <<service, call, class, calls, devClass, asked>> /\ Taking(r) /\ ~LeavesBehind(call, r)
      /\ toDevice' = toDevice
      BY ReceiveMoves
<1>2. /\ pc' = "reply" => call \in {"ready", "backup"} /\ Result(call, r) = "SUCCESS" /\ UNCHANGED <<dataClass, direction>>
      /\ pc' = "idle" => Session(call, Result(call, r))
      BY ReceiveMoves
<1>3. /\ pc' = "idle" /\ call = "start" => dataClass' = class /\ direction' = "deviceToComputer"
      /\ pc' = "idle" /\ call = "finish" => dataClass' = "none" /\ direction' = "deviceToComputer"
      /\ call \notin {"start", "finish"} => UNCHANGED <<dataClass, direction>>
  <2>1. call # "cancel"
        BY <1>1 DEF Waits, Receives, Awaited
  <2> QED BY <1>1, <1>2, <2>1 DEF Session, syncVars
<1>4. call \in {"start", "finish"} => pc' = "idle"
      BY <1>1, <1>2
<1>5. \A x \in OwnCalls : ~InProgress(x)' /\ (x # call => ~InProgress(x)) /\ InProgress(call)
      BY <1>1 DEF InProgress
<1>6. /\ r = inbox[1] /\ 1 \in 1..Len(inbox) /\ Len(inbox) \in Nat /\ Len(inbox') = Len(inbox) - 1 /\ inbox' \in Seq(Answers)
      /\ \A i \in 1..Len(inbox') : i + 1 \in 1..Len(inbox) /\ i + 1 \in Nat /\ i + 1 # 1 /\ inbox'[i] = inbox[i + 1]
      /\ \A op \in OwnCalls, i \in Nat : Has(op, i)' => Has(op, i + 1) /\ i + 1 \in Nat /\ i + 1 # 1
      /\ inbox # <<>>
      BY <1>1, TakeMoves DEF Taking
<1>7. \A x \in OwnCalls : /\ Single(x)' /\ \A i \in Nat : Waiting(x, i)' = Waiting(x, i)
                          /\ r.kind \in AnswersOf(x) => \A i \in Nat : ~Has(x, i)' /\ ~Waiting(x, i)'
      BY <1>1, TakeSingle DEF Streams
<1>8. SessionOver'
      BY <1>1, TakeOver DEF Streams
<1>9. call # "start" => \A i \in Nat : ~Has("start", i)' /\ ~Waiting("start", i)
  <2> SUFFICES ASSUME call # "start", NEW i \in Nat PROVE ~Has("start", i)' /\ ~Waiting("start", i)
      OBVIOUS
  <2>1. ~InProgress("start") /\ "start" \in OwnCalls
        BY <1>5, OwnFacts
  <2>2. Has("start", i)' => Has("start", i + 1) /\ i + 1 \in Nat /\ i + 1 # 1
        BY <1>6, <2>1
  <2>3. \A j \in Nat : (Has("start", j) => j = 1) /\ (Waiting("start", j) => inbox = <<>>)
        BY <2>1 DEF LeftStart, Streams
  <2> QED BY <1>6, <2>2, <2>3
<1>10. \A x \in OwnCalls : OwnOnly(x)'
  <2> SUFFICES ASSUME NEW x \in OwnCalls, x # "start", NEW i \in Nat PROVE ~Has(x, i)' /\ ~Waiting(x, i)'
      BY DEF OwnOnly
  <2>1. CASE x # call
    <3>1. \A j \in Nat : ~Has(x, j) /\ ~Waiting(x, j)
          BY <1>5, <2>1 DEF OwnOnly, Streams
    <3> QED BY <1>6, <1>7, <3>1
  <2>2. CASE x = call /\ r.kind \in AnswersOf(x)
        BY <1>7, <2>2
  <2>3. CASE x = call /\ r.kind \notin AnswersOf(x)
    <3>1. x = "clear" /\ r.kind = "cancelled"
      <4>1. x # "clear" => r.kind \in AnswersOf(x)
            BY <1>1, <2>3, ResultFacts, OwnFacts
      <4>2. x = "clear" => r.kind \in {"willClear", "cancelled"}
            BY <1>1, <2>3, ResultFacts
      <4> QED BY <2>3, <4>1, <4>2, OwnFacts
    <3>2. /\ devClass = "none"
          /\ \A j \in 1..Len(inbox) : j > 1 => inbox[j].kind # "willClear"
          BY <1>1, <2>3, <3>1, TakeEnd DEF Streams
    <3>3. ~Has(x, i)'
      <4>1. ~Has("clear", i + 1) \/ ~(i + 1 > 1) \/ i + 1 \notin Nat
            BY <3>2, OwnFacts DEF Has
      <4> QED BY <1>6, <3>1, <4>1
    <3>4. ~Waiting(x, i)
      <4>1. \A j \in 1..Len(toDevice) : toDevice[j].kind # "start"
        <5> SUFFICES ASSUME NEW j \in 1..Len(toDevice), toDevice[j].kind = "start" PROVE FALSE
            OBVIOUS
        <5>1. Waiting("start", j) /\ j \in Nat
              BY DEF Waiting, Dead
        <5> QED BY <1>9, <2>3, <3>1, <5>1
      <4> QED BY <3>1, <3>2, <4>1 DEF Waiting, Dead
    <3> QED BY <1>7, <3>3, <3>4
  <2> QED BY <2>1, <2>2, <2>3
<1>11. LeftStart'
  <2>1. CASE call # "start"
        BY <1>7, <1>9, <2>1, OwnFacts DEF LeftStart
  <2>2. CASE call = "start" /\ r.kind \in {"started", "refused"}
        BY <1>7, <2>2, OwnFacts DEF LeftStart
  <2>3. CASE call = "start" /\ r.kind = "cancelled"
    <3>1. dataClass' = class /\ class # "none" /\ InProgress("start")
          BY <1>1, <1>3, <1>4, <1>5, <2>3, OwnFacts DEF FullInv, CallOK
    <3>2. ASSUME NEW i \in Nat, Has("start", i)' PROVE i = 1
      <4>1. Has("start", i + 1) /\ i + 1 \in Nat
            BY <1>6, <3>2, OwnFacts
      <4>2. i + 1 = 2
            BY <1>6, <2>3, <3>1, <4>1 DEF OpenStart, Streams
      <4> QED BY <4>2
    <3>3. ASSUME NEW i \in Nat, Waiting("start", i)'
          PROVE  inbox' = <<>> /\ devClass = "none" /\ CancelsBefore(i)'
      <4>1. Waiting("start", i)
            BY <1>7, <3>3, OwnFacts
      <4>2. Len(inbox) = 1 /\ CancelsBefore(i) /\ devClass = "none"
            BY <1>6, <2>3, <3>1, <4>1 DEF OpenStart, Streams
      <4>3. inbox' = <<>>
            BY <1>6, <4>2
      <4>4. CancelsBefore(i)'
            BY <1>1, <4>2 DEF CancelsBefore
      <4> QED BY <4>2, <4>3, <4>4
    <3> QED BY <1>1, <3>1, <3>2, <3>3 DEF LeftStart
  <2>4. call = "start" => r.kind \in {"started", "refused", "cancelled"}
        BY <1>1, ResultFacts
  <2> QED BY <2>1, <2>2, <2>3, <2>4
<1>12. OpenStart'
      BY <1>5, OwnFacts DEF OpenStart
<1>13. BetweenSessions'
  <2> SUFFICES ASSUME pc' = "idle", dataClass' = "none", service = "mobilesync"
               PROVE  /\ devClass = "none"
                      /\ \A i \in 1..Len(inbox') : inbox'[i].kind \notin {"cancelled", "readyToReceive"}
                      /\ inbox' # <<>> => 1 \in 1..Len(inbox')
      BY <1>1 DEF BetweenSessions
  <2>1. call = "finish"
    <3>1. call = "start" => dataClass' # "none"
          BY <1>1, <1>3 DEF FullInv, CallOK
    <3>2. call \notin {"start", "finish"} => dataClass' # "none"
          BY <1>1, <1>3 DEF FullInv, CallOK
    <3> QED BY <3>1, <3>2
  <2>2. r.kind \in {"finished", "refused", "cancelled"}
        BY <1>1, <2>1, ResultFacts
  <2>3. /\ devClass = "none"
        /\ \A j \in 1..Len(inbox) : j > 1 => inbox[j].kind \notin {"cancelled", "willClear", "readyToReceive"}
        BY <1>1, <2>1, <2>2, TakeEnd DEF Streams
  <2>4. ASSUME NEW i \in 1..Len(inbox') PROVE inbox'[i].kind \notin {"cancelled", "readyToReceive"}
    <3>1. i + 1 \in 1..Len(inbox) /\ i + 1 > 1 /\ inbox'[i] = inbox[i + 1]
          BY <1>6
    <3> QED BY <2>3, <3>1
  <2>5. inbox' # <<>> => 1 \in 1..Len(inbox')
        BY <1>6
  <2> QED BY <2>3, <2>4, <2>5
<1>14. DirectionKnown'
  <2>1. ASSUME NotReady PROVE NotReady'
    <3>1. direction' = "deviceToComputer"
      <4>1. CASE call \in {"start", "finish"}
            BY <1>3, <1>4, <4>1
      <4>2. CASE call \notin {"start", "finish"}
            BY <1>3, <2>1, <4>2 DEF NotReady
      <4> QED BY <4>1, <4>2
    <3>2. \A i \in 1..Len(inbox') : inbox'[i].kind # "readyToReceive"
          BY <1>6, <2>1 DEF NotReady
    <3>3. ~(pc' = "reply" /\ call = "ready")
      <4>1. pc' = "reply" /\ call = "ready" => r.kind = "readyToReceive"
        <5>1. Awaited["ready"] = "readyToReceive"
              BY DEF Awaited
        <5> QED BY <1>1, <1>2, <5>1, ResultFacts
      <4>2. r.kind # "readyToReceive"
            BY <1>6, <2>1 DEF NotReady
      <4> QED BY <4>1, <4>2
    <3> QED BY <1>1, <3>1, <3>2, <3>3 DEF NotReady
  <2> QED BY <1>1, <2>1 DEF DirectionKnown, Streams
<1> QED BY <1>7, <1>8, <1>10, <1>11, <1>12, <1>13, <1>14 DEF Streams

LEMMA TakeOwn ==
  ASSUME FullInv, NEW r \in Messages, ReceiveAnswer(r)
  PROVE  CallOK' /\ Greeting' /\ OwnInv' /\ AnswerOwn'
<1>1. /\ call \in Waits /\ call \in CallsOf[service] /\ pc = "receive" /\ pc' \in {"idle", "reply"} /\ parent = "open"
      /\ UNCHANGED <<service, call, class, calls, devClass, asked, stage>> /\ answer' = r
      /\ inbox' \in Seq(Answers)
      /\ ~behind' => ~behind /\ ~LeavesBehind(call, r) /\ Taking(r)
      /\ pc' = "reply" => call \in {"ready", "backup"} /\ Result(call, r) = "SUCCESS" /\ UNCHANGED <<parent, dataClass, direction>>
      /\ pc' = "idle" => ret' = Result(call, r) /\ (ret' = "SUCCESS" => call \notin {"ready", "backup"}) /\ Session(call, Result(call, r))
      BY ReceiveMoves
<1>2. Greeting'
      BY <1>1, GreetingKept
<1>3. CallOK'
  <2>1. parent' # "none"
        BY <1>1, ReceiveMoves
  <2> QED BY <1>1, <2>1 DEF FullInv, CallOK, Session, syncVars
<1>4. ASSUME ~behind', call \in OwnCalls PROVE r.kind \in AnswersOf(call) => r.to = calls
  <2>1. Numbered(call)
        BY <1>1, <1>4 DEF FullInv, OwnInv
  <2>2. r = inbox[1] /\ 1 \in Nat /\ (r.kind \in AnswersOf(call) => Has(call, 1))
        BY <1>1, <1>4, TakeMoves
  <2> QED BY <1>1, <2>1, <2>2 DEF Numbered, InProgress
<1>5. ASSUME ~behind', Result(call, r) = "SUCCESS", call \notin {"receiveChanges", "receive", "finish"}
      PROVE  r.kind = Awaited[call] /\ (call \notin Receives => call \in OwnCalls /\ r.kind \in AnswersOf(call))
  <2>1. call \in OwnCalls \/ call \in {"ready", "remap", "receiveRestored"}
        BY <1>1, <1>5 DEF Waits, Awaited, Receives, OwnCalls
  <2>2. CASE call \in {"ready", "remap", "receiveRestored"}
    <3>1. call \in Receives
          BY <2>2 DEF Receives
    <3> QED BY <1>1, <1>5, <2>2, <3>1, ResultFacts
  <2>3. CASE call \in OwnCalls
    <3>1. Awaited["start"] = "started" /\ Awaited["clear"] = "willClear"
          BY DEF Awaited
    <3>2. r.kind = Awaited[call]
          BY <1>1, <1>5, <2>3, <3>1, ResultFacts
    <3> QED BY <2>3, <3>2, OwnFacts
  <2> QED BY <2>1, <2>2, <2>3
<1>6. AnswerOwn'
      BY <1>1, <1>4, <1>5 DEF AnswerOwn
<1>7. Taken' \/ behind'
  <2> SUFFICES ASSUME ~behind', pc' = "reply" PROVE r.kind = Awaited[call] /\ (call = "backup" => r.to = calls)
      BY <1>1 DEF Taken
  <2>1. call \in {"ready", "backup"} /\ Result(call, r) = "SUCCESS" /\ "backup" \notin Receives
        BY <1>1 DEF Receives
  <2> QED BY <1>4, <1>5, <2>1
<1>8. \A x \in OwnCalls : Numbered(x)'
      BY <1>1 DEF Numbered, InProgress
<1>9. ~behind' /\ conn' = "open" => Streams'
  <2>1. ASSUME conn' = "open" PROVE conn = "open"
        BY <2>1, ReceiveMoves DEF FullInv, IInv, TypeOK
  <2>2. ~behind' /\ conn = "open" => Streams
        BY <1>1 DEF FullInv, OwnInv
  <2> QED BY <2>1, <2>2, TakeStreams
<1>10. OwnInv'
      BY <1>7, <1>8, <1>9 DEF OwnInv
<1> QED BY <1>2, <1>3, <1>6, <1>10

LEMMA InitFull == Init => FullInv
<1> SUFFICES ASSUME Init PROVE FullInv
    OBVIOUS
<1>1. CallOK /\ Greeting /\ OwnInv /\ AnswerOwn
      BY DEF Init, CallOK, Greeting, OwnInv, AnswerOwn
<1> QED BY <1>1, InitIInv DEF FullInv

LEMMA StepFull == FullInv /\ [Next]_vars => FullInv'
<1> SUFFICES ASSUME FullInv, [Next]_vars PROVE CallOK' /\ Greeting' /\ OwnInv' /\ AnswerOwn'
    BY StepIInv DEF FullInv
<1>1. ASSUME NEW c \in DataClasses, NEW t \in BOOLEAN, service = "mobilesync", Call("start", c, t)
      PROVE  CallOK' /\ Greeting' /\ OwnInv' /\ AnswerOwn'
  <2>1. "start" \in CallsOf[service] /\ c \in ClassOrNone /\ c # "none"
        BY <1>1, CallFacts, ConstAssumption DEF ClassOrNone
  <2> QED BY <1>1, <2>1, CallOwn
<1>2. ASSUME NEW op \in CallsOf[service] \ {"start"}, Call(op, "none", FALSE)
      PROVE  CallOK' /\ Greeting' /\ OwnInv' /\ AnswerOwn'
  <2>1. "none" \in ClassOrNone
        BY DEF ClassOrNone
  <2> QED BY <1>2, <2>1, CallOwn
<1>3. CASE New \/ Free
      BY <1>3, GreetNew
<1>4. CASE \E r \in Messages : ReceiveVersion(r) \/ ReceiveReady(r)
      BY <1>4, GreetReceive
<1>5. CASE \E r \in Messages : ReceiveAnswer(r)
      BY <1>5, TakeOwn
<1>6. CASE Reply \/ DeviceGreet
      BY <1>6, ReplyOwn, GreetDevice
<1>7. CASE DeviceAnswer \/ DeviceCancel
      BY <1>7, DeviceOwn
<1>8. CASE DeviceLost \/ UNCHANGED vars
      BY <1>8, LostOwn
<1> QED BY <1>1, <1>2, <1>3, <1>4, <1>5, <1>6, <1>7, <1>8 DEF Next

\* A call that made a request and succeeds has the answer to this request, and one that
\* only waits has the message it waits for, as long as nothing was left unread.
THEOREM OwnAnswer == Spec => []AnswerOwn
<1>1. FullInv => AnswerOwn
      BY DEF FullInv
<1> QED BY <1>1, InitFull, StepFull, PTL DEF Spec

\* The client sends changes only in a session in which the device has asked for them, as
\* long as nothing was left unread.
THEOREM OnlyAsked == Spec => []ChangesAsked
<1>1. FullInv => ChangesAsked
  <2> SUFFICES ASSUME FullInv, direction = "computerToDevice", devClass # "none", ~behind PROVE asked
      BY DEF ChangesAsked
  <2>1. CASE parent # "none" /\ conn = "open"
        BY <2>1 DEF FullInv, OwnInv, Streams, DirectionKnown, NotReady
  <2>2. CASE conn = "lost"
        BY <2>2 DEF FullInv, IInv, QueueOK
  <2>3. CASE parent = "none"
        BY <2>3 DEF FullInv, CallOK
  <2> QED BY <2>1, <2>2, <2>3 DEF FullInv, IInv, TypeOK
<1> QED BY <1>1, InitFull, StepFull, PTL DEF Spec

=============================================================================
