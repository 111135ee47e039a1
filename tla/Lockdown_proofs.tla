---------------------------- MODULE Lockdown_proofs ----------------------------
(***************************************************************************)
(* Proofs about Lockdown, for any versions and classes of devices and any  *)
(* number of calls and pairings.  Until a reply is late, one request or    *)
(* one reply is under way, and it belongs to the exchange in progress.     *)
(* That ssl_enabled says what the connection carries is true of late       *)
(* replies too, and takes an invariant of its own: no session is ever      *)
(* started under TLS, since a StopSession goes before, and what the        *)
(* device reads in the wrong mode ends the connection.                     *)
(***************************************************************************)
EXTENDS Lockdown, TLAPS

Verbs == {"QueryType", "GetValue", "Pair", "ValidatePair", "StartSession", "StopSession",
          "StartService", "Unpair"}
Values == AllVersions \union AllClasses \union Keys \union {"none", "lockdown", "ssl", "plain"}
Requests == [name : Verbs, arg : Nat \union Keys, tls : BOOLEAN]
Answers == [name : Verbs, result : Errors, value : Values, session : Nat, tls : BOOLEAN]

RequestOK(q, n) ==
  /\ q.name = "GetValue" => q.arg \in Keys
  /\ q.name = "Pair" => q.arg \in 1..n

\* A session is never started under TLS.
AnswerOK(r, n) ==
  /\ r.session <= n
  /\ r.result = "SUCCESS" =>
       /\ r.name = "StartSession" => r.session # 0 /\ r.value \in {"ssl", "plain"} /\ ~r.tls
       /\ r.name = "StartService" => r.value \in {"ssl", "plain"}

QueueOK ==
  /\ devq \in Seq(Requests) /\ inbox \in Seq(Answers)
  /\ \A i \in 1..Len(devq) : RequestOK(devq[i], ids)
  /\ \A i \in 1..Len(inbox) : AnswerOK(inbox[i], sessions)

\* The step of a call, and where its pairing or the end of its session returns to.
Before == {"query", "version", "class", "record"}
Validating == {"old", "validate_read", "validate", "session"}
Pairing == {"key", "wifi", "pair"}
StepOK ==
  /\ sent => pc \in Exchanges
  /\ pc # "idle" => conn # "none"
  /\ pc \in Before => call = "handshake"
  /\ pc \in Validating => call = "handshake" /\ back \in {"old", "revalidate"}
  /\ pc \in Pairing => \/ call = "handshake" /\ back \in {"old", "revalidate"}
                       \/ call = "pair" /\ back = "idle"
  /\ pc = "stop" => \/ back = "end"
                    \/ call = "start" /\ back = "start"
                    \/ call = "stop" /\ back = "idle"
  /\ pc \in {"start", "enable"} => call \in {"handshake", "start"}
  /\ pc = "service" => call = "service"
  /\ pc \in {"unpair", "unpair_read"} => call = "unpair"
  /\ pc \in {"wifi", "pair"} => fresh # 0

\* A handshake generates two host ids at most.
Budget ==
  /\ pc \in Before => ids + 2 <= MaxPair
  /\ pc = "key" => ids + 1 <= MaxPair /\ (back = "old" => ids + 2 <= MaxPair)
  /\ pc \in Pairing \union Validating /\ back = "old" => ids + 1 <= MaxPair

\* A handshake is over when it has a session.
HandshakeOK ==
  /\ call = "handshake" /\ pc \in Before \union Validating \union Pairing => session = 0
  /\ call = "handshake" /\ pc = "idle" /\ conn # "none" => ret = "SUCCESS" /\ session # 0
  /\ tls => session # 0
  /\ dtls \in BOOLEAN /\ (dtls => dsession # 0)
  /\ pc = "enable" => session # 0 /\ ~tls
  /\ ssl = tls
  /\ devVersion \in AllVersions /\ devClass \in AllClasses

ControlOK == StepOK /\ Budget /\ HandshakeOK

\* The device in mode d and session s, that reads q, and a client that sends in mode t:
\* what ends the mode d before a session is started in it under TLS.
Breaks(m, s) == ~m.tls \/ (m.name = "StopSession" /\ m.arg = s)
Modes(q, d, t, s) ==
  /\ d => \A i \in 1..Len(q) : q[i].tls /\ q[i].name = "StartSession" =>
                                 \E j \in 1..Len(q) : j < i /\ Breaks(q[j], s)
  /\ ~d /\ q # <<>> /\ ~q[1].tls => \A i \in 1..Len(q) : ~q[i].tls
  /\ d /\ q # <<>> /\ q[1].tls => \A i, j \in 1..Len(q) : i < j /\ q[j].tls => q[i].tls
  /\ t /\ q # <<>> /\ q[1].tls = d => \A i \in 1..Len(q) : q[i].tls

\* The device waits for the client to enable SSL, or reads a request in the wrong mode.
Stuck == dtls /\ ~tls /\ (devq = <<>> \/ ~devq[1].tls)
StartsSsl(r) == r.name = "StartSession" /\ r.result = "SUCCESS" /\ r.value = "ssl"
TlsOK ==
  conn = "open" =>
    /\ Modes(devq, dtls, tls, dsession)
    /\ tls /\ dtls => session = dsession
    /\ tls /\ dtls /\ (pc = "start" \/ (pc = "stop" /\ sent)) =>
         \E j \in 1..Len(devq) : Breaks(devq[j], dsession)
    /\ \A i \in 1..Len(inbox) : StartsSsl(inbox[i]) =>
         /\ Stuck /\ inbox[i].session = dsession /\ pc # "enable"
         /\ \A j \in 1..Len(inbox) : StartsSsl(inbox[j]) => j = i
    /\ pc = "enable" => Stuck /\ session = dsession

\* What a reply in time says of the device.
Expected(r) ==
  /\ r.result = "SUCCESS" => /\ pc = "version" => r.value = devVersion
                             /\ pc = "class" => r.value = devClass
                             /\ pc = "pair" => fresh \in trusted \/ forgot
  /\ pc = "unpair" => r.result = "SUCCESS"

SessionOK ==
  /\ pc = "start" => session = 0
  /\ pc = "start" /\ inbox # <<>> =>
       IF inbox[1].result = "SUCCESS" THEN dsession = inbox[1].session /\ dtls = (inbox[1].value = "ssl")
       ELSE dsession = 0 /\ ~dtls
  /\ pc = "stop" /\ inbox # <<>> => dsession = 0 /\ ~dtls
  /\ pc \notin {"start", "stop"} \/ inbox = <<>> =>
       session = dsession /\ (tls = dtls \/ sslFailed \/ pc = "enable")

ReplyInTime ==
  inbox # <<>> => /\ sent /\ Len(inbox) = 1 /\ inbox[1].name = Verb[pc] /\ inbox[1].tls = tls
                  /\ conn = "open" => devq = <<>>
                  /\ Expected(inbox[1])
RequestInTime ==
  conn = "open" /\ inbox = <<>> =>
    IF sent THEN /\ Len(devq) = 1 /\ devq[1].name = Verb[pc] /\ devq[1].tls = tls
                 /\ devq[1].arg = Argument
    ELSE devq = <<>>
OnTime == late # "now" => ReplyInTime /\ RequestInTime /\ (conn = "open" => SessionOK)

Trust ==
  late = "no" /\ ~diskFailed /\ ~forgot =>
    record \in trusted \union {0} \/ (pc = "unpair" /\ inbox # <<>>)

IInv == TypeOK /\ QueueOK /\ ControlOK /\ TlsOK /\ OnTime /\ Trust /\ CacheRight

-----------------------------------------------------------------------------
(* Queues, steps and replies                                               *)

LEMMA AppendFacts ==
  ASSUME NEW S, NEW q \in Seq(S), NEW m \in S
  PROVE  /\ Append(q, m) \in Seq(S) /\ Len(Append(q, m)) = Len(q) + 1 /\ Len(q) \in Nat
         /\ \A i \in 1..Len(q) : Append(q, m)[i] = q[i]
         /\ Append(q, m)[Len(q) + 1] = m /\ Append(q, m) # <<>>
         /\ q = <<>> <=> Len(q) = 0
OBVIOUS

LEMMA EmptyFacts ==
  ASSUME NEW S, NEW q \in Seq(S)
  PROVE  Len(q) \in Nat /\ (q = <<>> <=> Len(q) = 0)
OBVIOUS

LEMMA TailFacts ==
  ASSUME NEW S, NEW q \in Seq(S), q # <<>>
  PROVE  /\ Tail(q) \in Seq(S) /\ Len(q) \in Nat \ {0} /\ Len(Tail(q)) = Len(q) - 1
         /\ \A i \in 1..Len(Tail(q)) : i + 1 \in 1..Len(q) /\ Tail(q)[i] = q[i + 1]
         /\ Head(q) = q[1] /\ Head(q) \in S /\ 1 \in 1..Len(q)
         /\ Tail(q) = <<>> <=> Len(q) = 1
<1>1. Tail(q) \in Seq(S) /\ Len(q) \in Nat \ {0} /\ Len(Tail(q)) = Len(q) - 1
      OBVIOUS
<1>2. \A a \in Seq(S) : a = <<>> <=> Len(a) = 0
      BY EmptyFacts
<1>3. Tail(q) = <<>> <=> Len(Tail(q)) = 0
      BY <1>1, <1>2, Zenon
<1> QED BY <1>1, <1>3

\* The steps of a call that make no exchange.
Quiet == {"idle", "record", "old", "validate_read", "unpair_read", "session", "enable", "close", "end"}
LEMMA StepNames ==
  /\ Exchanges = {"query", "version", "class", "key", "wifi", "pair", "validate", "start", "stop",
                  "service", "unpair"}
  /\ Steps = Exchanges \union Quiet
BY DEF Exchanges, Verb, Steps, Quiet

LEMMA VerbFacts ==
  /\ \A x \in Exchanges : Verb[x] \in Verbs
  /\ Verb["query"] = "QueryType" /\ Verb["version"] = "GetValue" /\ Verb["class"] = "GetValue"
  /\ Verb["key"] = "GetValue" /\ Verb["wifi"] = "GetValue" /\ Verb["pair"] = "Pair"
  /\ Verb["validate"] = "ValidatePair" /\ Verb["start"] = "StartSession" /\ Verb["stop"] = "StopSession"
  /\ Verb["service"] = "StartService" /\ Verb["unpair"] = "Unpair"
BY StepNames DEF Verb, Verbs

LEMMA ArgumentFacts ==
  ASSUME TypeOK, pc \in Exchanges
  PROVE  /\ Argument \in Nat \union Keys
         /\ Verb[pc] = "GetValue" => Argument \in Keys
         /\ pc = "version" => Argument = "ProductVersion"
         /\ pc = "class" => Argument = "DeviceClass"
         /\ pc = "pair" => Argument = fresh
         /\ pc = "unpair" => Argument = record
         /\ pc = "start" => Argument = host
         /\ pc = "stop" => Argument = session
BY StepNames, VerbFacts DEF Argument, TypeOK, Keys

\* A reply that is taken is the first one, in the mode that the client reads; a timeout is
\* never taken for one.
LEMMA ReplyFacts ==
  ASSUME QueueOK, NEW x, NEW r \in Replies, Step(x, r)
  PROVE  /\ r # NoReply => r \in Answers /\ inbox # <<>> /\ r = inbox[1] /\ r.tls = tls /\ AnswerOK(r, sessions)
         /\ inbox' \in Seq(Answers) /\ Len(inbox) \in Nat
         /\ inbox # <<>> => inbox' = Tail(inbox) /\ Len(inbox') = Len(inbox) - 1
                            /\ late' = late /\ (inbox[1].tls = tls => r = inbox[1])
         /\ inbox = <<>> => inbox' = inbox /\ r = NoReply /\ (conn = "open" => late' = "now")
                            /\ (conn # "open" => late' = late)
         /\ \/ inbox' = inbox
            \/ \A i \in 1..Len(inbox') : i + 1 \in 1..Len(inbox) /\ inbox'[i] = inbox[i + 1]
         /\ pc = x /\ sent /\ ~sent' /\ devq' = devq
<1>1. /\ inbox \in Seq(Answers) /\ \A i \in 1..Len(inbox) : AnswerOK(inbox[i], sessions)
      BY DEF QueueOK
<1>2. \A a \in Answers : a.name # "none"
      BY DEF Answers, Verbs
<1>3. NoReply.name = "none" /\ NoReply \notin Answers
      BY <1>2 DEF NoReply
<1>4. pc = x /\ sent /\ ~sent' /\ devq' = devq
      BY DEF Step
<1>5. CASE inbox # <<>>
  <2>1. inbox' = Tail(inbox) /\ late' = late /\ r = (IF Head(inbox).tls = tls THEN Head(inbox) ELSE NoReply)
        BY <1>5 DEF Step
  <2>2. Head(inbox) = inbox[1] /\ inbox[1] \in Answers /\ AnswerOK(inbox[1], sessions)
        BY <1>1, <1>5, TailFacts
  <2>3. /\ Tail(inbox) \in Seq(Answers) /\ Len(inbox) \in Nat /\ Len(Tail(inbox)) = Len(inbox) - 1
        /\ \A i \in 1..Len(Tail(inbox)) : i + 1 \in 1..Len(inbox) /\ Tail(inbox)[i] = inbox[i + 1]
        BY <1>1, <1>5, TailFacts
  <2> QED BY <1>3, <1>4, <1>5, <2>1, <2>2, <2>3
<1>6. CASE inbox = <<>>
  <2>1. inbox' = inbox /\ r = NoReply /\ late' = IF conn = "open" THEN "now" ELSE late
        BY <1>6 DEF Step
  <2> QED BY <1>1, <1>4, <1>6, <2>1
<1> QED BY <1>5, <1>6

\* What the client makes of it.
LEMMA ResultFacts ==
  ASSUME NEW r, r \in Answers \/ r = NoReply, NEW n \in Verbs
  PROVE  /\ CheckResult(r, n) \in Errors /\ PairResult(r, n) \in Errors
         /\ CheckResult(r, n) = "SUCCESS" => r \in Answers /\ r.name = n /\ r.result = "SUCCESS"
         /\ PairResult(r, n) = "SUCCESS" => r \in Answers /\ r.result = "SUCCESS"
         /\ r \in Answers /\ r.name = n => CheckResult(r, n) = r.result
         /\ r \in Answers /\ r.name = n => PairResult(r, n) = r.result
         /\ r.value \in Values
<1>1. NoReply.result = "TIMEOUT" /\ NoReply.name = "none" /\ NoReply.value = "none" /\ NoReply \notin Answers
      BY DEF NoReply, Answers, Verbs
<1>2. r \in Answers => r.name \in Verbs /\ r.result \in Errors /\ r.value \in Values
      BY DEF Answers
<1>3. {"TIMEOUT", "SUCCESS", "UNKNOWN_ERROR", "PAIRING_FAILED"} \subseteq Errors /\ "none" \in Values
      BY DEF Errors, Values
<1> QED BY <1>1, <1>2, <1>3 DEF CheckResult, PairResult

-----------------------------------------------------------------------------
(* The modes of the requests under way                                     *)

LEMMA ModesEmpty == \A d, t, s : Modes(<<>>, d, t, s)
BY DEF Modes

\* The client sends in its mode; what starts a session under TLS has something before it.
LEMMA ModesSend ==
  ASSUME NEW q \in Seq(Requests), NEW d \in BOOLEAN, NEW t \in BOOLEAN, NEW s, NEW m \in Requests,
         Modes(q, d, t, s), m.tls = t,
         t /\ d /\ m.name = "StartSession" => \E j \in 1..Len(q) : Breaks(q[j], s)
  PROVE  Modes(Append(q, m), d, t, s)
<1> DEFINE a == Append(q, m)
<1>1. /\ Len(a) = Len(q) + 1 /\ Len(q) \in Nat /\ a # <<>>
      /\ \A i \in 1..Len(q) : a[i] = q[i] /\ i \in 1..Len(a) /\ i < Len(a)
      /\ a[Len(a)] = m /\ Len(a) \in 1..Len(a)
      /\ \A i \in 1..Len(a) : i = Len(a) \/ i \in 1..Len(q)
      /\ q = <<>> <=> Len(q) = 0
      BY AppendFacts
<1>2. q # <<>> => 1 \in 1..Len(q) /\ a[1] = q[1]
      BY <1>1
<1>3. q = <<>> => a[1] = m /\ \A i \in 1..Len(a) : i = 1
      BY <1>1
<1> HIDE DEF a
<1>4. ASSUME d, NEW i \in 1..Len(a), a[i].tls, a[i].name = "StartSession"
      PROVE  \E j \in 1..Len(a) : j < i /\ Breaks(a[j], s)
      BY <1>1, <1>4 DEF Modes
<1>5. ASSUME ~d, ~a[1].tls, NEW i \in 1..Len(a) PROVE ~a[i].tls
  <2>1. CASE q = <<>>
        BY <1>3, <1>5, <2>1
  <2>2. CASE q # <<>>
    <3>1. ~q[1].tls /\ \A k \in 1..Len(q) : ~q[k].tls
          BY <1>2, <1>5, <2>2 DEF Modes
    <3>2. q[1].tls = FALSE /\ d = FALSE
      <4>1. q[1] \in Requests
            BY <1>2, <2>2
      <4> QED BY <1>5, <3>1, <4>1 DEF Requests
    <3>3. ~t
          BY <1>2, <2>2, <3>1, <3>2 DEF Modes
    <3> QED BY <1>1, <1>5, <3>1, <3>3
  <2> QED BY <2>1, <2>2
<1>6. ASSUME d, a[1].tls, NEW i \in 1..Len(a), NEW j \in 1..Len(a), i < j, a[j].tls PROVE a[i].tls
  <2>1. i \in 1..Len(q) /\ a[i] = q[i] /\ q # <<>> /\ q[1].tls
        BY <1>1, <1>2, <1>6
  <2>2. CASE j \in 1..Len(q)
        BY <1>1, <1>6, <2>1, <2>2 DEF Modes
  <2>3. CASE j = Len(a)
    <3>1. t
          BY <1>1, <1>6, <2>3
    <3>2. \A k \in 1..Len(q) : q[k].tls
          BY <1>6, <2>1, <3>1 DEF Modes
    <3> QED BY <2>1, <3>2
  <2> QED BY <1>1, <2>2, <2>3
<1>7. ASSUME t, a[1].tls = d, NEW i \in 1..Len(a) PROVE a[i].tls
      BY <1>1, <1>2, <1>3, <1>7 DEF Modes
<1> QED BY <1>1, <1>4, <1>5, <1>6, <1>7 DEF Modes, a

\* The device reads a request: one that leaves its session alone, one that ends the mode,
\* and one that starts a session, which is never under TLS.
LEMMA ModesRead ==
  ASSUME NEW q \in Seq(Requests), NEW d \in BOOLEAN, NEW t \in BOOLEAN, NEW s, q # <<>>,
         Modes(q, d, t, s), q[1].tls = d
  PROVE  /\ ~(q[1].name = "StopSession" /\ q[1].arg = s) => Modes(Tail(q), d, t, s)
         /\ \A z : Modes(Tail(q), FALSE, t, z)
         /\ ~d => \A e, z : Modes(Tail(q), e, t, z)
         /\ ~d => ~t /\ \A i \in 1..Len(q) : ~q[i].tls
         /\ q[1].name = "StartSession" => ~d
<1> DEFINE a == Tail(q)
<1>1. /\ Len(a) = Len(q) - 1 /\ Len(q) \in Nat \ {0} /\ 1 \in 1..Len(q)
      /\ \A i \in 1..Len(a) : i + 1 \in 1..Len(q) /\ a[i] = q[i + 1]
      BY TailFacts
<1>2. a # <<>> => 1 \in 1..Len(a) /\ a[1] = q[2] /\ 2 \in 1..Len(q)
      BY <1>1, TailFacts
<1> HIDE DEF a
<1>3. q[1].name = "StartSession" => ~d
      BY <1>1 DEF Modes
<1>4. ~d => ~t /\ \A i \in 1..Len(q) : ~q[i].tls
      BY <1>1 DEF Modes
<1>5. ~d => \A i \in 1..Len(a) : ~a[i].tls
      BY <1>1, <1>4
<1>6. ~d => \A e, z : Modes(a, e, t, z)
      BY <1>2, <1>4, <1>5 DEF Modes
<1>7. d => \A z : Modes(a, FALSE, t, z)
  <2> SUFFICES ASSUME d, NEW z PROVE Modes(a, FALSE, t, z)
      OBVIOUS
  <2>1. ASSUME a # <<>>, ~a[1].tls, NEW i \in 1..Len(a) PROVE ~a[i].tls
        BY <1>1, <1>2, <2>1 DEF Modes
  <2>2. t => \A i \in 1..Len(a) : a[i].tls
        BY <1>1 DEF Modes
  <2> QED BY <1>2, <2>1, <2>2 DEF Modes
<1>8. d /\ ~(q[1].name = "StopSession" /\ q[1].arg = s) => Modes(a, d, t, s)
  <2> SUFFICES ASSUME d, ~(q[1].name = "StopSession" /\ q[1].arg = s) PROVE Modes(a, d, t, s)
      OBVIOUS
  <2>1. ~Breaks(q[1], s)
        BY DEF Breaks
  <2>2. ASSUME NEW i \in 1..Len(a), a[i].tls, a[i].name = "StartSession"
        PROVE  \E j \in 1..Len(a) : j < i /\ Breaks(a[j], s)
    <3>1. PICK j \in 1..Len(q) : j < i + 1 /\ Breaks(q[j], s)
          BY <1>1, <2>2 DEF Modes
    <3>2. j # 1
          BY <2>1, <3>1
    <3>3. j - 1 \in 1..Len(a) /\ j - 1 < i /\ (j - 1) + 1 = j
          BY <1>1, <3>1, <3>2
    <3>4. a[j - 1] = q[j]
          BY <1>1, <3>3
    <3> QED BY <3>1, <3>3, <3>4
  <2>3. \A i, j \in 1..Len(a) : i < j /\ a[j].tls => a[i].tls
        BY <1>1, SMTT(30) DEF Modes
  <2>4. t => \A i \in 1..Len(a) : a[i].tls
        BY <1>1 DEF Modes
  <2> QED BY <2>2, <2>3, <2>4 DEF Modes
<1> QED BY <1>3, <1>4, <1>6, <1>7, <1>8 DEF a

\* The client leaves TLS, and enters it when the device waits for that.
LEMMA ModesSwitch ==
  ASSUME NEW q, NEW d, NEW t, NEW s, Modes(q, d, t, s)
  PROVE  /\ Modes(q, d, FALSE, s)
         /\ d = TRUE /\ (q = <<>> \/ ~q[1].tls) => Modes(q, d, TRUE, s)
BY DEF Modes

-----------------------------------------------------------------------------
(* Types and control                                                       *)

LEMMA Words ==
  /\ {"none", "SUCCESS", "TIMEOUT", "SSL_ERROR", "PLIST_ERROR", "INVALID_ARG", "MUX_ERROR",
      "RECEIVE_TIMEOUT", "INVALID_CONF"} \subseteq Errors
  /\ Verbs = {"QueryType", "GetValue", "Pair", "ValidatePair", "StartSession", "StopSession",
              "StartService", "Unpair"}
  /\ Reads \subseteq {"RECEIVE_TIMEOUT", "INVALID_CONF", "SUCCESS"}
  /\ "SUCCESS" \in Reads => record # 0
BY DEF Errors, Verbs, Reads

\* The exchanges of the handshake and of a pairing.
LEMMA ReplyControl ==
  ASSUME TypeOK, QueueOK, ControlOK, NEW r \in Replies, Reply(r)
  PROVE  TypeOK' /\ ControlOK'
<1> USE ConstAssumption, StepNames
    DEF Step, Quiet, deviceVars, connVars, callVars, serviceVars, diskVars, devVars, Before, Pairing, Validating
<1>0. \A n \in Verbs :
        /\ CheckResult(r, n) \in Errors /\ PairResult(r, n) \in Errors
        /\ CheckResult(r, n) = "SUCCESS" => r \in Answers /\ r.name = n /\ r.result = "SUCCESS"
                                            /\ AnswerOK(r, sessions) /\ r.tls = tls
  <2>1. \E x : Step(x, r)
        BY DEF Reply, Query, Version, Class, Key, Wifi, Pair, Validate, StartSession, StopSession, StartService, Unpair
  <2>2. r # NoReply => r \in Answers /\ AnswerOK(r, sessions) /\ r.tls = tls
        BY <2>1, ReplyFacts
  <2>3. NoReply \notin Answers
        BY DEF NoReply, Answers, Verbs
  <2> QED BY <2>2, <2>3, ResultFacts
<1> HIDE DEF Replies
<1>1. CASE Query(r)
  <2>1. TypeOK'
        BY <1>1, ZenonT(30) DEF Query, TypeOK, ControlOK, StepOK, Budget
  <2>2. StepOK'
        BY <1>1 DEF Query, TypeOK, ControlOK, StepOK
  <2>3. Budget'
        BY <1>1 DEF Query, TypeOK, ControlOK, StepOK, Budget
  <2>4. HandshakeOK'
        BY <1>1 DEF Query, TypeOK, ControlOK, StepOK, HandshakeOK
  <2> QED BY <2>1, <2>2, <2>3, <2>4 DEF ControlOK
<1>2. CASE Version(r)
  <2>1. TypeOK'
        BY <1>2 DEF Version, TypeOK, ControlOK, StepOK, Budget
  <2>2. StepOK'
        BY <1>2 DEF Version, TypeOK, ControlOK, StepOK
  <2>3. Budget'
        BY <1>2 DEF Version, TypeOK, ControlOK, StepOK, Budget
  <2>4. HandshakeOK'
        BY <1>2 DEF Version, TypeOK, ControlOK, StepOK, HandshakeOK
  <2> QED BY <2>1, <2>2, <2>3, <2>4 DEF ControlOK
<1>3. CASE Class(r)
  <2>1. TypeOK'
        BY <1>3 DEF Class, TypeOK, ControlOK, StepOK, Budget
  <2>2. StepOK'
        BY <1>3 DEF Class, TypeOK, ControlOK, StepOK
  <2>3. Budget'
        BY <1>3 DEF Class, TypeOK, ControlOK, StepOK, Budget
  <2>4. HandshakeOK'
        BY <1>3 DEF Class, TypeOK, ControlOK, StepOK, HandshakeOK
  <2> QED BY <2>1, <2>2, <2>3, <2>4 DEF ControlOK
<1>4. CASE Key(r)
  <2>0. CheckResult(r, "GetValue") \in Errors
        BY <1>0, Words
  <2>1. TypeOK'
    <3>1. ret' \in Errors
          BY <1>4, <2>0, Words DEF Key, TypeOK, Paired
    <3>2. pc' \in Steps /\ back' \in {"none", "old", "revalidate", "idle", "start", "end"}
          BY <1>4 DEF Key, TypeOK, ControlOK, StepOK, Paired
    <3>3. ssl' \in BOOLEAN /\ tls' \in BOOLEAN /\ sent' \in BOOLEAN
          BY <1>4 DEF Key, TypeOK, Paired
    <3>4. /\ session' \in 0..sessions' /\ dsession' \in 0..sessions' /\ sessions' \in Nat
          /\ {record', host', fresh'} \subseteq 0..ids' /\ ids' \in 0..MaxPair /\ trusted' \subseteq 1..ids'
          BY <1>4, <2>0, Words DEF Key, TypeOK, ControlOK, Budget, Paired
    <3> QED BY <1>4, <3>1, <3>2, <3>3, <3>4 DEF Key, TypeOK
  <2>2. StepOK'
        BY <1>4 DEF Key, TypeOK, ControlOK, StepOK, Paired
  <2>3. Budget'
        BY <1>4 DEF Key, TypeOK, ControlOK, StepOK, Budget, Paired
  <2>4. HandshakeOK'
        BY <1>4, <2>0, Words DEF Key, TypeOK, ControlOK, StepOK, HandshakeOK, Paired
  <2> QED BY <2>1, <2>2, <2>3, <2>4 DEF ControlOK
<1>5. CASE Wifi(r)
  <2>1. TypeOK'
        BY <1>5 DEF Wifi, TypeOK, ControlOK, StepOK, Budget
  <2>2. StepOK'
        BY <1>5 DEF Wifi, TypeOK, ControlOK, StepOK
  <2>3. Budget'
        BY <1>5 DEF Wifi, TypeOK, ControlOK, StepOK, Budget
  <2>4. HandshakeOK'
        BY <1>5 DEF Wifi, TypeOK, ControlOK, StepOK, HandshakeOK
  <2> QED BY <2>1, <2>2, <2>3, <2>4 DEF ControlOK
<1>6. CASE Pair(r)
  <2>0. PairResult(r, "Pair") \in Errors
        BY <1>0, Words
  <2>1. TypeOK'
        BY <1>6, <2>0, Words DEF Pair, TypeOK, ControlOK, StepOK, Budget, Paired
  <2>2. StepOK'
        BY <1>6 DEF Pair, TypeOK, ControlOK, StepOK, Paired
  <2>3. Budget'
        BY <1>6 DEF Pair, TypeOK, ControlOK, StepOK, Budget, Paired
  <2>4. HandshakeOK'
        BY <1>6, <2>0, Words DEF Pair, TypeOK, ControlOK, StepOK, HandshakeOK, Paired
  <2> QED BY <2>1, <2>2, <2>3, <2>4 DEF ControlOK
<1>7. CASE Validate(r)
  <2>0. PairResult(r, "ValidatePair") \in Errors
        BY <1>0, Words
  <2>1. TypeOK'
    <3>1. ret' \in Errors
          BY <1>7, <2>0, Words DEF Validate, TypeOK
    <3>2. pc' \in Steps /\ back' \in {"none", "old", "revalidate", "idle", "start", "end"}
          BY <1>7 DEF Validate, TypeOK, ControlOK, StepOK
    <3>3. ssl' \in BOOLEAN /\ tls' \in BOOLEAN /\ sent' \in BOOLEAN
          BY <1>7 DEF Validate, TypeOK
    <3>4. /\ session' \in 0..sessions' /\ dsession' \in 0..sessions' /\ sessions' \in Nat
          /\ {record', host', fresh'} \subseteq 0..ids' /\ ids' \in 0..MaxPair /\ trusted' \subseteq 1..ids'
          BY <1>7, <2>0, Words DEF Validate, TypeOK, ControlOK, Budget
    <3> QED BY <1>7, <3>1, <3>2, <3>3, <3>4 DEF Validate, TypeOK
  <2>2. StepOK'
        BY <1>7 DEF Validate, TypeOK, ControlOK, StepOK
  <2>3. Budget'
        BY <1>7 DEF Validate, TypeOK, ControlOK, StepOK, Budget
  <2>4. HandshakeOK'
        BY <1>7, <2>0, Words DEF Validate, TypeOK, ControlOK, StepOK, HandshakeOK
  <2> QED BY <2>1, <2>2, <2>3, <2>4 DEF ControlOK
<1>8. CASE StartSession(r)
  <2>0. /\ CheckResult(r, "StartSession") \in Errors
        /\ CheckResult(r, "StartSession") = "SUCCESS" => r.session \in 0..sessions /\ r.session # 0 /\ tls = FALSE
        BY <1>0, Words DEF AnswerOK, Answers, TypeOK
  <2>1. TypeOK'
    <3>1. ret' \in Errors
          BY <1>8, <2>0, Words DEF StartSession, TypeOK, Started
    <3>2. pc' \in Steps /\ back' \in {"none", "old", "revalidate", "idle", "start", "end"}
          BY <1>8 DEF StartSession, TypeOK, ControlOK, StepOK, Started
    <3>3. ssl' \in BOOLEAN /\ tls' \in BOOLEAN /\ sent' \in BOOLEAN
          BY <1>8 DEF StartSession, TypeOK, Started
    <3>4. /\ session' \in 0..sessions' /\ dsession' \in 0..sessions' /\ sessions' \in Nat
          /\ {record', host', fresh'} \subseteq 0..ids' /\ ids' \in 0..MaxPair /\ trusted' \subseteq 1..ids'
          BY <1>8, <2>0, Words DEF StartSession, TypeOK, ControlOK, Budget, Started
    <3> QED BY <1>8, <3>1, <3>2, <3>3, <3>4 DEF StartSession, TypeOK
  <2>2. StepOK'
        BY <1>8 DEF StartSession, TypeOK, ControlOK, StepOK, Started
  <2>3. Budget'
        BY <1>8 DEF StartSession, TypeOK, ControlOK, StepOK, Budget, Started
  <2>4. HandshakeOK'
        BY <1>8, <2>0, Words DEF StartSession, TypeOK, ControlOK, StepOK, HandshakeOK, Started
  <2> QED BY <2>1, <2>2, <2>3, <2>4 DEF ControlOK
<1>9. CASE StopSession(r)
  <2>0. CheckResult(r, "StopSession") \in Errors
        BY <1>0, Words
  <2>1. TypeOK'
    <3>1. ret' \in Errors
          BY <1>9, <2>0, Words DEF StopSession, TypeOK
    <3>2. pc' \in Steps /\ back' \in {"none", "old", "revalidate", "idle", "start", "end"}
          BY <1>9 DEF StopSession, TypeOK, ControlOK, StepOK
    <3>3. ssl' \in BOOLEAN /\ tls' \in BOOLEAN /\ sent' \in BOOLEAN
          BY <1>9 DEF StopSession, TypeOK
    <3>4. /\ session' \in 0..sessions' /\ dsession' \in 0..sessions' /\ sessions' \in Nat
          /\ {record', host', fresh'} \subseteq 0..ids' /\ ids' \in 0..MaxPair /\ trusted' \subseteq 1..ids'
          BY <1>9, <2>0, Words DEF StopSession, TypeOK, ControlOK, Budget
    <3> QED BY <1>9, <3>1, <3>2, <3>3, <3>4 DEF StopSession, TypeOK
  <2>2. StepOK'
        BY <1>9 DEF StopSession, TypeOK, ControlOK, StepOK
  <2>3. Budget'
        BY <1>9 DEF StopSession, TypeOK, ControlOK, StepOK, Budget
  <2>4. HandshakeOK'
        BY <1>9, <2>0, Words DEF StopSession, TypeOK, ControlOK, StepOK, HandshakeOK
  <2> QED BY <2>1, <2>2, <2>3, <2>4 DEF ControlOK
<1>10. CASE StartService(r)
  <2>0. /\ CheckResult(r, "StartService") \in Errors
        /\ CheckResult(r, "StartService") = "SUCCESS" => r.value \in {"ssl", "plain"}
        BY <1>0, Words DEF AnswerOK, Answers, TypeOK
  <2>1. TypeOK'
        BY <1>10, <2>0, Words, ZenonT(30) DEF StartService, TypeOK, ControlOK, StepOK, Budget
  <2>2. StepOK'
        BY <1>10 DEF StartService, TypeOK, ControlOK, StepOK
  <2>3. Budget'
        BY <1>10 DEF StartService, TypeOK, ControlOK, StepOK, Budget
  <2>4. HandshakeOK'
        BY <1>10, <2>0, Words DEF StartService, TypeOK, ControlOK, StepOK, HandshakeOK
  <2> QED BY <2>1, <2>2, <2>3, <2>4 DEF ControlOK
<1>11. CASE Unpair(r)
  <2>0. PairResult(r, "Unpair") \in Errors
        BY <1>0, Words
  <2>1. TypeOK'
    <3>1. ret' \in Errors
          BY <1>11, <2>0, Words DEF Unpair, TypeOK
    <3>2. pc' \in Steps /\ back' \in {"none", "old", "revalidate", "idle", "start", "end"}
          BY <1>11 DEF Unpair, TypeOK, ControlOK, StepOK
    <3>3. ssl' \in BOOLEAN /\ tls' \in BOOLEAN /\ sent' \in BOOLEAN
          BY <1>11 DEF Unpair, TypeOK
    <3>4. /\ session' \in 0..sessions' /\ dsession' \in 0..sessions' /\ sessions' \in Nat
          /\ {record', host', fresh'} \subseteq 0..ids' /\ ids' \in 0..MaxPair /\ trusted' \subseteq 1..ids'
          BY <1>11, <2>0, Words DEF Unpair, TypeOK, ControlOK, Budget
    <3> QED BY <1>11, <3>1, <3>2, <3>3, <3>4 DEF Unpair, TypeOK
  <2>2. StepOK'
        BY <1>11 DEF Unpair, TypeOK, ControlOK, StepOK
  <2>3. Budget'
        BY <1>11 DEF Unpair, TypeOK, ControlOK, StepOK, Budget
  <2>4. HandshakeOK'
        BY <1>11, <2>0, Words DEF Unpair, TypeOK, ControlOK, StepOK, HandshakeOK
  <2> QED BY <2>1, <2>2, <2>3, <2>4 DEF ControlOK
<1> QED BY <1>1, <1>2, <1>3, <1>4, <1>5, <1>6, <1>7, <1>8, <1>9, <1>10, <1>11 DEF Reply

\* The steps without a reply.
LEMMA QuietControl ==
  ASSUME TypeOK, ControlOK, ReadRecord \/ Old \/ ValidateRead \/ UnpairRead \/ Session
         \/ EnableSsl \/ Close \/ End \/ Send
  PROVE  TypeOK' /\ ControlOK'
<1> USE ConstAssumption, StepNames
    DEF Quiet, deviceVars, connVars, callVars, serviceVars, diskVars, devVars, Before, Pairing, Validating
<1>1. CASE ReadRecord
  <2>1. TypeOK'
        BY <1>1, Words DEF ReadRecord, TypeOK, ControlOK, StepOK, Budget, Read
  <2>2. StepOK'
        BY <1>1, Words DEF ReadRecord, TypeOK, ControlOK, StepOK, Read
  <2>3. Budget'
        BY <1>1 DEF ReadRecord, TypeOK, ControlOK, StepOK, Budget, Read
  <2>4. HandshakeOK'
        BY <1>1, Words DEF ReadRecord, TypeOK, ControlOK, StepOK, HandshakeOK, Read
  <2> QED BY <2>1, <2>2, <2>3, <2>4 DEF ControlOK
<1>2. CASE Old
  <2>1. TypeOK'
        BY <1>2, Words DEF Old, TypeOK, ControlOK, StepOK, Budget
  <2>2. StepOK'
        BY <1>2, Words DEF Old, TypeOK, ControlOK, StepOK
  <2>3. Budget'
        BY <1>2 DEF Old, TypeOK, ControlOK, StepOK, Budget
  <2>4. HandshakeOK'
        BY <1>2, Words DEF Old, TypeOK, ControlOK, StepOK, HandshakeOK
  <2> QED BY <2>1, <2>2, <2>3, <2>4 DEF ControlOK
<1>3. CASE ValidateRead
  <2>1. TypeOK'
        BY <1>3, Words DEF ValidateRead, TypeOK, ControlOK, StepOK, Budget, Read
  <2>2. StepOK'
        BY <1>3, Words DEF ValidateRead, TypeOK, ControlOK, StepOK, Read
  <2>3. Budget'
        BY <1>3 DEF ValidateRead, TypeOK, ControlOK, StepOK, Budget, Read
  <2>4. HandshakeOK'
        BY <1>3, Words DEF ValidateRead, TypeOK, ControlOK, StepOK, HandshakeOK, Read
  <2> QED BY <2>1, <2>2, <2>3, <2>4 DEF ControlOK
<1>4. CASE UnpairRead
  <2>1. TypeOK'
        BY <1>4, Words DEF UnpairRead, TypeOK, ControlOK, StepOK, Budget, Read
  <2>2. StepOK'
        BY <1>4, Words DEF UnpairRead, TypeOK, ControlOK, StepOK, Read
  <2>3. Budget'
        BY <1>4 DEF UnpairRead, TypeOK, ControlOK, StepOK, Budget, Read
  <2>4. HandshakeOK'
        BY <1>4, Words DEF UnpairRead, TypeOK, ControlOK, StepOK, HandshakeOK, Read
  <2> QED BY <2>1, <2>2, <2>3, <2>4 DEF ControlOK
<1>5. CASE Session
  <2>1. TypeOK'
        BY <1>5, Words DEF Session, TypeOK, ControlOK, StepOK, Budget, Read
  <2>2. StepOK'
        BY <1>5, Words DEF Session, TypeOK, ControlOK, StepOK, Read
  <2>3. Budget'
        BY <1>5 DEF Session, TypeOK, ControlOK, StepOK, Budget, Read
  <2>4. HandshakeOK'
        BY <1>5, Words DEF Session, TypeOK, ControlOK, StepOK, HandshakeOK, Read
  <2> QED BY <2>1, <2>2, <2>3, <2>4 DEF ControlOK
<1>6. CASE EnableSsl
  <2>1. TypeOK'
        BY <1>6, Words, ZenonT(30) DEF EnableSsl, TypeOK, ControlOK, StepOK, Budget, Started
  <2>2. StepOK'
        BY <1>6, Words DEF EnableSsl, TypeOK, ControlOK, StepOK, Started
  <2>3. Budget'
        BY <1>6 DEF EnableSsl, TypeOK, ControlOK, StepOK, Budget, Started
  <2>4. HandshakeOK'
        BY <1>6, Words DEF EnableSsl, TypeOK, ControlOK, StepOK, HandshakeOK, Started
  <2> QED BY <2>1, <2>2, <2>3, <2>4 DEF ControlOK
<1>7. CASE Close
  <2>1. TypeOK'
        BY <1>7, Words DEF Close, TypeOK, ControlOK, StepOK, Budget
  <2>2. StepOK'
        BY <1>7, Words DEF Close, TypeOK, ControlOK, StepOK
  <2>3. Budget'
        BY <1>7 DEF Close, TypeOK, ControlOK, StepOK, Budget
  <2>4. HandshakeOK'
        BY <1>7, Words DEF Close, TypeOK, ControlOK, StepOK, HandshakeOK
  <2> QED BY <2>1, <2>2, <2>3, <2>4 DEF ControlOK
<1>8. CASE End
  <2>1. TypeOK'
    <3>1. /\ session' \in 0..sessions' /\ dsession' \in 0..sessions' /\ sessions' \in Nat
          /\ {record', host', fresh'} \subseteq 0..ids' /\ ids' \in 0..MaxPair /\ trusted' \subseteq 1..ids'
          BY <1>8 DEF End, TypeOK
    <3>2. ssl' \in BOOLEAN /\ tls' \in BOOLEAN /\ sent' \in BOOLEAN
          BY <1>8 DEF End, TypeOK
    <3>3. ret' \in Errors /\ pc' \in Steps /\ conn' \in {"none", "open", "lost"}
          BY <1>8, Words DEF End, TypeOK
    <3> QED BY <1>8, <3>1, <3>2, <3>3 DEF End, TypeOK
  <2>2. StepOK'
        BY <1>8, Words DEF End, TypeOK, ControlOK, StepOK
  <2>3. Budget'
        BY <1>8 DEF End, TypeOK, ControlOK, StepOK, Budget
  <2>4. HandshakeOK'
        BY <1>8, Words DEF End, TypeOK, ControlOK, StepOK, HandshakeOK
  <2> QED BY <2>1, <2>2, <2>3, <2>4 DEF ControlOK
<1>9. CASE Send
  <2>1. TypeOK'
        BY <1>9, Words DEF Send, TypeOK, ControlOK, StepOK, Budget
  <2>2. StepOK'
        BY <1>9, Words DEF Send, TypeOK, ControlOK, StepOK
  <2>3. Budget'
        BY <1>9 DEF Send, TypeOK, ControlOK, StepOK, Budget
  <2>4. HandshakeOK'
        BY <1>9, Words DEF Send, TypeOK, ControlOK, StepOK, HandshakeOK
  <2> QED BY <2>1, <2>2, <2>3, <2>4 DEF ControlOK
<1> QED BY <1>1, <1>2, <1>3, <1>4, <1>5, <1>6, <1>7, <1>8, <1>9

\* The calls of the application.
LEMMA CallControl ==
  ASSUME TypeOK, ControlOK, Calls
  PROVE  TypeOK' /\ ControlOK'
<1> USE ConstAssumption, StepNames
    DEF Quiet, deviceVars, connVars, callVars, serviceVars, diskVars, devVars, Before, Pairing, Validating
<1>1. CASE Handshake
  <2>1. TypeOK'
    <3>1. /\ session' \in 0..sessions' /\ dsession' \in 0..sessions' /\ sessions' \in Nat
          /\ {record', host', fresh'} \subseteq 0..ids' /\ ids' \in 0..MaxPair /\ trusted' \subseteq 1..ids'
          BY <1>1 DEF Handshake, TypeOK
    <3>2. ssl' \in BOOLEAN /\ tls' \in BOOLEAN /\ sent' \in BOOLEAN
          BY <1>1 DEF Handshake, TypeOK
    <3>3. ret' \in Errors /\ pc' \in Steps /\ conn' \in {"none", "open", "lost"}
          BY <1>1, Words DEF Handshake, TypeOK
    <3> QED BY <1>1, <3>1, <3>2, <3>3 DEF Handshake, TypeOK
  <2>2. StepOK'
        BY <1>1, Words DEF Handshake, TypeOK, ControlOK, StepOK
  <2>3. Budget'
        BY <1>1 DEF Handshake, TypeOK, ControlOK, StepOK, Budget
  <2>4. HandshakeOK'
        BY <1>1, Words DEF Handshake, TypeOK, ControlOK, StepOK, HandshakeOK
  <2> QED BY <2>1, <2>2, <2>3, <2>4 DEF ControlOK
<1>2. CASE CallStartSession
  <2>1. TypeOK'
        BY <1>2, Words DEF CallStartSession, TypeOK, ControlOK, StepOK, Budget, Begin
  <2>2. StepOK'
        BY <1>2, Words DEF CallStartSession, TypeOK, ControlOK, StepOK, Begin
  <2>3. Budget'
        BY <1>2 DEF CallStartSession, TypeOK, ControlOK, StepOK, Budget, Begin
  <2>4. HandshakeOK'
        BY <1>2, Words DEF CallStartSession, TypeOK, ControlOK, StepOK, HandshakeOK, Begin
  <2> QED BY <2>1, <2>2, <2>3, <2>4 DEF ControlOK
<1>3. CASE CallStopSession
  <2>1. TypeOK'
        BY <1>3, Words DEF CallStopSession, TypeOK, ControlOK, StepOK, Budget, Begin
  <2>2. StepOK'
        BY <1>3, Words DEF CallStopSession, TypeOK, ControlOK, StepOK, Begin
  <2>3. Budget'
        BY <1>3 DEF CallStopSession, TypeOK, ControlOK, StepOK, Budget, Begin
  <2>4. HandshakeOK'
        BY <1>3, Words DEF CallStopSession, TypeOK, ControlOK, StepOK, HandshakeOK, Begin
  <2> QED BY <2>1, <2>2, <2>3, <2>4 DEF ControlOK
<1>4. CASE CallPair
  <2>1. TypeOK'
        BY <1>4, Words DEF CallPair, TypeOK, ControlOK, StepOK, Budget, Begin
  <2>2. StepOK'
        BY <1>4, Words DEF CallPair, TypeOK, ControlOK, StepOK, Begin
  <2>3. Budget'
        BY <1>4 DEF CallPair, TypeOK, ControlOK, StepOK, Budget, Begin
  <2>4. HandshakeOK'
        BY <1>4, Words DEF CallPair, TypeOK, ControlOK, StepOK, HandshakeOK, Begin
  <2> QED BY <2>1, <2>2, <2>3, <2>4 DEF ControlOK
<1>5. CASE CallUnpair
  <2>1. TypeOK'
        BY <1>5, Words DEF CallUnpair, TypeOK, ControlOK, StepOK, Budget, Begin
  <2>2. StepOK'
        BY <1>5, Words DEF CallUnpair, TypeOK, ControlOK, StepOK, Begin
  <2>3. Budget'
        BY <1>5 DEF CallUnpair, TypeOK, ControlOK, StepOK, Budget, Begin
  <2>4. HandshakeOK'
        BY <1>5, Words DEF CallUnpair, TypeOK, ControlOK, StepOK, HandshakeOK, Begin
  <2> QED BY <2>1, <2>2, <2>3, <2>4 DEF ControlOK
<1>6. CASE CallStartService
  <2>1. TypeOK'
        BY <1>6, Words DEF CallStartService, TypeOK, ControlOK, StepOK, Budget, Begin
  <2>2. StepOK'
        BY <1>6, Words DEF CallStartService, TypeOK, ControlOK, StepOK, Begin
  <2>3. Budget'
        BY <1>6 DEF CallStartService, TypeOK, ControlOK, StepOK, Budget, Begin
  <2>4. HandshakeOK'
        BY <1>6, Words DEF CallStartService, TypeOK, ControlOK, StepOK, HandshakeOK, Begin
  <2> QED BY <2>1, <2>2, <2>3, <2>4 DEF ControlOK
<1>7. CASE CallFree
  <2>1. TypeOK'
        BY <1>7, Words DEF CallFree, TypeOK, ControlOK, StepOK, Budget, Begin
  <2>2. StepOK'
        BY <1>7, Words DEF CallFree, TypeOK, ControlOK, StepOK, Begin
  <2>3. Budget'
        BY <1>7 DEF CallFree, TypeOK, ControlOK, StepOK, Budget, Begin
  <2>4. HandshakeOK'
        BY <1>7, Words DEF CallFree, TypeOK, ControlOK, StepOK, HandshakeOK, Begin
  <2> QED BY <2>1, <2>2, <2>3, <2>4 DEF ControlOK
<1>8. CASE ServiceNew
  <2>1. TypeOK'
        BY <1>8, Words DEF ServiceNew, TypeOK, ControlOK, StepOK, Budget
  <2>2. StepOK'
        BY <1>8, Words DEF ServiceNew, TypeOK, ControlOK, StepOK
  <2>3. Budget'
        BY <1>8 DEF ServiceNew, TypeOK, ControlOK, StepOK, Budget
  <2>4. HandshakeOK'
        BY <1>8, Words DEF ServiceNew, TypeOK, ControlOK, StepOK, HandshakeOK
  <2> QED BY <2>1, <2>2, <2>3, <2>4 DEF ControlOK
<1> QED BY <1>1, <1>2, <1>3, <1>4, <1>5, <1>6, <1>7, <1>8 DEF Calls

-----------------------------------------------------------------------------
(* The device                                                              *)

Answered == DeviceValue \/ DevicePair \/ DeviceValidate \/ DeviceUnpair
            \/ DeviceStartSession \/ DeviceStopSession \/ DeviceStartService

\* What the answer a to the request m says, and what it does to the device.
Says(m, a) ==
  /\ m.name = "GetValue" /\ a.result = "SUCCESS" =>
       /\ m.arg = "ProductVersion" => a.value = devVersion
       /\ m.arg = "DeviceClass" => a.value = devClass
  /\ m.name \notin {"Pair", "Unpair"} => trusted' = trusted
  /\ m.name = "Pair" => IF a.result = "SUCCESS" THEN trusted' = trusted \union {m.arg} ELSE trusted' = trusted
  /\ m.name = "Unpair" => a.result = "SUCCESS" /\ trusted' = trusted \ {m.arg}
  /\ m.name \notin {"StartSession", "StopSession"} => UNCHANGED <<dsession, dtls, sessions>>
  /\ m.name = "StartSession" =>
       IF a.result = "SUCCESS"
       THEN /\ sessions' = sessions + 1 /\ dsession' = sessions' /\ a.session = sessions'
            /\ a.value \in {"ssl", "plain"} /\ dtls' = (a.value = "ssl")
       ELSE a.session = 0 /\ UNCHANGED <<dsession, dtls, sessions>>
  /\ m.name = "StopSession" =>
       /\ sessions' = sessions
       /\ IF m.arg = dsession THEN dsession' = 0 /\ dtls' = FALSE ELSE UNCHANGED <<dsession, dtls>>
  /\ m.name = "StartService" /\ a.result = "SUCCESS" => a.value \in {"ssl", "plain"}
  /\ m.name # "StartSession" => a.session = 0

LEMMA AnswerFacts ==
  ASSUME TypeOK, QueueOK, ControlOK, Answered
  PROVE  /\ conn = "open" /\ devq # <<>> /\ devq[1] \in Requests /\ devq[1].tls = dtls /\ devq' = Tail(devq)
         /\ \E a \in Answers : /\ inbox' = Append(inbox, a) /\ a.name = devq[1].name /\ a.tls = dtls
                               /\ Says(devq[1], a)
         /\ UNCHANGED <<deviceVars, connVars, pc, sent, ret, callVars, serviceVars, diskVars, late,
                        devVersion, devClass, forgot>>
<1> DEFINE m == devq[1]
<1>1. conn = "open" /\ devq # <<>> /\ Head(devq).tls = dtls
      BY DEF Answered, DeviceValue, DevicePair, DeviceValidate, DeviceUnpair, DeviceStartSession,
             DeviceStopSession, DeviceStartService, Request
<1>2. m = Head(devq) /\ m \in Requests /\ RequestOK(m, ids)
      BY <1>1, TailFacts DEF QueueOK
<1>3. m.name \in Verbs /\ m.arg \in Nat \union Keys /\ (m.name = "GetValue" => m.arg \in Keys) /\ dtls \in BOOLEAN
      BY <1>1, <1>2 DEF Requests, RequestOK
<1> HIDE DEF m
<1> DEFINE A(result, value, n) == [name |-> m.name, result |-> result, value |-> value, session |-> n, tls |-> dtls]
<1>4. ASSUME NEW result \in Errors, NEW value \in Values, NEW n \in Nat
      PROVE  /\ A(result, value, n) \in Answers
             /\ A(result, value, n).name = m.name /\ A(result, value, n).tls = dtls
             /\ A(result, value, n).result = result /\ A(result, value, n).value = value
             /\ A(result, value, n).session = n
             /\ Answer(result, value, n) => inbox' = Append(inbox, A(result, value, n))
      BY <1>2, <1>3 DEF Answer, Answers
<1> HIDE DEF A
<1>5. /\ devq' = Tail(devq)
      /\ UNCHANGED <<deviceVars, connVars, pc, sent, ret, callVars, serviceVars, diskVars, late, devVersion, devClass, forgot>>
      BY DEF Answered, DeviceValue, DevicePair, DeviceValidate, DeviceUnpair, DeviceStartSession,
             DeviceStopSession, DeviceStartService, Answer
<1>6. /\ {"SUCCESS", "GET_PROHIBITED", "USER_DENIED_PAIRING", "INVALID_HOST_ID", "INVALID_SESSION_ID",
         "INVALID_SERVICE"} \subseteq Errors
      /\ {"none", "ssl", "plain", "lockdown", devVersion, devClass} \subseteq Values /\ Keys \subseteq Values
      /\ sessions \in Nat /\ sessions + 1 \in Nat
      BY DEF Errors, Values, ControlOK, HandshakeOK, TypeOK
<1>7. \E a \in Answers : inbox' = Append(inbox, a) /\ a.name = m.name /\ a.tls = dtls /\ Says(m, a)
  <2>1. CASE DeviceValue
    <3>1. m.name \in {"GetValue", "QueryType"} /\ UNCHANGED <<trusted, dsession, dtls, sessions>>
          BY <1>2, <2>1 DEF DeviceValue, Request
    <3>2. PICK v \in Values : /\ Answer("SUCCESS", v, 0) \/ (m.name = "GetValue" /\ Answer("GET_PROHIBITED", "none", 0))
                              /\ m.name = "GetValue" => /\ m.arg = "ProductVersion" => v = devVersion
                                                        /\ m.arg = "DeviceClass" => v = devClass
      <4> DEFINE v == IF m.name = "QueryType" THEN "lockdown" ELSE IF m.arg = "ProductVersion" THEN devVersion
                      ELSE IF m.arg = "DeviceClass" THEN devClass ELSE m.arg
      <4>1. v \in Values
            BY <1>3, <1>6, <3>1
      <4>2. Answer("SUCCESS", v, 0) \/ (m.name = "GetValue" /\ Answer("GET_PROHIBITED", "none", 0))
            BY <1>2, <2>1 DEF DeviceValue
      <4> QED BY <4>1, <4>2, <3>1
    <3> QED BY <1>4, <1>6, <3>1, <3>2 DEF Says
  <2>2. CASE DevicePair
    <3>1. m.name = "Pair" /\ UNCHANGED <<dsession, dtls, sessions>>
          BY <1>2, <2>2 DEF DevicePair, Request
    <3>2. \/ Answer("SUCCESS", "none", 0) /\ trusted' = trusted \union {m.arg}
          \/ Answer("USER_DENIED_PAIRING", "none", 0) /\ trusted' = trusted
          BY <1>2, <2>2 DEF DevicePair
    <3> QED BY <1>4, <1>6, <3>1, <3>2 DEF Says
  <2>3. CASE DeviceValidate
    <3>1. m.name = "ValidatePair" /\ UNCHANGED <<trusted, dsession, dtls, sessions>>
          BY <1>2, <2>3 DEF DeviceValidate, Request
    <3>2. Answer("SUCCESS", "none", 0) \/ Answer("INVALID_HOST_ID", "none", 0)
          BY <2>3 DEF DeviceValidate
    <3> QED BY <1>4, <1>6, <3>1, <3>2 DEF Says
  <2>4. CASE DeviceUnpair
    <3>1. m.name = "Unpair" /\ UNCHANGED <<dsession, dtls, sessions>>
          BY <1>2, <2>4 DEF DeviceUnpair, Request
    <3>2. Answer("SUCCESS", "none", 0) /\ trusted' = trusted \ {m.arg}
          BY <1>2, <2>4 DEF DeviceUnpair
    <3> QED BY <1>4, <1>6, <3>1, <3>2 DEF Says
  <2>5. CASE DeviceStartSession
    <3>1. m.name = "StartSession" /\ UNCHANGED trusted
          BY <1>2, <2>5 DEF DeviceStartSession, Request
    <3>2. CASE Head(devq).arg \in trusted
      <4>1. PICK useSsl \in BOOLEAN :
              /\ Answer("SUCCESS", IF useSsl THEN "ssl" ELSE "plain", sessions + 1)
              /\ dsession' = sessions + 1 /\ sessions' = sessions + 1 /\ dtls' = useSsl
            BY <2>5, <3>2 DEF DeviceStartSession
      <4>2. CASE useSsl = TRUE
        <5>1. Answer("SUCCESS", "ssl", sessions + 1) /\ dtls' = TRUE
              BY <4>1, <4>2
        <5>2. /\ A("SUCCESS", "ssl", sessions + 1) \in Answers /\ A("SUCCESS", "ssl", sessions + 1).name = m.name
              /\ A("SUCCESS", "ssl", sessions + 1).tls = dtls /\ A("SUCCESS", "ssl", sessions + 1).result = "SUCCESS"
              /\ A("SUCCESS", "ssl", sessions + 1).value = "ssl"
              /\ A("SUCCESS", "ssl", sessions + 1).session = sessions + 1
              /\ inbox' = Append(inbox, A("SUCCESS", "ssl", sessions + 1))
              BY <1>4, <1>6, <5>1
        <5>3. dtls' = (A("SUCCESS", "ssl", sessions + 1).value = "ssl")
              BY <5>1, <5>2
        <5> QED BY <3>1, <4>1, <5>2, <5>3 DEF Says
      <4>3. CASE useSsl = FALSE
        <5>1. Answer("SUCCESS", "plain", sessions + 1) /\ dtls' = FALSE
              BY <4>1, <4>3
        <5> QED BY <1>4, <1>6, <3>1, <4>1, <5>1 DEF Says
      <4> QED BY <4>2, <4>3
    <3>3. CASE Head(devq).arg \notin trusted
      <4>1. Answer("INVALID_HOST_ID", "none", 0) /\ UNCHANGED <<dsession, dtls, sessions>>
            BY <2>5, <3>3 DEF DeviceStartSession
      <4> QED BY <1>4, <1>6, <3>1, <4>1 DEF Says
    <3> QED BY <3>2, <3>3
  <2>6. CASE DeviceStopSession
    <3>1. m.name = "StopSession" /\ UNCHANGED <<trusted, sessions>>
          BY <1>2, <2>6 DEF DeviceStopSession, Request
    <3>2. IF m.arg = dsession
          THEN Answer("SUCCESS", "none", 0) /\ dsession' = 0 /\ dtls' = FALSE
          ELSE Answer("INVALID_SESSION_ID", "none", 0) /\ UNCHANGED <<dsession, dtls>>
          BY <1>2, <2>6 DEF DeviceStopSession
    <3> QED BY <1>4, <1>6, <3>1, <3>2 DEF Says
  <2>7. CASE DeviceStartService
    <3>1. m.name = "StartService" /\ UNCHANGED <<trusted, dsession, dtls, sessions>>
          BY <1>2, <2>7 DEF DeviceStartService, Request
    <3>2. \/ \E d \in {"plain", "ssl"} : Answer("SUCCESS", d, 0)
          \/ Answer("INVALID_SERVICE", "none", 0)
          BY <2>7 DEF DeviceStartService
    <3> QED BY <1>4, <1>6, <3>1, <3>2 DEF Says
  <2> QED BY <2>1, <2>2, <2>3, <2>4, <2>5, <2>6, <2>7 DEF Answered
<1> QED BY <1>1, <1>2, <1>5, <1>7 DEF m

\* The device touches nothing that a call has begun with.
LEMMA DeviceControl ==
  ASSUME TypeOK, QueueOK, ControlOK, Device
  PROVE  TypeOK' /\ ControlOK'
<1> USE DEF deviceVars, connVars, callVars, serviceVars, diskVars, devVars
<1>1. CASE DeviceGarbage \/ DeviceLost
  <2>1. /\ UNCHANGED <<version, class, session, ssl, tls, sslFailed, pc, sent, ret, call, host, fresh, back, calls, ids,
                       desc, service, record, diskFailed, late, devVersion, devClass, trusted, dsession, dtls, sessions>>
        /\ conn = "open" /\ conn' = "lost"
        BY <1>1 DEF DeviceGarbage, DeviceLost
  <2>2. TypeOK'
        BY <2>1 DEF TypeOK
  <2>3. ControlOK'
        BY <2>1 DEF ControlOK, StepOK, Budget, HandshakeOK
  <2> QED BY <2>2, <2>3
<1>2. CASE DeviceForget
      BY <1>2 DEF DeviceForget, TypeOK, ControlOK, StepOK, Budget, HandshakeOK
<1>3. CASE Answered
  <2>1. PICK a \in Answers : Says(devq[1], a)
        BY <1>3, AnswerFacts
  <2>2. /\ UNCHANGED <<version, class, session, ssl, tls, conn, sslFailed, pc, sent, ret, call, host, fresh, back,
                       calls, ids, desc, service, record, diskFailed, late, devVersion, devClass, forgot>>
        /\ devq[1].name = "Pair" => devq[1].arg \in 1..ids
        /\ devq[1].name \in Verbs
    <3>1. 1 \in 1..Len(devq) /\ devq[1] \in Requests
          BY <1>3, AnswerFacts, TailFacts DEF QueueOK
    <3>2. RequestOK(devq[1], ids)
          BY <3>1 DEF QueueOK
    <3> QED BY <1>3, AnswerFacts, <3>1, <3>2 DEF Requests, RequestOK
  <2>3. /\ sessions' \in Nat /\ sessions <= sessions' /\ dsession' \in 0..sessions' /\ trusted' \subseteq 1..ids
        /\ dtls' => dsession' # 0
    <3>1. dsession \in 0..sessions /\ sessions \in Nat /\ trusted \subseteq 1..ids /\ (dtls => dsession # 0)
          BY DEF TypeOK, ControlOK, HandshakeOK
    <3>2. trusted' \subseteq 1..ids
          BY <2>1, <2>2, <3>1 DEF Says
    <3>3. \/ UNCHANGED <<dsession, dtls, sessions>>
          \/ sessions' = sessions + 1 /\ dsession' = sessions'
          \/ sessions' = sessions /\ dsession' = 0 /\ dtls' = FALSE
          BY <2>1 DEF Says
    <3> QED BY <3>1, <3>2, <3>3
  <2>4. ControlOK'
    <3>1. dtls' \in BOOLEAN
          BY <2>1 DEF Says, ControlOK, HandshakeOK
    <3> QED BY <2>2, <2>3, <3>1 DEF ControlOK, StepOK, Budget, HandshakeOK
  <2>5. TypeOK'
    <3>1. session' \in 0..sessions'
          BY <2>2, <2>3 DEF TypeOK
    <3> QED BY <2>2, <2>3, <3>1 DEF TypeOK
  <2> QED BY <2>4, <2>5
<1> QED BY <1>1, <1>2, <1>3 DEF Device, Answered

-----------------------------------------------------------------------------
(* The queues, and what is sent under TLS                                  *)

\* A reply is read, whatever is made of it; the session is left alone by all but two.
LEMMA ReplyStep ==
  ASSUME TypeOK, QueueOK, StepOK, NEW r \in Replies, Reply(r)
  PROVE  /\ \E x \in Exchanges : Step(x, r)
         /\ UNCHANGED <<conn, devVersion, devClass, trusted, dsession, dtls, sessions, forgot, call>>
         /\ ids <= ids' /\ pc' # "stop" /\ (sslFailed' = sslFailed)
         /\ pc \notin {"start", "stop"} => UNCHANGED <<session, ssl, tls>> /\ pc' \notin {"start", "enable"}
<1> USE ConstAssumption, StepNames DEF Step, connVars, callVars, devVars, Pairing, Validating
<1>0. ids \in Nat
      BY DEF TypeOK
<1>1. CASE Query(r)
      BY <1>0, <1>1 DEF Query
<1>2. CASE Version(r)
      BY <1>0, <1>2 DEF Version
<1>3. CASE Class(r)
      BY <1>0, <1>3 DEF Class
<1>4. CASE Key(r)
      BY <1>0, <1>4 DEF Key, Paired, StepOK
<1>5. CASE Wifi(r)
      BY <1>0, <1>5 DEF Wifi
<1>6. CASE Pair(r)
      BY <1>0, <1>6 DEF Pair, Paired, StepOK
<1>7. CASE Validate(r)
      BY <1>0, <1>7 DEF Validate
<1>8. CASE StartSession(r)
      BY <1>0, <1>8 DEF StartSession, Started
<1>9. CASE StopSession(r)
      BY <1>0, <1>9 DEF StopSession, StepOK
<1>10. CASE StartService(r)
      BY <1>0, <1>10 DEF StartService
<1>11. CASE Unpair(r)
      BY <1>0, <1>11 DEF Unpair
<1> QED BY <1>1, <1>2, <1>3, <1>4, <1>5, <1>6, <1>7, <1>8, <1>9, <1>10, <1>11 DEF Reply

\* A request is sent in the mode of the client.
LEMMA SendFacts ==
  ASSUME TypeOK, QueueOK, StepOK, Send
  PROVE  /\ pc \in Exchanges /\ ~sent /\ sent'
         /\ UNCHANGED <<deviceVars, connVars, pc, ret, callVars, serviceVars, diskVars, late, devVars, inbox>>
         /\ conn # "open" => devq' = devq
         /\ conn = "open" => \E m \in Requests : /\ devq' = Append(devq, m) /\ m.name = Verb[pc] /\ m.tls = tls
                                                 /\ m.arg = Argument /\ RequestOK(m, ids)
<1>1. pc \in Exchanges /\ ~sent /\ sent'
      BY DEF Send
<1>2. Verb[pc] \in Verbs /\ Argument \in Nat \union Keys /\ tls \in BOOLEAN
      BY <1>1, VerbFacts, ArgumentFacts DEF TypeOK
<1> DEFINE m == [name |-> Verb[pc], arg |-> Argument, tls |-> tls]
<1>3. m \in Requests /\ m.name = Verb[pc] /\ m.tls = tls /\ m.arg = Argument
      BY <1>2 DEF Requests
<1>4. conn = "open" => devq' = Append(devq, m)
      BY DEF Send
<1> HIDE DEF m
<1>5. RequestOK(m, ids)
  <2>1. Verb[pc] = "GetValue" => Argument \in Keys
        BY <1>1, ArgumentFacts
  <2>2. Verb[pc] = "Pair" => pc = "pair"
        BY <1>1, StepNames, VerbFacts
  <2>3. pc = "pair" => Argument = fresh /\ fresh \in 1..ids
        BY <1>1, ArgumentFacts DEF StepOK, TypeOK
  <2> QED BY <1>3, <2>1, <2>2, <2>3 DEF RequestOK
<1> QED BY <1>1, <1>3, <1>4, <1>5 DEF Send

\* The queues of the requests and of the replies.
LEMMA QueueSteps ==
  ASSUME TypeOK, QueueOK, ControlOK, TlsOK, Next
  PROVE  QueueOK'
<1>1. ASSUME NEW r \in Replies, Reply(r) PROVE QueueOK'
  <2>1. PICK x \in Exchanges : Step(x, r)
        BY <1>1, ReplyStep DEF ControlOK
  <2>2. sessions' = sessions /\ ids <= ids' /\ devq' = devq /\ ids \in Nat /\ ids' \in Nat
        BY <1>1, <2>1, ReplyStep, ReplyFacts, ReplyControl DEF TypeOK, ControlOK
  <2>3. \A i \in 1..Len(devq') : RequestOK(devq'[i], ids')
        BY <2>2 DEF QueueOK, RequestOK
  <2>4. \A i \in 1..Len(inbox') : AnswerOK(inbox'[i], sessions')
        BY <2>1, <2>2, ReplyFacts DEF QueueOK
  <2> QED BY <2>1, <2>2, <2>3, <2>4, ReplyFacts DEF QueueOK
<1>2. CASE Send
  <2>1. UNCHANGED <<sessions, ids, inbox>>
        BY <1>2, SendFacts DEF ControlOK, devVars, callVars
  <2>2. CASE conn = "open"
    <3>1. PICK m \in Requests : devq' = Append(devq, m) /\ RequestOK(m, ids)
          BY <1>2, <2>2, SendFacts DEF ControlOK
    <3>2. \A i \in 1..Len(devq') : (i \in 1..Len(devq) /\ devq'[i] = devq[i]) \/ devq'[i] = m
          BY <3>1, AppendFacts DEF QueueOK
    <3> QED BY <2>1, <3>1, <3>2, AppendFacts DEF QueueOK
  <2> QED BY <1>2, <2>1, <2>2, SendFacts DEF QueueOK, ControlOK
<1>3. CASE Handshake \/ End
  <2>1. devq' = <<>> /\ inbox' = <<>>
        BY <1>3 DEF Handshake, End
  <2>2. <<>> \in Seq(Requests) /\ <<>> \in Seq(Answers) /\ Len(<<>>) = 0
        OBVIOUS
  <2> QED BY <2>1, <2>2 DEF QueueOK
<1>4. CASE ReadRecord \/ Old \/ ValidateRead \/ UnpairRead \/ Session \/ EnableSsl \/ Close
           \/ CallStartSession \/ CallStopSession \/ CallPair \/ CallUnpair \/ CallStartService \/ CallFree \/ ServiceNew
  <2>1. UNCHANGED <<devq, inbox, ids, sessions>>
        BY <1>4 DEF ReadRecord, Old, ValidateRead, UnpairRead, Session, EnableSsl, Close, CallStartSession, CallStopSession,
           CallPair, CallUnpair, CallStartService, CallFree, ServiceNew, Begin, callVars, devVars
  <2> QED BY <2>1 DEF QueueOK
<1>5. CASE DeviceGarbage \/ DeviceForget \/ DeviceLost
  <2>1. UNCHANGED <<devq, inbox, ids, sessions>>
        BY <1>5 DEF DeviceGarbage, DeviceForget, DeviceLost, callVars, devVars
  <2> QED BY <2>1 DEF QueueOK
<1>6. CASE Answered
  <2>1. PICK a \in Answers : inbox' = Append(inbox, a) /\ a.name = devq[1].name /\ a.tls = dtls /\ Says(devq[1], a)
        BY <1>6, AnswerFacts
  <2>2. ids' = ids /\ devq' = Tail(devq) /\ devq # <<>> /\ devq[1].tls = dtls /\ conn = "open"
        BY <1>6, AnswerFacts DEF callVars
  <2>3. devq' \in Seq(Requests) /\ \A i \in 1..Len(devq') : RequestOK(devq'[i], ids')
        BY <2>2, TailFacts DEF QueueOK
  <2>4. sessions \in Nat /\ sessions' \in Nat /\ sessions <= sessions'
        BY <2>1 DEF Says, TypeOK
  <2>5. AnswerOK(a, sessions')
    <3>1. devq[1].name = "StartSession" => ~dtls
      <4>1. Modes(devq, dtls, tls, dsession)
            BY <2>2 DEF TlsOK
      <4>2. 1 \in 1..Len(devq)
            BY <2>2, TailFacts DEF QueueOK
      <4> QED BY <2>2, <4>1, <4>2 DEF Modes
    <3> QED BY <2>1, <2>4, <3>1 DEF Says, AnswerOK
  <2>6. \A i \in 1..Len(inbox) : AnswerOK(inbox[i], sessions')
    <3>1. \A i \in 1..Len(inbox) : inbox[i] \in Answers
          BY DEF QueueOK
    <3>2. \A x \in Answers : x.session \in Nat
          BY DEF Answers
    <3> QED BY <2>4, <3>1, <3>2 DEF QueueOK, AnswerOK
  <2>7. \A i \in 1..Len(inbox') : (i \in 1..Len(inbox) /\ inbox'[i] = inbox[i]) \/ inbox'[i] = a
        BY <2>1, AppendFacts DEF QueueOK
  <2> QED BY <2>1, <2>3, <2>5, <2>6, <2>7, AppendFacts DEF QueueOK
<1> QED BY <1>1, <1>2, <1>3, <1>4, <1>5, <1>6 DEF Next, Calls, AppStep, Device, Answered

\* Nothing of the session, the modes and the requests changes.
LEMMA TlsKept ==
  ASSUME TlsOK, UNCHANGED <<session, tls, conn, dsession, dtls, devq>>, pc' # "enable",
         inbox' = inbox \/ \A i \in 1..Len(inbox') : i + 1 \in 1..Len(inbox) /\ inbox'[i] = inbox[i + 1],
         tls /\ dtls /\ conn = "open" /\ (pc' = "start" \/ (pc' = "stop" /\ sent')) =>
           \E j \in 1..Len(devq) : Breaks(devq[j], dsession)
  PROVE  TlsOK'
<1> SUFFICES ASSUME conn = "open" PROVE TlsOK'
    BY DEF TlsOK
<1>1. \A i \in 1..Len(inbox') : StartsSsl(inbox'[i]) =>
         /\ Stuck' /\ inbox'[i].session = dsession'
         /\ \A j \in 1..Len(inbox') : StartsSsl(inbox'[j]) => j = i
  <2>1. Stuck => Stuck'
        BY DEF Stuck
  <2> QED BY <2>1 DEF TlsOK
<1> QED BY <1>1 DEF TlsOK

LEMMA TlsReply ==
  ASSUME TypeOK, QueueOK, ControlOK, TlsOK, NEW r \in Replies, Reply(r)
  PROVE  TlsOK'
<1>0. StepOK /\ ssl = tls
      BY DEF ControlOK, HandshakeOK
<1>1. PICK x \in Exchanges : Step(x, r)
      BY <1>0, ReplyStep
<1>2. /\ UNCHANGED <<conn, dsession, dtls, devq>> /\ pc' # "stop" /\ sent
      /\ inbox' = inbox \/ \A i \in 1..Len(inbox') : i + 1 \in 1..Len(inbox) /\ inbox'[i] = inbox[i + 1]
      BY <1>0, <1>1, ReplyStep, ReplyFacts
<1>3. CASE pc \notin {"start", "stop"}
  <2>1. UNCHANGED <<session, tls>> /\ pc' \notin {"start", "enable"}
        BY <1>0, <1>3, ReplyStep
  <2> QED BY <1>2, <2>1, TlsKept
<1>4. CASE pc = "stop"
  <2>1. StopSession(r)
        BY <1>4 DEF Reply, Query, Version, Class, Key, Wifi, Pair, Validate, StartSession, StartService, Unpair, Step
  <2>2. pc' # "enable"
        BY <1>0, <1>4, <2>1 DEF StopSession, StepOK
  <2>3. CASE r = NoReply
    <3>1. UNCHANGED <<session, tls>>
          BY <2>1, <2>3 DEF StopSession
    <3> QED BY <1>2, <1>4, <2>2, <3>1, TlsKept DEF TlsOK
  <2>4. CASE r # NoReply
    <3>1. tls' = FALSE
          BY <1>0, <2>1, <2>4 DEF StopSession
    <3> SUFFICES ASSUME conn = "open" PROVE TlsOK'
        BY <1>2 DEF TlsOK
    <3>2. Modes(devq', dtls', tls', dsession')
          BY <1>2, <3>1, ModesSwitch DEF TlsOK
    <3>3. Stuck => Stuck'
          BY <1>2, <3>1 DEF Stuck
    <3>4. \A i \in 1..Len(inbox') : StartsSsl(inbox'[i]) =>
             /\ Stuck' /\ inbox'[i].session = dsession'
             /\ \A j \in 1..Len(inbox') : StartsSsl(inbox'[j]) => j = i
          BY <1>2, <3>3 DEF TlsOK
    <3> QED BY <2>2, <3>1, <3>2, <3>4 DEF TlsOK
  <2> QED BY <2>3, <2>4
<1>5. CASE pc = "start"
  <2>1. StartSession(r)
        BY <1>5 DEF Reply, Query, Version, Class, Key, Wifi, Pair, Validate, StopSession, StartService, Unpair, Step
  <2>2. tls' = tls
        BY <2>1 DEF StartSession
  <2>3. CASE CheckResult(r, "StartSession") # "SUCCESS"
    <3>1. session' = session /\ pc' \notin {"start", "enable"}
          BY <2>1, <2>3 DEF StartSession, Started
    <3> QED BY <1>2, <2>2, <3>1, TlsKept
  <2>4. CASE CheckResult(r, "StartSession") = "SUCCESS"
    <3>1. /\ r \in Answers /\ r.name = "StartSession" /\ r.result = "SUCCESS" /\ r # NoReply
      <4>1. r \in Answers \/ r = NoReply
            BY <1>1, ReplyFacts
      <4>2. NoReply \notin Answers
            BY DEF NoReply, Answers, Verbs
      <4> QED BY <2>4, <4>1, <4>2, ResultFacts, Words
    <3>2. /\ inbox # <<>> /\ r = inbox[1] /\ r.tls = tls /\ AnswerOK(r, sessions) /\ 1 \in 1..Len(inbox)
          /\ \A i \in 1..Len(inbox') : i + 1 \in 1..Len(inbox) /\ inbox'[i] = inbox[i + 1]
          BY <1>1, <3>1, ReplyFacts, TailFacts DEF QueueOK
    <3>3. ~tls /\ session' = r.session
          BY <2>1, <2>4, <3>1, <3>2 DEF AnswerOK, StartSession
    <3> SUFFICES ASSUME conn = "open" PROVE TlsOK'
        BY <1>2 DEF TlsOK
    <3>4. Stuck => Stuck'
          BY <1>2, <2>2 DEF Stuck
    <3>5. \A i \in 1..Len(inbox') : StartsSsl(inbox'[i]) =>
             /\ Stuck' /\ inbox'[i].session = dsession' /\ r.value # "ssl"
             /\ \A j \in 1..Len(inbox') : StartsSsl(inbox'[j]) => j = i
      <4>1. ASSUME NEW i \in 1..Len(inbox'), StartsSsl(inbox'[i])
            PROVE  /\ Stuck' /\ inbox'[i].session = dsession' /\ r.value # "ssl"
                   /\ \A j \in 1..Len(inbox') : StartsSsl(inbox'[j]) => j = i
        <5>1. /\ i \in Nat /\ i + 1 \in 1..Len(inbox) /\ i + 1 # 1 /\ StartsSsl(inbox[i + 1])
              /\ inbox[i + 1].session = inbox'[i].session
              BY <3>2, <4>1
        <5>2. /\ Stuck /\ inbox[i + 1].session = dsession
              /\ \A j \in 1..Len(inbox) : StartsSsl(inbox[j]) => j = i + 1
              BY <1>2, <5>1 DEF TlsOK
        <5>3. ~StartsSsl(r)
              BY <3>2, <5>1, <5>2
        <5>4. ASSUME NEW j \in 1..Len(inbox'), StartsSsl(inbox'[j]) PROVE j = i
          <6>1. j + 1 \in 1..Len(inbox) /\ StartsSsl(inbox[j + 1])
                BY <3>2, <5>4
          <6> QED BY <5>1, <5>2, <6>1
        <5> QED BY <1>2, <3>1, <3>4, <5>1, <5>2, <5>3, <5>4 DEF StartsSsl
      <4> QED BY <4>1
    <3>6. r.value = "ssl" => Stuck' /\ session' = dsession'
          BY <1>2, <3>1, <3>2, <3>3, <3>4 DEF TlsOK, StartsSsl
    <3>7. pc' = "enable" => r.value = "ssl"
          BY <2>1, <2>4 DEF StartSession, Started
    <3> QED BY <1>2, <2>2, <3>3, <3>5, <3>6, <3>7 DEF TlsOK
  <2> QED BY <2>3, <2>4
<1> QED BY <1>3, <1>4, <1>5

Silent == \/ ReadRecord \/ Old \/ ValidateRead \/ UnpairRead \/ Session \/ Close
          \/ CallStartSession \/ CallStopSession \/ CallPair \/ CallUnpair \/ CallStartService \/ CallFree \/ ServiceNew

\* A step without a message, after which the client starts a session only if it has none.
LEMMA SilentStep ==
  ASSUME TypeOK, ControlOK, Silent
  PROVE  /\ UNCHANGED <<connVars, devVars, late, sent, devq, inbox>>
         /\ ~sent /\ pc \notin Exchanges /\ pc # "enable" /\ pc' # "enable" /\ (pc' = "start" => session = 0)
         /\ UNCHANGED <<deviceVars, record>> /\ (diskFailed => diskFailed')
<1> USE DEF connVars, devVars
<1>1. pc \notin Exchanges /\ pc # "enable"
  <2>1. pc \in {"record", "old", "validate_read", "unpair_read", "session", "close", "idle"}
        BY DEF Silent, ReadRecord, Old, ValidateRead, UnpairRead, Session, Close, CallStartSession, CallStopSession,
           CallPair, CallUnpair, CallStartService, CallFree, ServiceNew, Begin
  <2> QED BY <2>1, StepNames
<1>2. ~sent
      BY <1>1 DEF ControlOK, StepOK
<1>3. CASE ReadRecord
      BY <1>1, <1>2, <1>3 DEF ReadRecord, Read, diskVars
<1>4. CASE Old
      BY <1>1, <1>2, <1>4 DEF Old, diskVars
<1>5. CASE ValidateRead
      BY <1>1, <1>2, <1>5 DEF ValidateRead, Read, diskVars
<1>6. CASE UnpairRead
      BY <1>1, <1>2, <1>6 DEF UnpairRead, Read, diskVars
<1>7. CASE Session
      BY <1>1, <1>2, <1>7 DEF Session, Read, diskVars, ControlOK, StepOK, HandshakeOK, Validating
<1>8. CASE Close
      BY <1>1, <1>2, <1>8 DEF Close, diskVars
<1>9. CASE CallStartSession
      BY <1>1, <1>2, <1>9 DEF CallStartSession, Begin, diskVars
<1>10. CASE CallStopSession
      BY <1>1, <1>2, <1>10 DEF CallStopSession, Begin, diskVars
<1>11. CASE CallPair
      BY <1>1, <1>2, <1>11 DEF CallPair, Begin, diskVars
<1>12. CASE CallUnpair
      BY <1>1, <1>2, <1>12 DEF CallUnpair, Begin, diskVars
<1>13. CASE CallStartService
      BY <1>1, <1>2, <1>13 DEF CallStartService, Begin, diskVars
<1>14. CASE CallFree
      BY <1>1, <1>2, <1>14 DEF CallFree, Begin, diskVars
<1>15. CASE ServiceNew
      BY <1>1, <1>2, <1>15 DEF ServiceNew, diskVars
<1> QED BY <1>3, <1>4, <1>5, <1>6, <1>7, <1>8, <1>9, <1>10, <1>11, <1>12, <1>13, <1>14, <1>15 DEF Silent

LEMMA TlsQuiet ==
  ASSUME TypeOK, QueueOK, ControlOK, TlsOK,
         Calls \/ ReadRecord \/ Old \/ ValidateRead \/ UnpairRead \/ Session \/ EnableSsl \/ Close \/ End
  PROVE  TlsOK'
<1> USE DEF connVars, devVars
<1>0. ~sent \/ pc \in Exchanges
      BY DEF ControlOK, StepOK
<1>1. CASE Handshake \/ End
  <2>1. devq' = <<>> /\ inbox' = <<>> /\ tls' = FALSE /\ dtls' = FALSE /\ pc' # "enable"
        BY <1>1 DEF Handshake, End
  <2> QED BY <2>1, ModesEmpty DEF TlsOK
<1>2. CASE EnableSsl
  <2>1. /\ UNCHANGED <<session, conn, dsession, dtls, devq, inbox>> /\ pc = "enable"
        /\ pc' \notin {"enable", "start", "stop"} /\ (tls' = tls \/ tls' = TRUE)
        BY <1>2 DEF EnableSsl, Started
  <2> SUFFICES ASSUME conn = "open" PROVE TlsOK'
      BY <2>1 DEF TlsOK
  <2>2. Stuck /\ session = dsession /\ \A i \in 1..Len(inbox) : ~StartsSsl(inbox[i])
        BY <2>1 DEF TlsOK
  <2>3. Modes(devq, dtls, tls', dsession)
    <3>1. dtls = TRUE
          BY <2>2 DEF Stuck, TlsOK
    <3> QED BY <2>1, <2>2, <3>1, ModesSwitch DEF Stuck, TlsOK
  <2> QED BY <2>1, <2>2, <2>3 DEF TlsOK
<1>3. CASE Silent
  <2>1. ~tls \/ session # 0
        BY DEF ControlOK, HandshakeOK
  <2>2. /\ UNCHANGED <<session, tls, conn, dsession, dtls, devq, inbox, sent>> /\ ~sent
        /\ pc' # "enable" /\ (pc' = "start" => session = 0)
        BY <1>3, SilentStep
  <2> QED BY <2>1, <2>2, TlsKept
<1> QED BY <1>1, <1>2, <1>3 DEF Calls, Silent

\* A request under TLS is for the session of the device, or comes after what ends it.
LEMMA TlsSend ==
  ASSUME TypeOK, QueueOK, ControlOK, TlsOK, Send
  PROVE  TlsOK'
<1> USE DEF connVars, devVars
<1>1. /\ UNCHANGED <<session, tls, conn, dsession, dtls, pc, inbox>> /\ pc \in Exchanges /\ ~sent
      BY SendFacts DEF ControlOK
<1> SUFFICES ASSUME conn = "open" PROVE TlsOK'
    BY <1>1 DEF TlsOK
<1>2. PICK m \in Requests : /\ devq' = Append(devq, m) /\ m.name = Verb[pc] /\ m.tls = tls /\ m.arg = Argument
      BY SendFacts DEF ControlOK
<1>3. devq \in Seq(Requests) /\ tls \in BOOLEAN /\ dtls \in BOOLEAN
      BY DEF QueueOK, TypeOK, ControlOK, HandshakeOK
<1>4. /\ Len(devq') = Len(devq) + 1 /\ Len(devq) \in Nat /\ devq'[Len(devq) + 1] = m
      /\ \A i \in 1..Len(devq) : devq'[i] = devq[i]
      /\ devq = <<>> <=> Len(devq) = 0
      BY <1>2, <1>3, AppendFacts
<1>5. m.name = "StartSession" => pc = "start"
      BY <1>1, <1>2, StepNames, VerbFacts
<1>6. pc = "stop" /\ tls /\ dtls => Breaks(m, dsession)
      BY <1>1, <1>2, VerbFacts, ArgumentFacts DEF TlsOK, Breaks
<1>7. Modes(devq', dtls, tls, dsession)
      BY <1>2, <1>3, <1>5, ModesSend DEF TlsOK
<1>8. tls /\ dtls /\ (pc = "start" \/ pc = "stop") => \E j \in 1..Len(devq') : Breaks(devq'[j], dsession)
  <2>1. CASE pc = "stop"
        BY <1>4, <1>6, <2>1
  <2>2. CASE pc # "stop"
        BY <1>4, <2>2 DEF TlsOK
  <2> QED BY <2>1, <2>2
<1>9. Stuck => Stuck'
      BY <1>1, <1>2, <1>4 DEF Stuck
<1> QED BY <1>1, <1>7, <1>8, <1>9, StepNames DEF TlsOK

\* The device reads in its mode only.
LEMMA TlsDevice ==
  ASSUME TypeOK, QueueOK, ControlOK, TlsOK, Device
  PROVE  TlsOK'
<1> USE DEF connVars, devVars
<1>1. CASE DeviceGarbage \/ DeviceLost
      BY <1>1 DEF DeviceGarbage, DeviceLost, TlsOK
<1>2. CASE DeviceForget
  <2>1. UNCHANGED <<session, tls, conn, dsession, dtls, devq, inbox, pc, sent>>
        BY <1>2 DEF DeviceForget
  <2> QED BY <2>1 DEF TlsOK, Stuck
<1>3. CASE Answered
  <2> DEFINE m == devq[1]
  <2>1. /\ conn = "open" /\ devq # <<>> /\ m.tls = dtls /\ devq' = Tail(devq) /\ m \in Requests
        /\ UNCHANGED <<session, tls, conn, pc, sent>>
        BY <1>3, AnswerFacts
  <2>2. PICK a \in Answers : inbox' = Append(inbox, a) /\ a.name = m.name /\ a.tls = dtls /\ Says(m, a)
        BY <1>3, AnswerFacts
  <2>3. devq \in Seq(Requests) /\ tls \in BOOLEAN /\ dtls \in BOOLEAN /\ inbox \in Seq(Answers)
        BY DEF QueueOK, TypeOK, ControlOK, HandshakeOK
  <2>4. Modes(devq, dtls, tls, dsession)
        BY <2>1 DEF TlsOK
  <2>5. /\ ~(m.name = "StopSession" /\ m.arg = dsession) => Modes(Tail(devq), dtls, tls, dsession)
        /\ \A z : Modes(Tail(devq), FALSE, tls, z)
        /\ ~dtls => \A e, z : Modes(Tail(devq), e, tls, z)
        /\ ~dtls => ~tls /\ \A i \in 1..Len(devq) : ~devq[i].tls
        /\ m.name = "StartSession" => ~dtls
        BY <2>1, <2>3, <2>4, ModesRead
  <2>6. /\ Len(inbox') = Len(inbox) + 1 /\ Len(inbox) \in Nat /\ inbox'[Len(inbox) + 1] = a
        /\ \A i \in 1..Len(inbox) : inbox'[i] = inbox[i]
        BY <2>2, <2>3, AppendFacts
  <2>7. /\ Len(devq') = Len(devq) - 1 /\ Len(devq) \in Nat \ {0}
        /\ \A i \in 1..Len(devq') : i + 1 \in 1..Len(devq) /\ devq'[i] = devq[i + 1]
        BY <2>1, <2>3, TailFacts
  <2> HIDE DEF m
  \* a device that waits for SSL, or reads a request in the wrong mode, answers nothing
  <2>8. ~Stuck
        BY <2>1, <2>3 DEF Stuck, m
  <2>9. pc # "enable" /\ \A i \in 1..Len(inbox) : ~StartsSsl(inbox[i])
        BY <2>1, <2>8 DEF TlsOK
  <2>10. \A i \in 1..Len(inbox') : StartsSsl(inbox'[i]) => i = Len(inbox') /\ StartsSsl(a)
        BY <2>6, <2>9
  <2>11. CASE UNCHANGED <<dsession, dtls>> /\ ~(m.name = "StopSession" /\ m.arg = dsession) /\ ~StartsSsl(a)
    <3>1. tls /\ dtls /\ (pc = "start" \/ (pc = "stop" /\ sent)) => \E j \in 1..Len(devq') : Breaks(devq'[j], dsession)
      <4> SUFFICES ASSUME tls, dtls, pc = "start" \/ (pc = "stop" /\ sent)
                   PROVE  \E j \in 1..Len(devq') : Breaks(devq'[j], dsession)
          OBVIOUS
      <4>1. PICK j \in 1..Len(devq) : Breaks(devq[j], dsession)
            BY <2>1 DEF TlsOK
      <4>2. ~Breaks(m, dsession)
            BY <2>1, <2>11 DEF Breaks
      <4>3. j # 1
            BY <4>1, <4>2 DEF m
      <4>4. j - 1 \in 1..Len(devq') /\ devq'[j - 1] = devq[j]
            BY <2>7, <4>1, <4>3
      <4> QED BY <4>1, <4>4
    <3>2. tls' /\ dtls' => session' = dsession'
          BY <2>1, <2>11 DEF TlsOK
    <3> QED BY <2>1, <2>5, <2>9, <2>10, <2>11, <3>1, <3>2 DEF TlsOK
  <2>12. CASE dsession' = 0 /\ dtls' = FALSE /\ ~StartsSsl(a)
        BY <2>1, <2>5, <2>9, <2>10, <2>12 DEF TlsOK
  <2>13. CASE m.name = "StartSession" /\ a.result = "SUCCESS"
    <3>1. ~dtls /\ ~tls /\ \A i \in 1..Len(devq') : ~devq'[i].tls
          BY <2>5, <2>7, <2>13
    <3>2. Modes(devq', dtls', tls', dsession')
          BY <2>1, <2>5, <3>1
    <3>3. a.session = dsession' /\ (StartsSsl(a) => dtls')
          BY <2>2, <2>13 DEF Says, StartsSsl
    <3>4. devq' = <<>> \/ ~devq'[1].tls
      <4>1. devq' \in Seq(Requests)
            BY <2>1, <2>3, TailFacts
      <4> QED BY <3>1, <4>1, EmptyFacts
    <3>5. StartsSsl(a) => Stuck'
          BY <2>1, <3>1, <3>3, <3>4 DEF Stuck
    <3>6. Len(inbox') = Len(inbox) + 1 /\ inbox'[Len(inbox')] = a
          BY <2>6
    <3> QED BY <2>1, <2>9, <2>10, <3>1, <3>2, <3>3, <3>5, <3>6 DEF TlsOK
  <2>14. \/ UNCHANGED <<dsession, dtls>> /\ ~(m.name = "StopSession" /\ m.arg = dsession) /\ ~StartsSsl(a)
         \/ dsession' = 0 /\ dtls' = FALSE /\ ~StartsSsl(a)
         \/ m.name = "StartSession" /\ a.result = "SUCCESS"
        BY <2>2 DEF Says, StartsSsl
  <2> QED BY <2>11, <2>12, <2>13, <2>14
<1> QED BY <1>1, <1>2, <1>3 DEF Device, Answered

-----------------------------------------------------------------------------
(* Replies in time                                                         *)

\* Until a receive times out, what is read is the reply to the request of this exchange.
LEMMA ReplyTimely ==
  ASSUME IInv, NEW r \in Replies, Reply(r), late' # "now"
  PROVE  /\ late # "now" /\ late' = late /\ pc \in Exchanges /\ ~sent' /\ inbox' = <<>> /\ conn' = conn
         /\ \/ /\ r \in Answers /\ inbox # <<>> /\ r = inbox[1] /\ r.name = Verb[pc] /\ r.tls = tls /\ Expected(r)
               /\ conn = "open" => devq' = <<>>
            \/ r = NoReply /\ inbox = <<>> /\ conn # "open"
<1>1. StepOK /\ TypeOK /\ QueueOK
      BY DEF IInv, ControlOK
<1>2. PICK x \in Exchanges : Step(x, r)
      BY <1>1, ReplyStep
<1>3. conn' = conn
      BY <1>1, ReplyStep
<1>4. CASE inbox # <<>>
  <2>1. late' = late /\ ReplyInTime
        BY <1>1, <1>2, <1>4, ReplyFacts DEF IInv, OnTime
  <2>2. inbox[1].tls = tls /\ inbox[1].name = Verb[pc] /\ Len(inbox) = 1 /\ Expected(inbox[1])
        /\ (conn = "open" => devq = <<>>)
        BY <1>4, <2>1 DEF ReplyInTime
  <2>3. r = inbox[1] /\ inbox' = Tail(inbox) /\ devq' = devq /\ pc = x /\ ~sent'
        BY <1>1, <1>2, <1>4, <2>2, ReplyFacts
  <2>4. inbox[1] \in Answers /\ Tail(inbox) = <<>>
        BY <1>1, <1>4, <2>2, TailFacts DEF QueueOK
  <2> QED BY <1>3, <1>4, <2>1, <2>2, <2>3, <2>4
<1>5. CASE inbox = <<>>
      BY <1>1, <1>2, <1>3, <1>5, ReplyFacts
<1> QED BY <1>4, <1>5

LEMMA OnTimeReply ==
  ASSUME IInv, NEW r \in Replies, Reply(r)
  PROVE  OnTime'
<1> SUFFICES ASSUME late' # "now" PROVE OnTime'
    BY DEF OnTime
<1>0. StepOK /\ TypeOK /\ QueueOK /\ ssl = tls /\ dtls \in BOOLEAN /\ tls \in BOOLEAN
         /\ (tls => session # 0) /\ (dtls => dsession # 0)
      BY DEF IInv, ControlOK, HandshakeOK, TypeOK
<1>1. /\ late # "now" /\ pc \in Exchanges /\ ~sent' /\ inbox' = <<>> /\ conn' = conn
      BY ReplyTimely
<1> SUFFICES ASSUME conn = "open" PROVE SessionOK'
  <2>1. conn = "open" => devq' = <<>>
        BY ReplyTimely
  <2> QED BY <1>1, <2>1 DEF OnTime, ReplyInTime, RequestInTime
<1>2. /\ r \in Answers /\ inbox # <<>> /\ r = inbox[1] /\ r.name = Verb[pc] /\ r.tls = tls
      BY ReplyTimely
<1>3. SessionOK
      BY <1>1 DEF IInv, OnTime
<1>4. UNCHANGED <<dsession, dtls, sslFailed>>
      BY <1>0, ReplyStep
<1>5. CASE pc \notin {"start", "stop"}
  <2>1. UNCHANGED <<session, tls>> /\ pc' # "start" /\ pc # "enable"
        BY <1>0, <1>1, <1>5, ReplyStep, StepNames DEF Quiet
  <2> QED BY <1>1, <1>3, <1>4, <1>5, <2>1 DEF SessionOK
<1>6. CASE pc = "stop"
  <2>1. StopSession(r)
        BY <1>6 DEF Reply, Query, Version, Class, Key, Wifi, Pair, Validate, StartSession, StartService, Unpair, Step
  <2>2. r # NoReply
        BY <1>2 DEF NoReply, Answers, Verbs
  <2>3. session' = 0 /\ tls' = FALSE
        BY <1>0, <2>1, <2>2 DEF StopSession
  <2>4. dsession = 0 /\ dtls = FALSE
        BY <1>0, <1>2, <1>3, <1>6 DEF SessionOK
  <2> QED BY <1>1, <1>4, <2>3, <2>4 DEF SessionOK
<1>7. CASE pc = "start"
  <2>1. StartSession(r)
        BY <1>7 DEF Reply, Query, Version, Class, Key, Wifi, Pair, Validate, StopSession, StartService, Unpair, Step
  <2>2. CheckResult(r, "StartSession") = r.result
        BY <1>2, <1>7, VerbFacts, ResultFacts, Words
  <2>3. session = 0 /\ tls = FALSE /\ tls' = FALSE
        BY <1>0, <1>3, <1>7, <2>1 DEF SessionOK, StartSession
  <2>4. CASE r.result = "SUCCESS"
    <3>1. /\ session' = r.session /\ pc' # "start" /\ (r.value = "ssl" => pc' = "enable")
          BY <2>1, <2>2, <2>4 DEF StartSession, Started
    <3>2. dsession = r.session /\ dtls = (r.value = "ssl")
          BY <1>2, <1>3, <1>7, <2>4 DEF SessionOK
    <3> QED BY <1>1, <1>4, <2>3, <3>1, <3>2 DEF SessionOK
  <2>5. CASE r.result # "SUCCESS"
    <3>1. session' = session /\ pc' # "start"
          BY <2>1, <2>2, <2>5 DEF StartSession, Started
    <3>2. dsession = 0 /\ dtls = FALSE
          BY <1>0, <1>2, <1>3, <1>7, <2>5 DEF SessionOK
    <3> QED BY <1>1, <1>4, <2>3, <3>1, <3>2 DEF SessionOK
  <2> QED BY <2>4, <2>5
<1> QED BY <1>5, <1>6, <1>7

\* The client's own steps.
LEMMA OnTimeQuiet ==
  ASSUME IInv, Calls \/ Silent \/ EnableSsl \/ End \/ Send
  PROVE  OnTime'
<1>0. StepOK /\ TypeOK /\ QueueOK /\ ControlOK /\ TlsOK /\ dtls \in BOOLEAN
      BY DEF IInv, ControlOK, HandshakeOK
<1>1. CASE Handshake \/ End
  <2>1. /\ ~sent' /\ inbox' = <<>> /\ devq' = <<>> /\ pc' \notin {"start", "stop"}
        /\ session' = 0 /\ dsession' = 0 /\ tls' = FALSE /\ dtls' = FALSE
        BY <1>0, <1>1, StepNames DEF Handshake, End, StepOK, Quiet
  <2> QED BY <2>1 DEF OnTime, ReplyInTime, RequestInTime, SessionOK
<1>2. CASE Silent
  <2> SUFFICES ASSUME late' # "now" PROVE OnTime'
      BY DEF OnTime
  <2>1. /\ UNCHANGED <<session, tls, conn, sslFailed, dsession, dtls, sent, devq, inbox, late>>
        /\ ~sent /\ pc # "enable" /\ (pc' = "start" => session = 0) /\ pc \notin Exchanges
        BY <1>0, <1>2, SilentStep DEF connVars, devVars
  <2>2. inbox = <<>> /\ (conn = "open" => devq = <<>>) /\ (conn = "open" => SessionOK)
        BY <2>1 DEF IInv, OnTime, ReplyInTime, RequestInTime
  <2> QED BY <2>1, <2>2 DEF OnTime, ReplyInTime, RequestInTime, SessionOK
<1>3. CASE EnableSsl
  <2> SUFFICES ASSUME late' # "now" PROVE OnTime'
      BY DEF OnTime
  <2>1. /\ UNCHANGED <<session, conn, dsession, dtls, sent, devq, inbox, late>> /\ pc = "enable" /\ pc' # "start"
        /\ sslFailed' \/ (tls' = TRUE /\ dtls)
        BY <1>3 DEF EnableSsl, Started, devVars
  <2>2. ~sent
        BY <1>0, <2>1, StepNames DEF StepOK, Quiet
  <2>3. inbox = <<>> /\ (conn = "open" => devq = <<>>) /\ (conn = "open" => session = dsession)
        BY <2>1, <2>2 DEF IInv, OnTime, ReplyInTime, RequestInTime, SessionOK
  <2>4. sslFailed' \/ tls' = dtls
        BY <1>0, <2>1
  <2> QED BY <2>1, <2>2, <2>3, <2>4 DEF OnTime, ReplyInTime, RequestInTime, SessionOK
<1>4. CASE Send
  <2> SUFFICES ASSUME late' # "now" PROVE OnTime'
      BY DEF OnTime
  <2>1. /\ UNCHANGED <<session, tls, conn, sslFailed, dsession, dtls, inbox, late, pc, fresh, record, host>>
        /\ sent' /\ ~sent
        BY <1>0, <1>4, SendFacts DEF connVars, devVars, callVars, diskVars
  <2>2. inbox = <<>> /\ (conn = "open" => devq = <<>>) /\ (conn = "open" => SessionOK)
        BY <2>1 DEF IInv, OnTime, ReplyInTime, RequestInTime
  <2>3. Argument' = Argument
        BY <2>1 DEF Argument
  <2>4. conn = "open" => Len(devq') = 1 /\ devq'[1].name = Verb[pc] /\ devq'[1].tls = tls /\ devq'[1].arg = Argument
    <3> SUFFICES ASSUME conn = "open"
                 PROVE  Len(devq') = 1 /\ devq'[1].name = Verb[pc] /\ devq'[1].tls = tls /\ devq'[1].arg = Argument
        OBVIOUS
    <3>1. PICK m \in Requests : /\ devq' = Append(devq, m) /\ m.name = Verb[pc] /\ m.tls = tls /\ m.arg = Argument
          BY <1>0, <1>4, SendFacts
    <3>2. devq \in Seq(Requests) /\ Len(devq) = 0
          BY <1>0, <2>2 DEF QueueOK
    <3>3. Len(devq') = 1 /\ devq'[1] = m
          BY <3>1, <3>2, AppendFacts
    <3> QED BY <3>1, <3>3
  <2>5. (conn = "open" => SessionOK)'
        BY <2>1, <2>2 DEF SessionOK
  <2> QED BY <2>1, <2>2, <2>3, <2>4, <2>5 DEF OnTime, ReplyInTime, RequestInTime
<1> QED BY <1>1, <1>2, <1>3, <1>4 DEF Calls, Silent

LEMMA OnTimeDevice ==
  ASSUME IInv, Device
  PROVE  OnTime'
<1> SUFFICES ASSUME late' # "now" PROVE OnTime'
    BY DEF OnTime
<1>0. StepOK /\ TypeOK /\ QueueOK /\ ControlOK /\ (dtls => dsession # 0) /\ dtls \in BOOLEAN
      BY DEF IInv, ControlOK, HandshakeOK
<1>1. CASE DeviceGarbage \/ DeviceLost
  <2>1. /\ conn' = "lost" /\ UNCHANGED <<inbox, sent, pc, tls, late, devVersion, devClass, fresh, trusted, forgot>>
        BY <1>1 DEF DeviceGarbage, DeviceLost, devVars, callVars
  <2> QED BY <2>1 DEF IInv, OnTime, ReplyInTime, RequestInTime, Expected
<1>2. CASE DeviceForget
  <2>1. /\ UNCHANGED <<conn, inbox, sent, pc, tls, late, devVersion, devClass, fresh, session, dsession, dtls, sslFailed,
                       devq, record, host>> /\ forgot' = TRUE
        BY <1>2 DEF DeviceForget, connVars, callVars, diskVars
  <2>2. Argument' = Argument
        BY <2>1 DEF Argument
  <2> QED BY <2>1, <2>2 DEF IInv, OnTime, ReplyInTime, RequestInTime, Expected, SessionOK
<1>3. CASE Answered
  <2> DEFINE m == devq[1]
  <2>1. /\ conn = "open" /\ devq # <<>> /\ m.tls = dtls /\ devq' = Tail(devq)
        /\ UNCHANGED <<session, tls, conn, sslFailed, pc, sent, late, fresh, record, host, devVersion, devClass, forgot>>
        BY <1>0, <1>3, AnswerFacts DEF connVars, callVars, diskVars
  <2>2. PICK a \in Answers : inbox' = Append(inbox, a) /\ a.name = m.name /\ a.tls = dtls /\ Says(m, a)
        BY <1>0, <1>3, AnswerFacts
  <2>3. inbox = <<>> /\ sent /\ Len(devq) = 1 /\ m.name = Verb[pc] /\ m.tls = tls /\ m.arg = Argument /\ SessionOK
        BY <2>1 DEF IInv, OnTime, ReplyInTime, RequestInTime
  <2>4. devq' = <<>>
        BY <1>0, <2>1, <2>3, TailFacts DEF QueueOK
  <2>5. Len(inbox') = 1 /\ inbox'[1] = a /\ inbox' # <<>>
        BY <2>2, <2>3
  <2>6. pc \in Exchanges
        BY <1>0, <2>3 DEF StepOK
  <2> HIDE DEF m
  <2>7. Expected(a)'
    <3>1. pc = "version" \/ pc = "class" => m.name = "GetValue"
          BY <2>3, VerbFacts
    <3>2. (pc = "version" => m.arg = "ProductVersion") /\ (pc = "class" => m.arg = "DeviceClass")
          /\ (pc = "pair" => m.arg = fresh /\ m.name = "Pair") /\ (pc = "unpair" => m.name = "Unpair")
          BY <1>0, <2>3, <2>6, ArgumentFacts, VerbFacts
    <3> QED BY <2>1, <2>2, <3>1, <3>2 DEF Expected, Says
  <2>8. SessionOK'
    <3>1. session = dsession /\ (pc = "start" => session = 0) /\ (tls = dtls \/ sslFailed \/ pc = "enable")
          BY <2>3 DEF SessionOK
    <3>2. CASE pc = "start"
      <4>1. m.name = "StartSession"
            BY <2>3, <3>2, VerbFacts
      <4>2. IF a.result = "SUCCESS" THEN dsession' = a.session /\ dtls' = (a.value = "ssl")
            ELSE dsession' = 0 /\ ~dtls'
        <5>1. CASE a.result = "SUCCESS"
              BY <2>2, <4>1, <5>1 DEF Says
        <5>2. CASE a.result # "SUCCESS"
              BY <1>0, <2>2, <3>1, <3>2, <4>1, <5>2 DEF Says
        <5> QED BY <5>1, <5>2
      <4> QED BY <2>1, <2>5, <3>1, <3>2, <4>2 DEF SessionOK
    <3>3. CASE pc = "stop"
      <4>1. m.name = "StopSession" /\ m.arg = dsession
            BY <1>0, <2>3, <2>6, <3>1, <3>3, VerbFacts, ArgumentFacts
      <4> QED BY <2>1, <2>2, <2>5, <3>3, <4>1 DEF Says, SessionOK
    <3>4. CASE pc \notin {"start", "stop"}
      <4>1. m.name \notin {"StartSession", "StopSession"}
            BY <2>3, <2>6, <3>4, VerbFacts, StepNames
      <4> QED BY <2>1, <2>2, <2>5, <3>1, <3>4, <4>1 DEF Says, SessionOK
    <3> QED BY <3>2, <3>3, <3>4
  <2> QED BY <2>1, <2>2, <2>3, <2>4, <2>5, <2>7, <2>8 DEF OnTime, ReplyInTime, RequestInTime
<1> QED BY <1>1, <1>2, <1>3 DEF Device, Answered

-----------------------------------------------------------------------------
(* What is stored                                                          *)

LEMMA TrustSteps ==
  ASSUME IInv, Next
  PROVE  Trust'
<1> SUFFICES ASSUME late' = "no", ~diskFailed', ~forgot'
             PROVE  record' \in trusted' \union {0} \/ (pc' = "unpair" /\ inbox' # <<>>)
    BY DEF Trust
<1>0. StepOK /\ TypeOK /\ QueueOK /\ ControlOK
      BY DEF IInv, ControlOK
<1>1. ASSUME NEW r \in Replies, Reply(r) PROVE record' \in trusted' \union {0}
  <2>1. /\ late = "no" /\ UNCHANGED <<trusted, forgot>>
        BY <1>0, <1>1, ReplyTimely, ReplyStep
  <2>2. \/ r \in Answers /\ inbox # <<>> /\ r.name = Verb[pc] /\ Expected(r)
        \/ inbox = <<>>
        BY <1>1, ReplyTimely
  <2>3. CASE Pair(r)
    <3>1. pc = "pair"
          BY <2>3 DEF Pair, Step
    <3>2. CASE PairResult(r, "Pair") = "SUCCESS"
      <4>1. r \in Answers /\ r.result = "SUCCESS"
        <5>1. r \in Answers \/ r = NoReply
              BY <1>1, ReplyTimely
        <5> QED BY <3>2, <5>1, ResultFacts, Words
      <4>2. fresh \in trusted
        <5>1. r # NoReply
              BY <4>1 DEF NoReply, Answers, Verbs
        <5> QED BY <1>1, <2>1, <3>1, <4>1, <5>1, ReplyTimely DEF Expected
      <4> QED BY <2>1, <2>3, <3>2, <4>2 DEF Pair
    <3>3. CASE PairResult(r, "Pair") # "SUCCESS"
      <4>1. UNCHANGED <<record, diskFailed>>
            BY <2>3, <3>3 DEF Pair, diskVars
      <4> QED BY <2>1, <3>1, <4>1 DEF IInv, Trust
    <3> QED BY <3>2, <3>3
  <2>4. CASE Unpair(r)
    <3>1. pc = "unpair" /\ (diskFailed' \/ record' = 0 \/ record' = record)
          /\ (diskFailed' \/ diskFailed' = diskFailed)
          BY <2>4 DEF Unpair, Step, diskVars
    <3>2. CASE inbox = <<>>
          BY <2>1, <3>1, <3>2 DEF IInv, Trust
    <3>3. CASE inbox # <<>>
      <4>1. r \in Answers /\ r.name = "Unpair" /\ r.result = "SUCCESS"
            BY <2>2, <3>1, <3>3, VerbFacts DEF Expected
      <4>2. PairResult(r, "Unpair") = "SUCCESS"
            BY <4>1, ResultFacts, Words
      <4> QED BY <2>4, <4>2 DEF Unpair
    <3> QED BY <3>2, <3>3
  <2>5. CASE ~Pair(r) /\ ~Unpair(r)
    <3>1. UNCHANGED <<record, diskFailed>> /\ pc # "unpair"
          BY <1>1, <2>5 DEF Reply, Query, Version, Class, Key, Wifi, Validate, StartSession, StopSession, StartService,
             Step, diskVars
    <3> QED BY <2>1, <3>1 DEF IInv, Trust
  <2> QED BY <2>3, <2>4, <2>5
<1>2. CASE Silent
  <2>1. UNCHANGED <<record, late, trusted, forgot>> /\ pc # "unpair" /\ (diskFailed => diskFailed')
        BY <1>0, <1>2, SilentStep, StepNames DEF devVars
  <2> QED BY <2>1 DEF IInv, Trust
<1>3. CASE Handshake \/ End \/ EnableSsl
  <2>1. UNCHANGED <<record, diskFailed, trusted, forgot>> /\ late = "no" /\ pc # "unpair"
        BY <1>3 DEF Handshake, End, EnableSsl, diskVars, devVars
  <2> QED BY <2>1 DEF IInv, Trust
<1>4. CASE Send \/ DeviceGarbage \/ DeviceLost \/ DeviceForget
  <2>1. UNCHANGED <<record, diskFailed, late, pc, inbox>> /\ (UNCHANGED <<trusted, forgot>> \/ forgot' = TRUE)
        BY <1>4 DEF Send, DeviceGarbage, DeviceLost, DeviceForget, diskVars, devVars
  <2> QED BY <2>1 DEF IInv, Trust
<1>5. CASE Answered
  <2> DEFINE m == devq[1]
  <2>1. /\ conn = "open" /\ devq # <<>> /\ UNCHANGED <<record, diskFailed, late, forgot, pc>>
        BY <1>0, <1>5, AnswerFacts DEF diskVars
  <2>2. PICK a \in Answers : inbox' = Append(inbox, a) /\ Says(m, a)
        BY <1>0, <1>5, AnswerFacts
  <2>3. inbox' # <<>>
        BY <1>0, <2>2, AppendFacts DEF QueueOK
  <2>4. sent /\ inbox = <<>> /\ m.name = Verb[pc]
        BY <2>1 DEF IInv, OnTime, ReplyInTime, RequestInTime
  <2>5. m.name = "Unpair" => pc = "unpair"
    <3>1. pc \in Exchanges
          BY <1>0, <2>4 DEF StepOK
    <3> QED BY <2>4, <3>1, VerbFacts, StepNames
  <2> HIDE DEF m
  <2>6. m.name # "Unpair" => trusted \subseteq trusted'
        BY <2>2 DEF Says
  <2>7. record \in trusted \union {0}
        BY <2>1, <2>4 DEF IInv, Trust
  <2> QED BY <2>1, <2>3, <2>5, <2>6, <2>7
<1> QED BY <1>1, <1>2, <1>3, <1>4, <1>5 DEF Next, Calls, AppStep, Device, Answered, Silent

LEMMA CacheSteps ==
  ASSUME IInv, Next
  PROVE  CacheRight'
<1> SUFFICES ASSUME late' = "no" PROVE version' \in {"none", devVersion'} /\ class' \in {"none", devClass'}
    BY DEF CacheRight
<1>0. StepOK /\ TypeOK /\ QueueOK /\ ControlOK /\ devClass \in AllClasses
      BY DEF IInv, ControlOK, HandshakeOK
<1>1. ASSUME NEW r \in Replies, Reply(r) PROVE CacheRight'
  <2>1. /\ late = "no" /\ UNCHANGED <<devVersion, devClass>>
        /\ r \in Answers \/ r = NoReply
        /\ r # NoReply => Expected(r)
        BY <1>0, <1>1, ReplyTimely, ReplyStep
  <2>2. CheckResult(r, "GetValue") = "SUCCESS" => r # NoReply /\ r.result = "SUCCESS"
    <3>1. NoReply \notin Answers
          BY DEF NoReply, Answers, Verbs
    <3> QED BY <2>1, <3>1, ResultFacts, Words
  <2>3. CASE Version(r)
    <3>1. pc = "version" /\ class' = class
          BY <2>3 DEF Version, Step
    <3>2. version' = version \/ version' = devVersion
          BY <2>1, <2>2, <2>3, <3>1 DEF Version, Expected
    <3> QED BY <2>1, <3>1, <3>2 DEF IInv, CacheRight
  <2>4. CASE Class(r)
    <3>1. pc = "class" /\ version' = version
          BY <2>4 DEF Class, Step
    <3>2. class' = class \/ class' = devClass
          BY <1>0, <2>1, <2>2, <2>4, <3>1 DEF Class, Expected
    <3> QED BY <2>1, <3>1, <3>2 DEF IInv, CacheRight
  <2>5. CASE ~Version(r) /\ ~Class(r)
    <3>1. UNCHANGED <<version, class>>
          BY <1>1, <2>5 DEF Reply, Query, Key, Wifi, Pair, Validate, StartSession, StopSession, StartService, Unpair, deviceVars
    <3> QED BY <2>1, <3>1 DEF IInv, CacheRight
  <2> QED BY <2>3, <2>4, <2>5
<1>2. CASE Silent
      BY <1>0, <1>2, SilentStep DEF deviceVars, devVars, IInv, CacheRight
<1>3. CASE Handshake \/ End \/ EnableSsl
  <2>1. UNCHANGED <<version, class, devVersion, devClass>> /\ late = "no"
        BY <1>3 DEF Handshake, End, EnableSsl, deviceVars, devVars
  <2> QED BY <2>1 DEF IInv, CacheRight
<1>4. CASE Send \/ DeviceGarbage \/ DeviceLost \/ DeviceForget
  <2>1. UNCHANGED <<version, class, devVersion, devClass, late>>
        BY <1>4 DEF Send, DeviceGarbage, DeviceLost, DeviceForget, deviceVars, devVars
  <2> QED BY <2>1 DEF IInv, CacheRight
<1>5. CASE Answered
  <2>1. UNCHANGED <<version, class, devVersion, devClass, late>>
        BY <1>0, <1>5, AnswerFacts DEF deviceVars
  <2> QED BY <2>1 DEF IInv, CacheRight
<1> QED BY <1>1, <1>2, <1>3, <1>4, <1>5 DEF Next, Calls, AppStep, Device, Answered, Silent, CacheRight

-----------------------------------------------------------------------------
(* The theorems                                                            *)

LEMMA InitIInv == Init => IInv
<1> SUFFICES ASSUME Init PROVE IInv
    OBVIOUS
<1> USE ConstAssumption DEF Init
<1>1. TypeOK
  <2>1. /\ {record, host, fresh} \subseteq 0..ids /\ ids \in 0..MaxPair /\ trusted \subseteq 1..ids
        /\ session \in 0..sessions /\ dsession \in 0..sessions /\ sessions \in Nat
        OBVIOUS
  <2>2. pc \in Steps /\ ret \in Errors
        BY StepNames, Words DEF Quiet
  <2>3. ssl \in BOOLEAN /\ tls \in BOOLEAN /\ sent \in BOOLEAN
        OBVIOUS
  <2> QED BY <2>1, <2>2, <2>3 DEF TypeOK
<1>2. QueueOK
  <2>1. <<>> \in Seq(Requests) /\ <<>> \in Seq(Answers) /\ Len(<<>>) = 0
        OBVIOUS
  <2> QED BY <2>1 DEF QueueOK
<1>3. ControlOK
      BY DEF ControlOK, StepOK, Budget, HandshakeOK, Before, Validating, Pairing
<1>4. TlsOK /\ OnTime /\ Trust /\ CacheRight
      BY DEF TlsOK, OnTime, ReplyInTime, RequestInTime, Trust, CacheRight
<1> QED BY <1>1, <1>2, <1>3, <1>4 DEF IInv

LEMMA StepIInv == IInv /\ [Next]_vars => IInv'
<1>1. ASSUME IInv, Next PROVE IInv'
  <2>0. TypeOK /\ QueueOK /\ ControlOK /\ TlsOK
        BY <1>1 DEF IInv
  <2>1. QueueOK' /\ Trust' /\ CacheRight'
        BY <1>1, <2>0, QueueSteps, TrustSteps, CacheSteps
  <2>2. ASSUME NEW r \in Replies, Reply(r) PROVE IInv'
        BY <1>1, <2>0, <2>1, <2>2, ReplyControl, TlsReply, OnTimeReply DEF IInv
  <2>3. CASE Calls \/ Silent \/ EnableSsl \/ End
    <3>1. TypeOK' /\ ControlOK'
          BY <2>0, <2>3, CallControl, QuietControl DEF Silent, Calls
    <3>2. TlsOK'
          BY <2>0, <2>3, TlsQuiet DEF Silent, Calls
    <3>3. OnTime'
          BY <1>1, <2>3, OnTimeQuiet
    <3> QED BY <2>1, <3>1, <3>2, <3>3 DEF IInv
  <2>4. CASE Send
        BY <1>1, <2>0, <2>1, <2>4, QuietControl, TlsSend, OnTimeQuiet DEF IInv
  <2>5. CASE Device
        BY <1>1, <2>0, <2>1, <2>5, DeviceControl, TlsDevice, OnTimeDevice DEF IInv
  <2> QED BY <1>1, <2>2, <2>3, <2>4, <2>5 DEF Next, AppStep, Silent
<1>2. ASSUME IInv, UNCHANGED vars PROVE IInv'
  <2>0. UNCHANGED <<version, class, session, ssl, tls, conn, sslFailed, pc, sent, ret, call, host, fresh, back, calls, ids,
                  desc, service, record, diskFailed, late, devVersion, devClass, trusted, dsession, dtls, sessions, forgot,
                  devq, inbox>>
        BY <1>2 DEF vars, deviceVars, connVars, callVars, serviceVars, diskVars, devVars
  <2>1. TypeOK' /\ QueueOK' /\ ControlOK'
        BY <1>2, <2>0 DEF IInv, TypeOK, QueueOK, ControlOK, StepOK, Budget, HandshakeOK
  <2>2. Argument' = Argument
        BY <2>0 DEF Argument
  <2>3. TlsOK' /\ OnTime' /\ Trust' /\ CacheRight'
        BY <1>2, <2>0, <2>2 DEF IInv, TlsOK, Stuck, OnTime, ReplyInTime, RequestInTime, Expected, SessionOK, Trust, CacheRight
  <2> QED BY <2>1, <2>3 DEF IInv
<1> QED BY <1>1, <1>2

LEMMA AlwaysIInv == Spec => []IInv
BY InitIInv, StepIInv, PTL DEF Spec

\* Until a reply is late, client and device agree on the session and on TLS between two
\* calls; and ssl_enabled always says whether the connection has an SSL layer.
THEOREM Safety == Spec => []Inv
<1>1. IInv => Inv
  <2> SUFFICES ASSUME IInv PROVE Inv
      OBVIOUS
  <2>1. TypeOK /\ SslAgrees
        BY DEF IInv, ControlOK, HandshakeOK, SslAgrees
  <2>2. pc = "idle" /\ conn = "open" /\ late # "now" => session = dsession /\ (tls = dtls \/ sslFailed)
        BY DEF IInv, OnTime, SessionOK
  <2>3. pc = "idle" /\ conn = "open" /\ call = "handshake" => ret = "SUCCESS" /\ session # 0
        BY DEF IInv, ControlOK, HandshakeOK
  <2> QED BY <2>1, <2>2, <2>3 DEF Inv, SessionAgrees
<1> QED BY <1>1, AlwaysIInv, PTL

\* Until a reply is late, a pair record that is stored is one the device trusts.
THEOREM RecordKept == Spec => []RecordTrusted
<1>1. IInv => RecordTrusted
      BY DEF IInv, Trust, RecordTrusted
<1> QED BY <1>1, AlwaysIInv, PTL

\* Until a reply is late, the version and class that outlive the client are the device's.
THEOREM CacheKept == Spec => []CacheRight
<1>1. IInv => CacheRight
      BY DEF IInv
<1> QED BY <1>1, AlwaysIInv, PTL
=============================================================================
