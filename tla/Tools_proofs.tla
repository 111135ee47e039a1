---------------------------- MODULE Tools_proofs ----------------------------
(***************************************************************************)
(* Proofs about the command line tools of MCTools, for any number of       *)
(* connections, devices, files, blocks, commands, sizes and runs.  Each    *)
(* tool has an inductive invariant of its own; a step of the composition   *)
(* is a step of the tool that which names, and leaves the others alone.    *)
(* The backup tools come last: their invariants say what of a file is on   *)
(* the disk, what is under way to it, and what the device still expects.   *)
(***************************************************************************)
EXTENDS MCTools, SequenceTheorems, FiniteSetTheorems, TLAPS

\* Adding to the end of a queue.
LEMMA AppendFacts ==
  ASSUME NEW S, NEW q \in Seq(S), NEW x \in S
  PROVE  /\ Append(q, x) \in Seq(S) /\ Len(Append(q, x)) = Len(q) + 1
         /\ \A i \in 1..Len(q) : Append(q, x)[i] = q[i]
         /\ Append(q, x)[Len(q) + 1] = x
OBVIOUS

\* The first element and the rest are of the type of the queue.
LEMMA HeadTailFacts ==
  ASSUME NEW S, NEW q \in Seq(S), q # <<>>
  PROVE  /\ Len(q) \in Nat \ {0} /\ Head(q) = q[1] /\ Head(q) \in S
         /\ Tail(q) \in Seq(S) /\ Len(Tail(q)) = Len(q) - 1
         /\ \A i \in 1..Len(Tail(q)) : Tail(q)[i] = q[i + 1]
OBVIOUS

-----------------------------------------------------------------------------
(* idevicedebugserverproxy *)

Ended == {"none", "dead"}

\* The list has the first and the last connection, and main takes them from it only when
\* their handlers have ended; when it frees the device the list is empty.
ProxyInv ==
  /\ Proxy!TypeOK /\ list \in Seq(Handlers)
  /\ main \in {"look", "accept", "waiting"} =>
       IF count = 0 THEN list = <<>> ELSE Len(list) >= 1 /\ list[1] = 1 /\ list[Len(list)] = count
  /\ main = "join" => list # <<>>
  /\ main \in {"free", "done"} => list = <<>>
  /\ freed => main = "done"
  /\ \A h \in Handlers : h \in {1, count} => pc[h] \in Ended \/ \E i \in 1..Len(list) : list[i] = h

LEMMA ProxyStarts == Proxy!Init => ProxyInv
<1> SUFFICES ASSUME Proxy!Init PROVE ProxyInv
  OBVIOUS
<1>1. list \in Seq(Handlers)
  BY <<>> \in Seq(Handlers) DEF Proxy!Init
<1> QED
  BY <1>1 DEF ProxyInv, Proxy!Init, Proxy!TypeOK, Ended

\* A new connection is the last of the list, behind the first one.
LEMMA ProxyAccepts ==
  ASSUME ProxyInv, Proxy!Accepted
  PROVE  ProxyInv'
<1> DEFINE n == count + 1
<1>1. /\ main = "waiting" /\ n \in Handlers /\ count' = n /\ list' = Proxy!Link(n)
      /\ sock' = [sock EXCEPT ![n] = "open"] /\ freed' = freed
      /\ \/ pc' = [pc EXCEPT ![n] = "start"] /\ main' = "look"
         \/ pc' = pc /\ main' = "close"
  BY DEF Proxy!Accepted
<1>2. n # 0 /\ count \in Nat /\ (count = 0 => n = 1)
  BY <1>1, ProxyAssumption DEF ProxyInv, Proxy!TypeOK
<1> HIDE DEF n
<1>0. Proxy!TypeOK'
  BY <1>1 DEF ProxyInv, Proxy!TypeOK
<1>3. CASE count = 0
  <2>1. n = 1 /\ n \in Handlers /\ list' = <<n>>
    BY <1>1, <1>2, <1>3 DEF ProxyInv, Proxy!Link
  <2>2. list' \in Seq(Handlers) /\ Len(list') = 1 /\ list'[1] = 1
    BY ONLY <2>1
  <2> QED
    BY <1>0, <1>1, <1>2, <2>1, <2>2 DEF ProxyInv
<1>4. CASE count # 0
  <2>1. list # <<>> /\ list[1] = 1 /\ 1 \in Handlers
    BY <1>1, <1>4 DEF ProxyInv
  <2>2. list' = <<1, n>>
    BY <1>1, <2>1 DEF Proxy!Link
  <2>3. list' \in Seq(Handlers) /\ Len(list') = 2 /\ list'[1] = 1 /\ list'[2] = n
    BY <1>1, <2>1, <2>2
  <2> QED
    BY <1>0, <1>1, <1>2, <2>3 DEF ProxyInv
<1> QED
  BY <1>3, <1>4

\* Another step of main takes at most the first of the list, which has ended.
LEMMA ProxyMainSteps ==
  ASSUME ProxyInv, Proxy!Main \/ Proxy!Quit
  PROVE  ProxyInv'
<1>1. CASE Proxy!LookAtQuit \/ Proxy!AcceptWaits \/ Proxy!FreeDevice \/ Proxy!Quit
  <2>1. UNCHANGED <<list, count, pc, sock>>
    BY <1>1 DEF Proxy!LookAtQuit, Proxy!AcceptWaits, Proxy!FreeDevice, Proxy!Quit
  <2>2. /\ Proxy!TypeOK' /\ (freed' => main' = "done")
        /\ main' \in {"look", "accept", "waiting"} => main \in {"look", "accept", "waiting"}
        /\ main' = "join" => main = "join"
        /\ main' \in {"free", "done"} => main \in {"free", "done"}
    BY <1>1
    DEF ProxyInv, Proxy!TypeOK, Proxy!LookAtQuit, Proxy!AcceptWaits, Proxy!FreeDevice, Proxy!Quit
  <2> QED
    BY <2>1, <2>2 DEF ProxyInv
<1>2. CASE Proxy!Close
  <2>1. list # <<>> => list[1] \in Handlers
    BY DEF ProxyInv
  <2> QED
    BY <1>2, <2>1 DEF ProxyInv, Proxy!TypeOK, Proxy!Close
<1>3. CASE Proxy!Join
  <2>1. /\ main = "join" /\ main' = "close" /\ list' = Tail(list) /\ pc[list[1]] \in Ended
        /\ UNCHANGED <<count, pc, sock, freed>> /\ list # <<>> /\ list \in Seq(Handlers)
    BY <1>3 DEF Proxy!Join, ProxyInv, Ended
  <2>2. /\ list' \in Seq(Handlers) /\ Len(list) \in Nat \ {0} /\ Len(list') = Len(list) - 1
        /\ \A i \in 1..Len(list') : list'[i] = list[i + 1]
    BY <2>1, HeadTailFacts
  <2>3. ASSUME NEW h \in Handlers, NEW i \in 1..Len(list), list[i] = h
        PROVE  pc[h] \in Ended \/ \E j \in 1..Len(list') : list'[j] = h
    <3>1. CASE i = 1
      BY <2>1, <2>3, <3>1
    <3>2. CASE i # 1
      <4>1. i - 1 \in 1..Len(list') /\ list'[i - 1] = list[(i - 1) + 1] /\ (i - 1) + 1 = i
        BY <2>2, <3>2
      <4> QED
        BY <2>3, <4>1
    <3> QED
      BY <3>1, <3>2
  <2> QED
    BY <2>1, <2>2, <2>3 DEF ProxyInv, Proxy!TypeOK
<1> QED
  BY <1>1, <1>2, <1>3 DEF Proxy!Main

\* A handler that has ended does not begin again.
LEMMA ProxyHandles ==
  ASSUME ProxyInv, NEW h \in Handlers, Proxy!Handler(h)
  PROVE  ProxyInv'
<1>1. /\ pc[h] \notin Ended /\ UNCHANGED <<main, list, count, freed>>
      /\ \E l \in {"head", "dead", "leave", "client", "device"} : pc' = [pc EXCEPT ![h] = l]
      /\ sock' = sock \/ sock' = [sock EXCEPT ![h] = "self"]
  BY DEF Proxy!Handler, Proxy!Start, Proxy!Head0, Proxy!FromClient, Proxy!FromDevice, Proxy!Leave,
         Proxy!Goto, Ended
<1>2. Proxy!TypeOK'
  BY <1>1 DEF ProxyInv, Proxy!TypeOK
<1>3. \A g \in Handlers : pc[g] \in Ended => pc'[g] \in Ended
  BY <1>1 DEF ProxyInv, Proxy!TypeOK
<1> QED
  BY <1>1, <1>2, <1>3 DEF ProxyInv

LEMMA ProxySteps == ProxyInv /\ Proxy!Next => ProxyInv'
BY ProxyAccepts, ProxyMainSteps, ProxyHandles DEF Proxy!Next

LEMMA ProxyEnds == ProxyInv => Proxy!HandlersEnded
<1> SUFFICES ASSUME ProxyInv, freed, NEW h \in Handlers, h \in {1, count}
    PROVE  pc[h] \in {"none", "dead"}
  BY DEF Proxy!HandlersEnded
<1>1. list = <<>>
  BY DEF ProxyInv
<1> QED
  BY <1>1 DEF ProxyInv, Ended

-----------------------------------------------------------------------------
(* idevicesyslog *)

\* The orders of the tools are those of the outer modules.
LEMMA SyslogOrders ==
  ASSUME NEW S
  PROVE  Syslog!Bijection(1..Syslog!Cardinality(S), S) = Bijection(1..Cardinality(S), S)
BY DEF Syslog!Cardinality, Cardinality, Syslog!Bijection, Bijection, Syslog!Injection, Injection,
       Syslog!Surjection, Surjection, Syslog!IsInjective, IsInjective

\* What is reported at the subscription is every device that is plugged in, each once.
LEMMA OrderFacts ==
  ASSUME NEW S, IsFiniteSet(S), NEW q \in Bijection(1..Cardinality(S), S)
  PROVE  /\ q \in Seq(S)
         /\ \A i, j \in 1..Len(q) : i # j => q[i] # q[j]
         /\ \A x \in S : \E i \in 1..Len(q) : q[i] = x
<1>1. Cardinality(S) \in Nat
  BY FS_CardinalityType
<1>2. /\ q \in [1..Cardinality(S) -> S]
      /\ \A a, b \in 1..Cardinality(S) : q[a] = q[b] => a = b
      /\ \A x \in S : \E i \in 1..Cardinality(S) : q[i] = x
  BY DEF Bijection, Injection, Surjection, IsInjective
<1>3. q \in Seq(S) /\ Len(q) = Cardinality(S)
  BY <1>1, <1>2
<1> QED
  BY <1>2, <1>3

\* Without a trigger the message that ends the logging is the last one that is printed.
PrintInv ==
  /\ filters \in [on : BOOLEAN, off : BOOLEAN] /\ triggered \in BOOLEAN /\ off \in BOOLEAN
  /\ printed \subseteq {"line"}
  /\ off => filters.off /\ ~filters.on /\ ~triggered

LEMMA PrintStarts == Syslog!Init => PrintInv
BY DEF PrintInv, Syslog!Init

LEMMA PrintSteps == PrintInv /\ Syslog!Next => PrintInv'
<1> SUFFICES ASSUME PrintInv, Syslog!Next PROVE PrintInv'
  OBVIOUS
<1>1. CASE Syslog!Message
  <2>1. PICK m \in [on : BOOLEAN, off : BOOLEAN, kept : BOOLEAN] :
          LET waits == filters.on /\ ~triggered /\ ~m.on
              over == filters.off /\ ~filters.on /\ ~triggered
              shown == m.kept /\ ~waits /\ ~over
          IN /\ triggered' = IF filters.off /\ triggered /\ m.off /\ m.kept THEN FALSE
                             ELSE triggered \/ (filters.on /\ m.on)
             /\ printed' = IF shown /\ off THEN printed \union {"message"} ELSE printed
             /\ off' = (off \/ (filters.off /\ ~filters.on /\ shown /\ m.off))
    BY <1>1 DEF Syslog!Message, Syslog!Off
  <2>2. filters' = filters
    BY <1>1 DEF Syslog!Message
  <2>3. triggered' \in BOOLEAN /\ off' \in BOOLEAN
    BY <2>1, Zenon DEF PrintInv
  <2>4. m.on \in BOOLEAN /\ m.off \in BOOLEAN /\ m.kept \in BOOLEAN
    OBVIOUS
  <2>5. printed' = printed
    BY <2>1, <2>4 DEF PrintInv
  <2>6. off' => filters.off /\ ~filters.on /\ ~triggered'
    BY <2>1, <2>4 DEF PrintInv
  <2> QED
    BY <2>2, <2>3, <2>5, <2>6 DEF PrintInv
<1>2. CASE Syslog!RawLine
  <2>1. printed' \subseteq printed \union {"line"} /\ UNCHANGED <<filters, triggered, off>>
    BY <1>2 DEF Syslog!RawLine
  <2> QED
    BY <2>1 DEF PrintInv
<1>3. CASE ~Syslog!Message /\ ~Syslog!RawLine
  <2>1. UNCHANGED Syslog!prints
    BY <1>3
    DEF Syslog!Next, Syslog!Plug, Syslog!Quit, Syslog!Main, Syslog!List, Syslog!Subscribe, Syslog!Loop,
        Syslog!Unsubscribe, Syslog!MainStops, Syslog!MainStopped, Syslog!EventThread, Syslog!Added,
        Syslog!Removed, Syslog!Deliver, Syslog!RemovedEnd, Syslog!Open, Syslog!Service,
        Syslog!Passcode, Syslog!PasscodeEntered, Syslog!Client, Syslog!Activity, Syslog!CbRest,
        Syslog!CaptureEnds
  <2> QED
    BY <2>1 DEF PrintInv, Syslog!prints
<1> QED
  BY <1>1, <1>2, <1>3

News == [type : {"add", "remove"}, udid : Udids]

\* The callback runs only while the events are subscribed to, which they are not before main
\* has come to its loop and when it has left it, and main leaves nothing behind.
OwnerInv ==
  /\ Syslog!TypeOK /\ events \in Seq(News)
  /\ subscribed \in BOOLEAN
  /\ ~subscribed => cb = "none" /\ events = <<>>
  /\ main \in {"start", "subscribe"} =>
       ~subscribed /\ ~logger /\ device = None /\ capture = "none"
  /\ main \in {"stop", "join", "done"} => ~subscribed
  /\ main = "done" => ~logger /\ device = None /\ capture = "none"

LEMMA OwnerStarts == Syslog!Init => OwnerInv
<1> SUFFICES ASSUME Syslog!Init PROVE OwnerInv
  OBVIOUS
<1>1. events \in Seq(News) /\ events = <<>>
  BY <<>> \in Seq(News) DEF Syslog!Init
<1>2. Syslog!TypeOK
  BY DEF Syslog!Init, Syslog!TypeOK
<1> QED
  BY <1>1, <1>2 DEF OwnerInv, Syslog!Init

\* What the subscription reports.
LEMMA SyslogReported ==
  ASSUME OwnerInv, NEW order \in Syslog!Bijection(1..Syslog!Cardinality(plugged), plugged)
  PROVE  /\ order \in Seq(plugged)
         /\ \A i, j \in 1..Len(order) : i # j => order[i] # order[j]
         /\ \A x \in plugged : \E i \in 1..Len(order) : order[i] = x
<1>1. IsFiniteSet(plugged)
  BY FS_Subset, SyslogAssumption DEF OwnerInv, Syslog!TypeOK
<1> QED
  BY <1>1, SyslogOrders, OrderFacts

LEMMA OwnerSteps == OwnerInv /\ Syslog!Next => OwnerInv'
<1> SUFFICES ASSUME OwnerInv, Syslog!Next PROVE OwnerInv'
  OBVIOUS
<1>1. CASE Syslog!Plug
  <2>1. PICK u \in Udids :
          /\ plugged' \in {plugged \ {u}, plugged \union {u}}
          /\ events' = events \/ (subscribed /\ \E e \in {Syslog!Plugged(u), Syslog!Unplugged(u)} : events' = Append(events, e))
    BY <1>1 DEF Syslog!Plug
  <2>2. Syslog!Plugged(u) \in News /\ Syslog!Unplugged(u) \in News
    BY DEF News, Syslog!Plugged, Syslog!Unplugged
  <2>3. events' \in Seq(News) /\ (~subscribed => events' = events)
    BY <2>1, <2>2, AppendFacts DEF OwnerInv
  <2>4. UNCHANGED <<main, cb, udid, subscribed, logger, device, capture>>
    BY <1>1 DEF Syslog!Plug
  <2> QED
    BY <2>1, <2>3, <2>4 DEF OwnerInv, Syslog!TypeOK
<1>2. CASE Syslog!Quit \/ Syslog!Message \/ Syslog!RawLine
  <2>1. UNCHANGED <<main, cb, udid, plugged, events, subscribed, logger, device, capture>>
    BY <1>2 DEF Syslog!Quit, Syslog!Message, Syslog!RawLine, Syslog!world
  <2> QED
    BY <2>1 DEF OwnerInv, Syslog!TypeOK
<1>3. CASE Syslog!CaptureEnds
  BY <1>3 DEF OwnerInv, Syslog!TypeOK, Syslog!CaptureEnds, Syslog!world
<1>4. CASE Syslog!Subscribe
  <2>1. UNCHANGED <<cb, udid, plugged, logger, device, capture>> /\ main = "subscribe" /\ main' = "loop"
    BY <1>4 DEF Syslog!Subscribe
  <2>2. CASE UNCHANGED <<subscribed, events>>
    BY <2>1, <2>2 DEF OwnerInv, Syslog!TypeOK
  <2>3. ASSUME NEW order \in Syslog!Bijection(1..Syslog!Cardinality(plugged), plugged),
               events' = [i \in DOMAIN order |-> Syslog!Plugged(order[i])], subscribed' = TRUE
        PROVE  OwnerInv'
    <3>1. order \in Seq(plugged)
      BY SyslogReported
    <3>2. \A i \in DOMAIN order : Syslog!Plugged(order[i]) \in News
      BY <3>1 DEF Syslog!Plugged, News, OwnerInv, Syslog!TypeOK
    <3>3. events' \in Seq(News)
      BY <2>3, <3>1, <3>2
    <3> QED
      BY <2>1, <2>3, <3>3 DEF OwnerInv, Syslog!TypeOK
  <2> QED
    BY <1>4, <2>2, <2>3 DEF Syslog!Subscribe
<1>5. CASE Syslog!Main /\ ~Syslog!Subscribe
  <2>1. CASE Syslog!Unsubscribe
    BY <2>1, <<>> \in Seq(News) DEF OwnerInv, Syslog!TypeOK, Syslog!Unsubscribe
  <2> QED
    BY <1>5, <2>1
    DEF OwnerInv, Syslog!TypeOK, Syslog!Main, Syslog!List, Syslog!Loop, Syslog!MainStops,
        Syslog!MainStopped, Syslog!StopCapture, Syslog!Stopped, Syslog!world
<1>6. CASE Syslog!Added \/ Syslog!Removed
  <2>1. /\ cb = "none" /\ subscribed /\ events # <<>> /\ events' = Tail(events)
        /\ UNCHANGED <<main, plugged, subscribed, logger, device>>
        /\ cb' \in {"none", "device", "join"}
        /\ udid' = udid \/ udid' = Head(events).udid
        /\ capture' = capture \/ (capture = "running" /\ capture' = "stopping")
    BY <1>6 DEF Syslog!Added, Syslog!Removed, Syslog!Deliver, Syslog!StopCapture
  <2>2. Head(events) \in News /\ events' \in Seq(News)
    BY <2>1, HeadTailFacts DEF OwnerInv
  <2>3. udid' \in Udids \union {None}
    BY <2>1, <2>2 DEF OwnerInv, Syslog!TypeOK, News
  <2> QED
    BY <2>1, <2>2, <2>3 DEF OwnerInv, Syslog!TypeOK
<1>7. CASE Syslog!RemovedEnd \/ Syslog!Open \/ Syslog!Service \/ Syslog!Passcode
            \/ Syslog!PasscodeEntered \/ Syslog!Client \/ Syslog!Activity
  <2>1. /\ cb # "none" /\ UNCHANGED <<main, udid, plugged, events, subscribed>>
        /\ cb' \in {"none", "service", "passcode", "client", "activity"}
        /\ device' \in {device, None, udid}
        /\ capture' \in {capture, "none", "running"}
    BY <1>7
    DEF Syslog!RemovedEnd, Syslog!Open, Syslog!Service, Syslog!Passcode, Syslog!PasscodeEntered,
        Syslog!Client, Syslog!Activity, Syslog!Stopped, Syslog!Fail, Syslog!CbRest, Syslog!world
  <2> QED
    BY <2>1 DEF OwnerInv, Syslog!TypeOK
<1> QED
  BY <1>1, <1>2, <1>3, <1>4, <1>5, <1>6, <1>7 DEF Syslog!Next, Syslog!EventThread

\* What the callback has heard of, before each of the events that were not delivered yet: the
\* events lead from the first to the devices that are plugged in.
Leads(h) ==
  /\ h \in Seq(SUBSET Udids) /\ Len(h) = Len(events) + 1 /\ h[Len(h)] = plugged
  /\ \A i \in 1..Len(events) :
       LET u == events[i].udid IN
         IF events[i].type = "add" THEN u \notin h[i] /\ h[i + 1] = h[i] \union {u}
         ELSE u \in h[i] /\ h[i + 1] = h[i] \ {u}

Starting == {"device", "service", "passcode", "client", "activity"}

\* The logger is the one of the device that is logged, as long as the callback has not heard
\* that it is gone; and there is one if it has heard of that device and did not fail.
Sees(heard) ==
  /\ cb \in Starting \ {"activity"} => ~logger
  /\ cb \in {"activity", "join"} => logger
  /\ cb \in Starting \/ (logger /\ cb # "join") => udid \in heard \intersect Syslog!Wanted
  /\ cb \in Starting \ {"device"} \/ (logger /\ cb # "join") => device = udid
  /\ cb = "join" => udid \notin heard
  /\ cb = "none" /\ ~failed /\ udid \in heard \intersect Syslog!Wanted => logger

FollowInv == subscribed => \E h \in Seq(SUBSET Udids) : Leads(h) /\ Sees(h[1])

LEMMA FollowStarts == Syslog!Init => FollowInv
BY DEF FollowInv, Syslog!Init

\* A device comes or goes: the event is the last one that will be heard of.
LEMMA FollowPlug ==
  ASSUME OwnerInv, FollowInv, Syslog!Plug
  PROVE  FollowInv'
<1>1. /\ subscribed' = subscribed
      /\ UNCHANGED <<cb, logger, udid, device, failed, network>>
  BY DEF Syslog!Plug
<1>2. SUFFICES ASSUME subscribed PROVE FollowInv'
  BY <1>1 DEF FollowInv
<1>3. PICK h \in Seq(SUBSET Udids) : Leads(h) /\ Sees(h[1])
  BY <1>2 DEF FollowInv
<1>4. PICK u \in Udids :
        IF u \in plugged
        THEN plugged' = plugged \ {u} /\ events' = Append(events, Syslog!Unplugged(u))
        ELSE plugged' = plugged \union {u} /\ events' = Append(events, Syslog!Plugged(u))
  BY <1>2 DEF Syslog!Plug
<1> DEFINE e == IF u \in plugged THEN Syslog!Unplugged(u) ELSE Syslog!Plugged(u)
<1>0. PICK g : g = Append(h, plugged')
  OBVIOUS
<1>5. events' = Append(events, e) /\ events \in Seq(News) /\ e \in News
  BY <1>4 DEF Syslog!Unplugged, Syslog!Plugged, News, OwnerInv
<1>6. /\ events' \in Seq(News) /\ Len(events') = Len(events) + 1 /\ Len(events) \in Nat
      /\ \A i \in 1..Len(events) : events'[i] = events[i]
      /\ events'[Len(events) + 1] = e
  BY <1>5, AppendFacts
<1>7. plugged' \in SUBSET Udids
  BY <1>4 DEF OwnerInv, Syslog!TypeOK
<1>8. /\ g \in Seq(SUBSET Udids) /\ Len(g) = Len(h) + 1
      /\ \A i \in 1..Len(h) : g[i] = h[i]
      /\ g[Len(h) + 1] = plugged'
  BY <1>0, <1>3, <1>7, AppendFacts
<1>9. Len(h) = Len(events) + 1 /\ h[Len(events) + 1] = plugged /\ g[1] = h[1]
  <2>1. Len(h) = Len(events) + 1 /\ h[Len(h)] = plugged
    BY <1>3 DEF Leads
  <2> QED
    BY <1>6, <1>8, <2>1
<1>10. Leads(g)'
  <2>1. Len(g) = Len(events') + 1 /\ g[Len(g)] = plugged'
    BY <1>6, <1>8, <1>9
  <2>2. ASSUME NEW i \in 1..Len(events')
        PROVE  LET v == events'[i].udid IN
                 IF events'[i].type = "add" THEN v \notin g[i] /\ g[i + 1] = g[i] \union {v}
                 ELSE v \in g[i] /\ g[i + 1] = g[i] \ {v}
    <3>1. CASE i \in 1..Len(events)
      <4>1. events'[i] = events[i] /\ g[i] = h[i] /\ g[i + 1] = h[i + 1]
        BY <1>6, <1>8, <1>9, <3>1
      <4> QED
        BY <1>3, <3>1, <4>1 DEF Leads
    <3>2. CASE i = Len(events) + 1
      <4>1. events'[i] = e /\ g[i] = plugged /\ g[i + 1] = plugged'
        BY <1>6, <1>8, <1>9, <3>2
      <4> QED
        BY <1>4, <4>1 DEF Syslog!Unplugged, Syslog!Plugged
    <3>3. i \in 1..Len(events) \/ i = Len(events) + 1
      <4>1. i \in 1..(Len(events) + 1) /\ Len(events) \in Nat
        BY <1>6
      <4> QED
        BY ONLY <4>1
    <3> QED
      BY <3>1, <3>2, <3>3
  <2> QED
    BY <1>8, <2>1, <2>2 DEF Leads
<1>11. Sees(g[1])'
  BY <1>1, <1>3, <1>9 DEF Sees, Syslog!Wanted
<1> QED
  BY <1>8, <1>10, <1>11 DEF FollowInv

\* The callback hears of the first event.
LEMMA FollowHears ==
  ASSUME OwnerInv, FollowInv, Syslog!Added \/ Syslog!Removed
  PROVE  FollowInv'
<1>1. /\ cb = "none" /\ subscribed /\ subscribed' /\ events # <<>> /\ events' = Tail(events)
      /\ UNCHANGED <<network, plugged, logger, device, failed>>
  BY DEF Syslog!Added, Syslog!Removed, Syslog!Deliver
<1>2. PICK h \in Seq(SUBSET Udids) : Leads(h) /\ Sees(h[1])
  BY <1>1 DEF FollowInv
<1> DEFINE u == Head(events).udid
           g == Tail(h)
<1>3. /\ Len(events) \in Nat \ {0} /\ Head(events) = events[1]
      /\ events' \in Seq(News) /\ Len(events') = Len(events) - 1
      /\ \A i \in 1..Len(events') : events'[i] = events[i + 1]
  BY <1>1, HeadTailFacts DEF OwnerInv
<1>4. Len(h) = Len(events) + 1 /\ h[Len(h)] = plugged /\ h # <<>>
  BY <1>2, <1>3 DEF Leads
<1>5. /\ g \in Seq(SUBSET Udids) /\ Len(g) = Len(h) - 1
      /\ \A i \in 1..Len(g) : g[i] = h[i + 1]
  BY <1>2, <1>4, HeadTailFacts
<1>6. Leads(g)'
  <2>1. Len(g) = Len(events') + 1 /\ g[Len(g)] = plugged'
    BY <1>1, <1>3, <1>4, <1>5
  <2>2. ASSUME NEW i \in 1..Len(events')
        PROVE  LET v == events'[i].udid IN
                 IF events'[i].type = "add" THEN v \notin g[i] /\ g[i + 1] = g[i] \union {v}
                 ELSE v \in g[i] /\ g[i + 1] = g[i] \ {v}
    <3>1. /\ i + 1 \in 1..Len(events) /\ events'[i] = events[i + 1]
          /\ g[i] = h[i + 1] /\ g[i + 1] = h[(i + 1) + 1]
      BY <1>3, <1>4, <1>5
    <3> QED
      BY <1>2, <3>1 DEF Leads
  <2> HIDE DEF g
  <2> QED
    BY <1>5, <2>1, <2>2 DEF Leads
<1>7. g[1] = h[2] /\ 1 \in 1..Len(events)
  BY <1>3, <1>4, <1>5
<1>8. IF Head(events).type = "add" THEN u \notin h[1] /\ g[1] = h[1] \union {u}
      ELSE u \in h[1] /\ g[1] = h[1] \ {u}
  BY <1>2, <1>3, <1>7 DEF Leads
<1>9. h[1] \subseteq Udids /\ None \notin Udids
  BY <1>2, <1>3, <1>4, SyslogAssumption
<1> HIDE DEF g, u
<1>10. Sees(g[1])'
  <2>1. CASE Syslog!Added
    <3>1. /\ Head(events).type = "add"
          /\ udid' = IF ~logger /\ u \in Syslog!Wanted /\ udid = None THEN u ELSE udid
          /\ cb' = IF ~logger /\ u \in Syslog!Wanted /\ udid' = u THEN "device" ELSE "none"
      BY <2>1 DEF Syslog!Added, Syslog!Deliver, u
    <3> QED
      BY <1>1, <1>2, <1>8, <1>9, <3>1 DEF Sees, Starting, Syslog!Wanted
  <2>2. CASE Syslog!Removed
    <3>1. /\ Head(events).type = "remove" /\ udid' = udid
          /\ cb' = IF logger /\ udid = u /\ udid \in Syslog!Wanted THEN "join" ELSE "none"
      BY <2>2 DEF Syslog!Removed, Syslog!Deliver, u
    <3> QED
      BY <1>1, <1>2, <1>8, <3>1 DEF Sees, Starting, Syslog!Wanted
  <2> QED
    BY <2>1, <2>2
<1> QED
  BY <1>5, <1>6, <1>10 DEF FollowInv

\* At the subscription every device is still to be heard of.
LEMMA FollowSubscribes ==
  ASSUME OwnerInv, FollowInv, Syslog!Subscribe
  PROVE  FollowInv'
<1>1. UNCHANGED <<cb, network, udid, plugged, logger, device>> /\ main = "subscribe"
  BY DEF Syslog!Subscribe
<1>2. ~subscribed /\ cb = "none" /\ ~logger
  BY <1>1 DEF OwnerInv
<1>3. SUFFICES ASSUME NEW order \in Syslog!Bijection(1..Syslog!Cardinality(plugged), plugged),
                      events' = [i \in DOMAIN order |-> Syslog!Plugged(order[i])]
               PROVE  FollowInv'
  BY <1>2 DEF Syslog!Subscribe, FollowInv
<1>4. /\ order \in Seq(plugged)
      /\ \A i, j \in 1..Len(order) : i # j => order[i] # order[j]
      /\ \A x \in plugged : \E i \in 1..Len(order) : order[i] = x
  BY SyslogReported
<1> DEFINE n == Len(order)
           h == [k \in 1..(n + 1) |-> {order[j] : j \in 1..(k - 1)}]
<1>5. /\ n \in Nat /\ Len(events') = n
      /\ \A i \in 1..n : events'[i] = Syslog!Plugged(order[i])
  BY <1>3, <1>4
<1> HIDE DEF n
<1>6. h \in Seq(SUBSET Udids) /\ Len(h) = n + 1
  <2>1. \A k \in 1..(n + 1) : {order[j] : j \in 1..(k - 1)} \in SUBSET Udids
    BY <1>4, <1>5 DEF OwnerInv, Syslog!TypeOK, n
  <2>2. h \in [1..(n + 1) -> SUBSET Udids]
    BY <2>1
  <2> HIDE DEF h
  <2> QED
    BY <1>5, <2>2
<1>7. h[n + 1] = plugged
  <2>1. h[n + 1] = {order[j] : j \in 1..((n + 1) - 1)} /\ (n + 1) - 1 = n
    BY <1>5
  <2>2. {order[j] : j \in 1..n} = plugged
    BY <1>4 DEF n
  <2> QED
    BY <2>1, <2>2
<1>8. ASSUME NEW i \in 1..n
      PROVE  /\ events'[i].type = "add" /\ events'[i].udid = order[i]
             /\ order[i] \notin h[i] /\ h[i + 1] = h[i] \union {order[i]}
  <2>1. h[i] = {order[j] : j \in 1..(i - 1)} /\ h[i + 1] = {order[j] : j \in 1..((i + 1) - 1)}
    BY <1>5
  <2>2. (i + 1) - 1 = i /\ 1..i = 1..(i - 1) \union {i} /\ i \notin 1..(i - 1)
    BY <1>5
  <2>3. \A j \in 1..(i - 1) : order[j] # order[i]
    BY <1>4, <1>5, <2>2 DEF n
  <2> HIDE DEF h
  <2> QED
    BY <1>5, <2>1, <2>2, <2>3 DEF Syslog!Plugged
<1>9. h[1] = {}
  BY <1>5
<1> HIDE DEF h
<1>10. Leads(h)'
  BY <1>1, <1>5, <1>6, <1>7, <1>8 DEF Leads
<1>11. Sees(h[1])'
  BY <1>1, <1>2, <1>9 DEF Sees, Starting
<1> QED
  BY <1>6, <1>10, <1>11 DEF FollowInv

LEMMA FollowSteps == OwnerInv /\ FollowInv /\ Syslog!Next => FollowInv'
<1> SUFFICES ASSUME OwnerInv, FollowInv, Syslog!Next PROVE FollowInv'
  OBVIOUS
<1>1. ASSUME UNCHANGED <<network, udid, plugged, events, subscribed>>,
             \A heard : subscribed /\ Sees(heard) => Sees(heard)'
      PROVE  FollowInv'
  BY <1>1 DEF FollowInv, Leads
<1>2. CASE \/ Syslog!Quit \/ Syslog!List \/ Syslog!Loop \/ Syslog!MainStops \/ Syslog!Message
            \/ Syslog!RawLine \/ Syslog!CaptureEnds
  <2>1. UNCHANGED <<network, udid, plugged, events, subscribed, cb, logger, device, failed>>
    BY <1>2
    DEF Syslog!Quit, Syslog!List, Syslog!Loop, Syslog!MainStops, Syslog!Message, Syslog!RawLine,
        Syslog!CaptureEnds, Syslog!world
  <2> QED
    BY <1>1, <2>1 DEF Sees, Syslog!Wanted
<1>3. CASE Syslog!Unsubscribe
  BY <1>3 DEF FollowInv, Syslog!Unsubscribe
<1>4. CASE Syslog!MainStopped
  BY <1>4 DEF FollowInv, OwnerInv, Syslog!MainStopped
<1>5. CASE \/ Syslog!RemovedEnd \/ Syslog!Open \/ Syslog!Service \/ Syslog!Passcode
           \/ Syslog!PasscodeEntered \/ Syslog!Client \/ Syslog!Activity
  <2>1. UNCHANGED <<network, udid, plugged, events, subscribed>>
    BY <1>5
    DEF Syslog!RemovedEnd, Syslog!Open, Syslog!Service, Syslog!Passcode, Syslog!PasscodeEntered,
        Syslog!Client, Syslog!Activity, Syslog!CbRest, Syslog!world
  <2>2. \/ cb = "join" /\ cb' = "none" /\ ~logger'
        \/ cb \in Starting /\ cb' = "none" /\ ~logger' /\ failed'
        \/ cb = "device" /\ cb' = "service" /\ device' = udid /\ UNCHANGED <<logger, failed>>
        \/ cb \in {"service", "passcode"} /\ cb' \in {"passcode", "client"} /\ UNCHANGED <<device, logger, failed>>
        \/ cb = "client" /\ logger' /\ cb' = "activity" /\ UNCHANGED <<device, failed>>
        \/ cb = "activity" /\ cb' = "none" /\ UNCHANGED <<device, logger>>
    BY <1>5
    DEF Syslog!RemovedEnd, Syslog!Stopped, Syslog!Open, Syslog!Service, Syslog!Passcode,
        Syslog!PasscodeEntered, Syslog!Client, Syslog!Activity, Syslog!Fail, Starting
  <2>3. Syslog!Wanted' = Syslog!Wanted
    BY <2>1 DEF Syslog!Wanted
  <2> QED
    BY <1>1, <2>1, <2>2, <2>3 DEF Sees, Starting
<1> QED
  BY <1>2, <1>3, <1>4, <1>5, FollowPlug, FollowHears, FollowSubscribes
  DEF Syslog!Next, Syslog!Main, Syslog!EventThread

\* Once every event was handled the callback has heard of what is plugged in.
LEMMA FollowTrue == OwnerInv /\ FollowInv => Syslog!Follows
<1> SUFFICES ASSUME OwnerInv, FollowInv, subscribed, cb = "none", events = <<>>, ~failed
    PROVE  /\ logger => device = udid /\ udid \in plugged
           /\ udid \in plugged \intersect Syslog!Wanted => logger
  BY DEF Syslog!Follows
<1>1. PICK h \in Seq(SUBSET Udids) : Leads(h) /\ Sees(h[1])
  BY DEF FollowInv
<1>2. h[1] = plugged
  BY <1>1 DEF Leads
<1> QED
  BY <1>1, <1>2 DEF Sees, Starting

\* idevicesyslog as a whole.
SyslogInv == PrintInv /\ OwnerInv /\ FollowInv

LEMMA SyslogSteps == SyslogInv /\ Syslog!Next => SyslogInv'
BY PrintSteps, OwnerSteps, FollowSteps DEF SyslogInv

-----------------------------------------------------------------------------
(* idevicedevmodectl *)

ModeNews == [add : BOOLEAN, udid : ModeUdids]
Devices == ModeUdids \union {None}
Deeds == {"ARM", "ENABLE", "REVEAL", "ON"} \X ModeUdids

ModeTypes ==
  /\ cmd \in Mode!Ops /\ udid \in Devices /\ device \in Devices /\ cb \in Devices
  /\ connected \in BOOLEAN /\ plugged \subseteq ModeUdids /\ res \in 0..2 /\ freed \in Nat
  /\ done \subseteq Deeds /\ events \in Seq(ModeNews)

\* The handle is there from the moment it was made, and is freed at the end unless the client
\* of the service took it along; what is done with it is what cmd asks for.
HandleInv ==
  /\ main \in {"subscribe", "first", "open"} => device = None
  /\ main \in {"name", "get_udid", "status", "arm", "passcode", "drop", "reveal"} =>
       device \in Mode!Wanted \intersect ModeUdids
  /\ main = "confirm" => device \in (Mode!Wanted \intersect ModeUdids) \union {None}
  /\ main \notin {"free", "done"} => freed = 0 /\ ~noclient
  /\ main = "free" => freed = IF noclient THEN 1 ELSE 0
  /\ main = "done" => freed <= 2 /\ (~noclient => freed <= 1 /\ (device # None => freed = 1))
  /\ main = "arm" => cmd \in {"enable", "arm"}
  /\ main = "passcode" => cmd \in {"enable", "arm"} /\ res = 2
  /\ main \in {"drop", "gone", "back", "reopen"} => cmd = "enable"
  /\ main = "confirm" => cmd \in {"enable", "confirm"}
  /\ main = "reveal" => cmd = "reveal"

\* The device that is named is one that is wanted, from the look at its status on.
NameInv ==
  /\ cb # None => cb \in Mode!Wanted /\ ~connected
  /\ connected => udid # None
  /\ main = "name" => udid \in Mode!Wanted \union {None}
  /\ main \in {"status", "arm", "passcode", "drop", "gone", "back", "reopen", "confirm"} =>
       udid \in Mode!Wanted /\ udid # None

\* Between the arming and the confirmation.
Restarting == main \in {"drop", "gone", "back", "reopen"} \/ (main = "confirm" /\ cmd = "enable")

Did(action) == \E u \in Mode!Wanted : <<action, u>> \in done

\* With enable the device was armed before anything is confirmed, and the result says what was done.
DoneInv ==
  /\ Restarting => Did("ARM")
  /\ main \in {"free", "done"} /\ res = 0 =>
       CASE cmd = "enable" -> Did("ON") \/ (Did("ARM") /\ Did("ENABLE"))
         [] cmd = "arm" -> Did("ON") \/ Did("ARM")
         [] cmd = "confirm" -> Did("ENABLE")
         [] OTHER -> Did("REVEAL")

\* Until the armed device goes away it is known to be there, and no event says otherwise.
AwayInv ==
  Restarting /\ ~blind =>
    /\ cb = None /\ Mode!Armed(udid)
    /\ ~away => /\ connected /\ udid \in plugged
                /\ \A i \in 1..Len(events) : events[i].udid = udid => events[i].add
                /\ main \in {"drop", "gone"}
    /\ main = "confirm" => device \in {udid, None}

LEMMA ModeStarts == Mode!Init => ModeTypes /\ HandleInv /\ NameInv /\ DoneInv /\ AwayInv
<1> SUFFICES ASSUME Mode!Init PROVE ModeTypes /\ HandleInv /\ NameInv /\ DoneInv /\ AwayInv
  OBVIOUS
<1>1. events \in Seq(ModeNews)
  BY <<>> \in Seq(ModeNews) DEF Mode!Init
<1>2. ModeTypes
  <2>1. cmd \in Mode!Ops /\ udid \in Devices /\ device \in Devices /\ cb \in Devices
    BY DEF Mode!Init, Devices
  <2>2. connected \in BOOLEAN
    BY DEF Mode!Init
  <2>3. plugged \subseteq ModeUdids /\ done \subseteq Deeds /\ res \in 0..2 /\ freed \in Nat
    BY DEF Mode!Init
  <2> QED
    BY <1>1, <2>1, <2>2, <2>3 DEF ModeTypes
<1> QED
  BY <1>2 DEF Mode!Init, HandleInv, NameInv, DoneInv, AwayInv, Restarting

\* What an action of amfi comes to.
LEMMA AmfiDoes ==
  ASSUME NEW action, Mode!Amfi(action)
  PROVE  /\ res' \in 0..2
         /\ done' = done \/ (device \in plugged /\ done' = done \union {<<action, device>>})
         /\ res' = 0 => device \in plugged /\ <<action, device>> \in done'
         /\ \/ UNCHANGED <<freed, noclient>>
            \/ freed' = freed + 1 /\ noclient' /\ res' = 1 /\ device # None
BY DEF Mode!Amfi

\* The devices come and go, and the callback hears of it.
LEMMA ModeWorld ==
  ASSUME ModeTypes, HandleInv, NameInv, DoneInv, Mode!Plug \/ Mode!EventThread
  PROVE  ModeTypes' /\ HandleInv' /\ NameInv' /\ DoneInv'
<1> USE ModeAssumption
<1>1. UNCHANGED <<main, cmd, network, device, freed, noclient, res, done>> /\ Mode!Wanted' = Mode!Wanted
  BY DEF Mode!Plug, Mode!EventThread, Mode!Added, Mode!AddedNames, Mode!Removed, Mode!Deliver,
         Mode!watch, Mode!handle, Mode!world, Mode!Wanted
<1>2. HandleInv' /\ DoneInv'
  BY <1>1 DEF HandleInv, DoneInv, Did, Restarting
<1>3. CASE Mode!Plug
  <2>1. PICK u \in ModeUdids : /\ plugged' = (plugged \ {u}) \union ({u} \ plugged)
                               /\ events' \in {events, Append(events, Mode!Event(u))}
    BY <1>3 DEF Mode!Plug
  <2>2. Mode!Event(u) \in ModeNews
    BY DEF Mode!Event, ModeNews
  <2>3. events' \in Seq(ModeNews)
    BY <2>1, <2>2, AppendFacts DEF ModeTypes
  <2>4. UNCHANGED <<udid, connected, cb>>
    BY <1>3 DEF Mode!Plug, Mode!watch
  <2> QED
    BY <1>1, <1>2, <2>1, <2>3, <2>4 DEF ModeTypes, NameInv
<1>4. CASE Mode!Added \/ Mode!Removed
  <2>1. cb = None /\ events # <<>> /\ events' = Tail(events) /\ UNCHANGED <<plugged, udid>>
    BY <1>4 DEF Mode!Added, Mode!Removed, Mode!Deliver
  <2>2. Head(events).udid \in ModeUdids /\ events' \in Seq(ModeNews)
    <3>1. Head(events) \in ModeNews /\ events' \in Seq(ModeNews)
      BY <2>1, HeadTailFacts DEF ModeTypes
    <3> QED
      BY <3>1 DEF ModeNews
  <2>3. /\ cb' # None => cb' = Head(events).udid /\ cb' \in Mode!Wanted /\ udid = None
        /\ connected' => connected \/ udid = Head(events).udid
        /\ cb' # None => ~connected'
    BY <1>4, <2>1, <2>2 DEF Mode!Added, Mode!Removed, NameInv
  <2>4. connected' \in BOOLEAN
    BY <1>4, Zenon DEF Mode!Added, Mode!Removed
  <2> QED
    BY <1>1, <1>2, <2>1, <2>2, <2>3, <2>4 DEF ModeTypes, NameInv, Devices
<1>5. CASE Mode!AddedNames
  <2>1. cb # None /\ cb' = None /\ udid' = cb /\ connected' = TRUE /\ UNCHANGED <<plugged, events>>
    BY <1>5 DEF Mode!AddedNames, Mode!world
  <2>2. ModeTypes'
    <3>1. connected' \in BOOLEAN /\ udid' \in Devices /\ cb' \in Devices
      BY <2>1 DEF ModeTypes, Devices
    <3> QED
      BY <1>1, <2>1, <3>1 DEF ModeTypes
  <2>3. NameInv'
    BY <1>1, <2>1 DEF NameInv
  <2> QED
    BY <1>2, <2>2, <2>3
<1> QED
  BY <1>3, <1>4, <1>5 DEF Mode!EventThread

\* What is reported at the subscription.
LEMMA ModeOrders ==
  ASSUME NEW S
  PROVE  Mode!Bijection(1..Mode!Cardinality(S), S) = Bijection(1..Cardinality(S), S)
BY DEF Mode!Cardinality, Cardinality, Mode!Bijection, Bijection, Mode!Injection, Injection,
       Mode!Surjection, Surjection, Mode!IsInjective, IsInjective

LEMMA ModeReported ==
  ASSUME ModeTypes, NEW order \in Mode!Bijection(1..Mode!Cardinality(plugged), plugged)
  PROVE  /\ order \in Seq(plugged)
         /\ \A i, j \in 1..Len(order) : i # j => order[i] # order[j]
         /\ \A x \in plugged : \E i \in 1..Len(order) : order[i] = x
<1>1. IsFiniteSet(plugged)
  BY FS_Subset, ModeAssumption DEF ModeTypes
<1> QED
  BY <1>1, ModeOrders, OrderFacts

LEMMA ModeSubscribes ==
  ASSUME ModeTypes, HandleInv, NameInv, DoneInv, Mode!Subscribe
  PROVE  ModeTypes' /\ HandleInv' /\ NameInv' /\ DoneInv'
<1>1. /\ UNCHANGED <<cmd, network, udid, connected, cb, plugged, device, freed, noclient, res, done>>
      /\ main = "subscribe" /\ main' = "first" /\ Mode!Wanted' = Mode!Wanted
  BY DEF Mode!Subscribe, Mode!Goto, Mode!handle, Mode!Wanted
<1>2. events' \in Seq(ModeNews)
  <2>1. ASSUME NEW order \in Mode!Bijection(1..Mode!Cardinality(plugged), plugged),
               events' = [i \in DOMAIN order |-> [add |-> TRUE, udid |-> order[i]]]
        PROVE  events' \in Seq(ModeNews)
    <3>1. order \in Seq(ModeUdids)
      BY ModeReported DEF ModeTypes
    <3>2. \A i \in DOMAIN order : [add |-> TRUE, udid |-> order[i]] \in ModeNews
      BY <3>1 DEF ModeNews
    <3> QED
      BY <2>1, <3>1, <3>2
  <2> QED
    BY <2>1 DEF Mode!Subscribe, ModeTypes
<1>3. ModeTypes'
  BY <1>1, <1>2 DEF ModeTypes
<1>4. HandleInv' /\ NameInv'
  BY <1>1 DEF HandleInv, NameInv
<1>5. DoneInv'
  BY <1>1 DEF DoneInv, Restarting
<1> QED
  BY <1>3, <1>4, <1>5

\* The steps of main that ask amfi for nothing.
LEMMA ModeWaits ==
  ASSUME ModeTypes, HandleInv, NameInv, DoneInv,
         \/ Mode!First \/ Mode!Open \/ Mode!Name \/ Mode!GetUdid \/ Mode!Drop \/ Mode!Gone \/ Mode!Back
         \/ Mode!Reopen \/ Mode!Free
  PROVE  ModeTypes' /\ HandleInv' /\ NameInv' /\ DoneInv'
<1> USE ModeAssumption
<1>1. /\ UNCHANGED <<cmd, network, plugged, events, connected, cb, noclient, done>>
      /\ Mode!Wanted' = Mode!Wanted
      /\ udid' = udid \/ (udid' = device /\ main = "get_udid")
      /\ device' = device \/ device' = None \/ (device' = udid /\ main = "reopen")
         \/ (device' \in plugged \intersect Mode!Wanted /\ main = "open")
      /\ res' \in {res, 1, 2} /\ freed' \in {freed, 0, freed + 1}
  BY DEF Mode!First, Mode!Open, Mode!Name, Mode!GetUdid, Mode!Drop, Mode!Gone, Mode!Back, Mode!Reopen,
         Mode!Free, Mode!Before, Mode!Waits, Mode!watch, Mode!world, Mode!Wanted
<1>2. ModeTypes'
  BY <1>1 DEF ModeTypes, Devices
<1>3. HandleInv'
  <2>1. CASE Mode!First \/ Mode!Open \/ Mode!Name \/ Mode!GetUdid
    BY <1>1, <2>1
    DEF ModeTypes, HandleInv, Mode!First, Mode!Open, Mode!Name, Mode!GetUdid, Mode!Goto, Mode!Before
  <2>2. CASE Mode!Drop \/ Mode!Gone \/ Mode!Back
    BY <1>1, <2>2 DEF HandleInv, Mode!Drop, Mode!Gone, Mode!Back, Mode!Goto
  <2>3. CASE Mode!Reopen \/ Mode!Free
    BY <1>1, <2>3 DEF ModeTypes, Devices, HandleInv, NameInv, Mode!Reopen, Mode!Free, Mode!Goto
  <2> QED
    BY <2>1, <2>2, <2>3
<1>4. NameInv'
  BY <1>1
  DEF ModeTypes, HandleInv, NameInv, Mode!First, Mode!Open, Mode!Name, Mode!GetUdid, Mode!Drop,
      Mode!Gone, Mode!Back, Mode!Reopen, Mode!Free, Mode!Goto
<1>5. DoneInv'
  <2>1. \A action : Did(action)' <=> Did(action)
    BY <1>1 DEF Did
  <2>2. /\ Restarting' => Restarting
        /\ main' \in {"free", "done"} /\ res' = 0 => main \in {"free", "done"} /\ res = 0
    BY <1>1
    DEF HandleInv, Restarting, Mode!First, Mode!Open, Mode!Name, Mode!GetUdid, Mode!Drop, Mode!Gone,
        Mode!Back, Mode!Reopen, Mode!Free, Mode!Goto
  <2> QED
    BY <1>1, <2>1, <2>2 DEF DoneInv
<1> QED
  BY <1>2, <1>3, <1>4, <1>5

LEMMA ModeActs ==
  ASSUME ModeTypes, HandleInv, NameInv, DoneInv,
         Mode!Status \/ Mode!Arm \/ Mode!Passcode \/ Mode!Confirm \/ Mode!Reveal
  PROVE  ModeTypes' /\ HandleInv' /\ NameInv' /\ DoneInv'
<1> USE ModeAssumption
<1>1. UNCHANGED <<cmd, network, plugged, events, udid, connected, cb, device>> /\ Mode!Wanted' = Mode!Wanted
  BY DEF Mode!Status, Mode!Arm, Mode!Passcode, Mode!Confirm, Mode!Reveal, Mode!Acts, Mode!watch,
         Mode!world, Mode!Wanted
<1>2. \/ /\ main = "status" /\ main' = "done" /\ freed' = freed + 1 /\ noclient' = noclient
         /\ \/ /\ done' = done \union {<<"ON", device>>} /\ device \in plugged /\ cmd \in {"enable", "arm"}
               /\ res' = res
            \/ done' = done /\ res' = 1
      \/ /\ main = "status" /\ UNCHANGED <<res, freed, noclient, done>>
         /\ main' = IF cmd \in {"enable", "arm"} THEN "arm" ELSE IF cmd = "confirm" THEN "confirm" ELSE "reveal"
      \/ /\ main = "arm" /\ Mode!Amfi("ARM")
         /\ main' = IF res' = 2 THEN "passcode" ELSE IF res' = 0 /\ cmd = "enable" THEN "drop" ELSE "free"
      \/ /\ main = "passcode" /\ main' = "free" /\ res' = res
         /\ done' = done \/ (device \in plugged /\ done' = done \union {<<"REVEAL", device>>})
         /\ UNCHANGED <<freed, noclient>> \/ (device # None /\ freed' = freed + 1 /\ noclient')
      \/ main = "confirm" /\ main' = "free" /\ Mode!Amfi("ENABLE")
      \/ main = "reveal" /\ main' = "free" /\ Mode!Amfi("REVEAL")
  BY DEF Mode!Status, Mode!Arm, Mode!Passcode, Mode!Confirm, Mode!Reveal, Mode!Goto
<1>3. /\ res' \in 0..2 /\ freed' \in {freed, freed + 1}
      /\ done' = done \/ (device \in plugged /\ \E a \in {"ARM", "ENABLE", "REVEAL", "ON"} :
                                                 done' = done \union {<<a, device>>})
  <2>1. ASSUME NEW a \in {"ARM", "ENABLE", "REVEAL"}, Mode!Amfi(a)
        PROVE  /\ res' \in 0..2 /\ freed' \in {freed, freed + 1}
               /\ done' = done \/ (device \in plugged /\ done' = done \union {<<a, device>>})
    BY <2>1, AmfiDoes
  <2>2. res \in 0..2
    BY DEF ModeTypes
  <2> QED
    BY <1>2, <2>1, <2>2
<1>4. ModeTypes'
  <2>1. done' \subseteq Deeds
    <3>1. \A a \in {"ARM", "ENABLE", "REVEAL", "ON"} : device \in plugged => <<a, device>> \in Deeds
      BY DEF ModeTypes, Deeds
    <3> QED
      BY <1>3, <3>1 DEF ModeTypes
  <2> QED
    BY <1>1, <1>3, <2>1 DEF ModeTypes
<1>5. HandleInv'
  <2>1. ASSUME NEW a, Mode!Amfi(a)
        PROVE  \/ UNCHANGED <<freed, noclient>>
               \/ freed' = freed + 1 /\ noclient' /\ res' = 1
    BY <2>1, AmfiDoes
  <2>2. /\ main = "status" => main' \in {"done", "arm", "confirm", "reveal"}
        /\ main = "arm" => main' \in {"passcode", "drop", "free"}
    BY <1>2
  <2>3. freed \in Nat /\ cmd \in Mode!Ops
    BY DEF ModeTypes
  <2> QED
    BY <1>1, <1>2, <2>1, <2>2, <2>3 DEF HandleInv, Mode!Ops
<1>6. NameInv'
  BY <1>1, <1>2 DEF NameInv, HandleInv
<1>7. DoneInv'
  <2>1. \A action : Did(action) => Did(action)'
    BY <1>1, <1>3 DEF Did
  <2>2. /\ main = "arm" /\ res' = 0 => Did("ARM")'
        /\ main = "confirm" /\ res' = 0 => Did("ENABLE")'
        /\ main = "reveal" /\ res' = 0 => Did("REVEAL")'
        /\ main = "status" /\ main' = "done" /\ res' = 0 => Did("ON")' /\ cmd \in {"enable", "arm"}
    <3>1. /\ main = "arm" /\ res' = 0 => <<"ARM", device>> \in done'
          /\ main = "confirm" /\ res' = 0 => <<"ENABLE", device>> \in done' /\ device \in plugged
          /\ main = "reveal" /\ res' = 0 => <<"REVEAL", device>> \in done'
          /\ main = "status" /\ main' = "done" /\ res' = 0 =>
               <<"ON", device>> \in done' /\ cmd \in {"enable", "arm"}
      BY <1>2, AmfiDoes
    <3>2. main \in {"arm", "reveal", "status"} \/ (main = "confirm" /\ device \in plugged) =>
            device \in Mode!Wanted
      BY DEF HandleInv, ModeTypes
    <3> QED
      BY <1>1, <3>1, <3>2 DEF Did
  <2>3. Restarting' => main = "arm" /\ res' = 0
    BY <1>1, <1>2 DEF Restarting
  <2>4. main = "passcode" => res' = 2
    BY <1>2 DEF HandleInv
  <2>5. main = "confirm" => cmd = "confirm" \/ (cmd = "enable" /\ Did("ARM"))
    BY DEF HandleInv, DoneInv, Restarting
  <2>6. main = "arm" => cmd \in {"enable", "arm"} /\ (main' = "free" /\ res' = 0 => cmd = "arm")
    BY <1>2 DEF HandleInv
  <2>7. main = "reveal" => cmd = "reveal"
    BY DEF HandleInv
  <2> HIDE DEF HandleInv
  <2>8. /\ main' \in {"free", "done"} => main \in {"status", "arm", "passcode", "confirm", "reveal"}
        /\ main = "status" /\ main' \in {"free", "done"} => main' = "done"
        /\ main = "arm" /\ main' \in {"free", "done"} => main' = "free"
    BY <1>2
  <2> QED
    BY <1>1, <2>1, <2>2, <2>3, <2>4, <2>5, <2>6, <2>7, <2>8 DEF DoneInv
<1> QED
  BY <1>4, <1>5, <1>6, <1>7

\* A device that comes or goes while another is awaited.
LEMMA AwayPlug ==
  ASSUME ModeTypes, NameInv, AwayInv, Mode!Plug
  PROVE  AwayInv'
<1>1. UNCHANGED <<main, cmd, network, udid, connected, cb, device, blind, done>>
  BY DEF Mode!Plug, Mode!watch, Mode!handle
<1>2. PICK u \in ModeUdids :
        /\ plugged' = (plugged \ {u}) \union ({u} \ plugged)
        /\ events' = events \/ events' = Append(events, Mode!Event(u))
        /\ away' = (away \/ (u \in plugged /\ Mode!Armed(u)))
  BY DEF Mode!Plug
<1>3. SUFFICES ASSUME Restarting, ~blind, ~away'
               PROVE  /\ udid \in plugged'
                      /\ \A i \in 1..Len(events') : events'[i].udid = udid => events'[i].add
  <2>1. Restarting' = Restarting /\ (away => away')
    BY <1>1, <1>2 DEF Restarting
  <2>2. \A v : Mode!Armed(v)' <=> Mode!Armed(v)
    BY <1>1 DEF Mode!Armed
  <2> QED
    BY <1>1, <2>1, <2>2 DEF AwayInv
<1>4. Mode!Armed(udid) /\ ~away /\ udid \in plugged
      /\ \A i \in 1..Len(events) : events[i].udid = udid => events[i].add
  BY <1>2, <1>3 DEF AwayInv
<1>5. u # udid
  BY <1>2, <1>3, <1>4
<1>6. CASE events' = Append(events, Mode!Event(u))
  <2>1. Mode!Event(u) \in ModeNews /\ Mode!Event(u).udid # udid
    BY <1>5 DEF Mode!Event, ModeNews
  <2>2. /\ Len(events') = Len(events) + 1 /\ Len(events) \in Nat
        /\ \A i \in 1..Len(events) : events'[i] = events[i]
        /\ events'[Len(events) + 1] = Mode!Event(u)
    BY <1>6, <2>1, AppendFacts DEF ModeTypes
  <2> QED
    BY <1>2, <1>4, <1>5, <2>1, <2>2
<1> QED
  BY <1>2, <1>4, <1>5, <1>6

\* The callback hears of the events in front.
LEMMA AwayHears ==
  ASSUME ModeTypes, NameInv, AwayInv, Mode!EventThread
  PROVE  AwayInv'
<1>1. UNCHANGED <<main, cmd, plugged, device, blind, done, away>>
  BY DEF Mode!EventThread, Mode!Added, Mode!Removed, Mode!AddedNames, Mode!Deliver, Mode!handle,
         Mode!world
<1>2. SUFFICES ASSUME Restarting, ~blind
               PROVE  /\ UNCHANGED udid /\ cb' = None
                      /\ ~away => /\ connected'
                                  /\ \A i \in 1..Len(events') : events'[i].udid = udid => events'[i].add
  BY <1>1 DEF AwayInv, Restarting, Mode!Armed
<1>3. /\ cb = None /\ udid # None
      /\ ~away => /\ connected
                  /\ \A i \in 1..Len(events) : events[i].udid = udid => events[i].add
  BY <1>2 DEF AwayInv, NameInv, Restarting
<1>4. CASE Mode!Added \/ Mode!Removed
  <2>1. /\ events # <<>> /\ events' = Tail(events) /\ udid' = udid
    BY <1>4 DEF Mode!Added, Mode!Removed, Mode!Deliver
  <2>2. /\ Len(events) \in Nat \ {0} /\ Head(events) = events[1]
        /\ Len(events') = Len(events) - 1 /\ \A i \in 1..Len(events') : events'[i] = events[i + 1]
    BY <2>1, HeadTailFacts DEF ModeTypes
  <2>3. cb' = None
    BY <1>3, <1>4 DEF Mode!Added, Mode!Removed
  <2>4. ~away => connected'
    <3>1. ~away /\ Mode!Removed => Head(events).udid # udid
      BY <1>3, <2>2 DEF Mode!Removed, Mode!Deliver
    <3> QED
      BY <1>3, <1>4, <3>1 DEF Mode!Added, Mode!Removed
  <2>5. \A i \in 1..Len(events') : i + 1 \in 1..Len(events)
    BY <2>2
  <2> QED
    BY <1>3, <2>1, <2>2, <2>3, <2>4, <2>5
<1>5. ~Mode!AddedNames
  BY <1>3 DEF Mode!AddedNames
<1> QED
  BY <1>4, <1>5 DEF Mode!EventThread

\* The arming begins the wait, with the events heard of unless it is blind.
LEMMA AwayMain ==
  ASSUME ModeTypes, HandleInv, NameInv, AwayInv, Mode!Main
  PROVE  AwayInv'
<1>1. UNCHANGED <<cmd, network, plugged, cb, connected, away>>
  BY DEF Mode!Main, Mode!Subscribe, Mode!First, Mode!Open, Mode!Name, Mode!GetUdid, Mode!Status,
         Mode!Arm, Mode!Passcode, Mode!Confirm, Mode!Reveal, Mode!Drop, Mode!Gone, Mode!Back,
         Mode!Reopen, Mode!Free, Mode!Before, Mode!Acts, Mode!Waits, Mode!world, Mode!watch
<1>2. CASE Mode!Arm
  <2>1. /\ main = "arm" /\ Mode!Amfi("ARM") /\ UNCHANGED <<udid, events, device>>
        /\ blind' = (~connected \/ events # <<>> \/ udid # device)
        /\ main' = IF res' = 2 THEN "passcode" ELSE IF res' = 0 /\ cmd = "enable" THEN "drop" ELSE "free"
    BY <1>2 DEF Mode!Arm, Mode!Goto, Mode!Acts, Mode!watch, Mode!world
  <2>2. SUFFICES ASSUME main' = "drop", ~blind' PROVE AwayInv'
    BY <2>1 DEF AwayInv, Restarting
  <2>3. connected /\ events = <<>> /\ udid = device /\ res' = 0
    BY <2>1, <2>2
  <2>4. device \in plugged /\ <<"ARM", device>> \in done'
    BY <2>1, <2>3, AmfiDoes
  <2>5. cb = None
    BY <2>3 DEF NameInv
  <2>6. Len(events') = 0
    BY <2>1, <2>3
  <2> QED
    BY <1>1, <2>1, <2>2, <2>3, <2>4, <2>5, <2>6 DEF AwayInv, Mode!Armed
<1>3. CASE Mode!Drop \/ Mode!Gone \/ Mode!Back \/ Mode!Reopen
  <2>1. /\ UNCHANGED <<udid, events, blind, done>> /\ Restarting
        /\ main' = "back" => main = "gone" /\ ~connected
        /\ main' = "reopen" => main = "back"
        /\ main' = "confirm" => main = "reopen" /\ device' \in {udid, None}
        /\ main' # "drop" /\ (main' = "gone" => main = "drop")
    BY <1>3
    DEF Mode!Drop, Mode!Gone, Mode!Back, Mode!Reopen, Mode!Goto, Mode!Waits, Mode!watch, Mode!world,
        Restarting
  <2>2. main \in {"back", "reopen"} /\ ~blind => away
    BY DEF AwayInv, Restarting
  <2>3. main = "gone" /\ ~connected /\ ~blind => away
    BY DEF AwayInv, Restarting
  <2>4. main' \in {"gone", "back", "reopen", "confirm", "free"}
    BY <1>3 DEF Mode!Drop, Mode!Gone, Mode!Back, Mode!Reopen, Mode!Goto
  <2>5. Mode!Armed(udid)' <=> Mode!Armed(udid)
    BY <2>1 DEF Mode!Armed
  <2>6. ASSUME ~blind
        PROVE  /\ cb' = None /\ Mode!Armed(udid)'
               /\ ~away' => connected' /\ udid' \in plugged'
               /\ ~away' => main' \in {"drop", "gone"} \/ main' = "free"
               /\ ~away' => \A i \in 1..Len(events') : events'[i].udid = udid' => events'[i].add
    BY <1>1, <2>1, <2>2, <2>3, <2>4, <2>5, <2>6 DEF AwayInv
  <2> QED
    BY <2>1, <2>6 DEF AwayInv, Restarting
<1>4. CASE ~(Mode!Arm \/ Mode!Drop \/ Mode!Gone \/ Mode!Back \/ Mode!Reopen)
  <2>1. ~Restarting'
    BY <1>1, <1>4
    DEF Mode!Main, Mode!Subscribe, Mode!First, Mode!Open, Mode!Name, Mode!GetUdid, Mode!Status,
        Mode!Passcode, Mode!Confirm, Mode!Reveal, Mode!Free, Mode!Goto, Restarting
  <2> QED
    BY <2>1 DEF AwayInv
<1> QED
  BY <1>2, <1>3, <1>4

\* What the callback has heard of: a device that it knows has given its name, if none was named.
ModeLeads(h) ==
  /\ h \in Seq(SUBSET ModeUdids) /\ Len(h) = Len(events) + 1 /\ h[Len(h)] = plugged
  /\ \A i \in 1..Len(events) :
       LET u == events[i].udid IN
         IF events[i].add THEN u \notin h[i] /\ h[i + 1] = h[i] \union {u}
         ELSE u \in h[i] /\ h[i + 1] = h[i] \ {u}

Named(heard) == cb = None /\ udid = None => heard \intersect Mode!Wanted = {}

HeardInv ==
  /\ subscribed \in BOOLEAN /\ (main = "subscribe" => ~subscribed /\ cb = None)
  /\ IF subscribed THEN \E h \in Seq(SUBSET ModeUdids) : ModeLeads(h) /\ Named(h[1])
     ELSE events = <<>>

LEMMA HeardStarts == Mode!Init => HeardInv
BY Zenon DEF Mode!Init, HeardInv

LEMMA HeardPlug ==
  ASSUME ModeTypes, HeardInv, Mode!Plug
  PROVE  HeardInv'
<1>1. UNCHANGED <<main, cb, udid, network, subscribed>> /\ Mode!Wanted' = Mode!Wanted
  BY DEF Mode!Plug, Mode!watch, Mode!Wanted
<1>2. PICK u \in ModeUdids : /\ plugged' = (plugged \ {u}) \union ({u} \ plugged)
                             /\ events' = IF subscribed THEN Append(events, Mode!Event(u)) ELSE events
  BY DEF Mode!Plug
<1>3. SUFFICES ASSUME subscribed
               PROVE  \E g \in Seq(SUBSET ModeUdids) : ModeLeads(g)' /\ Named(g[1])'
  BY <1>1, <1>2 DEF HeardInv
<1>4. PICK h \in Seq(SUBSET ModeUdids) : ModeLeads(h) /\ Named(h[1])
  BY <1>3 DEF HeardInv
<1> DEFINE e == Mode!Event(u)
<1>5. PICK g : g = Append(h, plugged')
  OBVIOUS
<1>6. events' = Append(events, e) /\ events \in Seq(ModeNews) /\ e \in ModeNews
  BY <1>2, <1>3 DEF Mode!Event, ModeNews, ModeTypes
<1>7. /\ Len(events') = Len(events) + 1 /\ Len(events) \in Nat
      /\ \A i \in 1..Len(events) : events'[i] = events[i]
      /\ events'[Len(events) + 1] = e
  BY <1>6, AppendFacts
<1>8. plugged' \in SUBSET ModeUdids
  BY <1>2 DEF ModeTypes
<1>9. /\ g \in Seq(SUBSET ModeUdids) /\ Len(g) = Len(h) + 1
      /\ \A i \in 1..Len(h) : g[i] = h[i]
      /\ g[Len(h) + 1] = plugged'
  BY <1>5, <1>8, AppendFacts
<1>10. Len(h) = Len(events) + 1 /\ h[Len(events) + 1] = plugged /\ g[1] = h[1]
  <2>1. Len(h) = Len(events) + 1 /\ h[Len(h)] = plugged
    BY <1>4 DEF ModeLeads
  <2> QED
    BY <1>7, <1>9, <2>1
<1>11. /\ e.udid = u
       /\ IF e.add THEN u \notin plugged /\ plugged' = plugged \union {u}
          ELSE u \in plugged /\ plugged' = plugged \ {u}
  BY <1>2 DEF Mode!Event
<1>12. ModeLeads(g)'
  <2>1. Len(g) = Len(events') + 1 /\ g[Len(g)] = plugged'
    BY <1>7, <1>9, <1>10
  <2>2. ASSUME NEW i \in 1..Len(events')
        PROVE  LET v == events'[i].udid IN
                 IF events'[i].add THEN v \notin g[i] /\ g[i + 1] = g[i] \union {v}
                 ELSE v \in g[i] /\ g[i + 1] = g[i] \ {v}
    <3>1. CASE i \in 1..Len(events)
      <4>1. events'[i] = events[i] /\ g[i] = h[i] /\ g[i + 1] = h[i + 1]
        BY <1>7, <1>9, <1>10, <3>1
      <4> QED
        BY <1>4, <3>1, <4>1 DEF ModeLeads
    <3>2. CASE i = Len(events) + 1
      <4>1. events'[i] = e /\ g[i] = plugged /\ g[i + 1] = plugged'
        BY <1>7, <1>9, <1>10, <3>2
      <4> QED
        BY <1>11, <4>1
    <3>3. i \in 1..Len(events) \/ i = Len(events) + 1
      <4>1. i \in 1..(Len(events) + 1) /\ Len(events) \in Nat
        BY <1>7
      <4> QED
        BY ONLY <4>1
    <3> QED
      BY <3>1, <3>2, <3>3
  <2> QED
    BY <1>9, <2>1, <2>2 DEF ModeLeads
<1>13. Named(g[1])'
  BY <1>1, <1>4, <1>10 DEF Named
<1> QED
  BY <1>9, <1>12, <1>13

LEMMA HeardHears ==
  ASSUME ModeTypes, HeardInv, Mode!Added \/ Mode!Removed
  PROVE  HeardInv'
<1>1. /\ cb = None /\ events # <<>> /\ events' = Tail(events)
      /\ UNCHANGED <<main, network, plugged, udid, subscribed>> /\ Mode!Wanted' = Mode!Wanted
  BY DEF Mode!Added, Mode!Removed, Mode!Deliver, Mode!Wanted
<1>2. subscribed /\ main # "subscribe"
  BY <1>1 DEF HeardInv
<1>3. PICK h \in Seq(SUBSET ModeUdids) : ModeLeads(h) /\ Named(h[1])
  BY <1>2 DEF HeardInv
<1> DEFINE u == Head(events).udid
           g == Tail(h)
<1>4. /\ Len(events) \in Nat \ {0} /\ Head(events) = events[1]
      /\ Len(events') = Len(events) - 1
      /\ \A i \in 1..Len(events') : events'[i] = events[i + 1]
  BY <1>1, HeadTailFacts DEF ModeTypes
<1>5. Len(h) = Len(events) + 1 /\ h[Len(h)] = plugged /\ h # <<>>
  BY <1>3, <1>4 DEF ModeLeads
<1>6. /\ g \in Seq(SUBSET ModeUdids) /\ Len(g) = Len(h) - 1
      /\ \A i \in 1..Len(g) : g[i] = h[i + 1]
  BY <1>3, <1>5, HeadTailFacts
<1>7. ModeLeads(g)'
  <2>1. Len(g) = Len(events') + 1 /\ g[Len(g)] = plugged'
    BY <1>1, <1>4, <1>5, <1>6
  <2>2. ASSUME NEW i \in 1..Len(events')
        PROVE  LET v == events'[i].udid IN
                 IF events'[i].add THEN v \notin g[i] /\ g[i + 1] = g[i] \union {v}
                 ELSE v \in g[i] /\ g[i + 1] = g[i] \ {v}
    <3>1. /\ i + 1 \in 1..Len(events) /\ events'[i] = events[i + 1]
          /\ g[i] = h[i + 1] /\ g[i + 1] = h[(i + 1) + 1]
      BY <1>4, <1>5, <1>6
    <3> QED
      BY <1>3, <3>1 DEF ModeLeads
  <2> HIDE DEF g
  <2> QED
    BY <1>6, <2>1, <2>2 DEF ModeLeads
<1>8. g[1] = h[2] /\ 1 \in 1..Len(events)
  BY <1>4, <1>5, <1>6
<1>9. IF Head(events).add THEN g[1] = h[1] \union {u} ELSE g[1] = h[1] \ {u}
  BY <1>3, <1>4, <1>8 DEF ModeLeads
<1>10. u # None
  <2>1. Head(events) \in ModeNews
    BY <1>1, HeadTailFacts DEF ModeTypes
  <2> QED
    BY <2>1, ModeAssumption DEF ModeNews
<1> HIDE DEF g, u
<1>11. Named(g[1])'
  <2>1. CASE Mode!Added
    <3>1. Head(events).add /\ cb' = IF u \in Mode!Wanted /\ udid = None THEN u ELSE None
      BY <2>1 DEF Mode!Added, Mode!Deliver, u
    <3> QED
      BY <1>1, <1>3, <1>9, <1>10, <3>1 DEF Named
  <2>2. CASE Mode!Removed
    <3>1. ~Head(events).add /\ cb' = cb
      BY <2>2 DEF Mode!Removed, Mode!Deliver
    <3> QED
      BY <1>1, <1>3, <1>9, <3>1 DEF Named
  <2> QED
    BY <2>1, <2>2
<1> QED
  BY <1>1, <1>2, <1>6, <1>7, <1>11 DEF HeardInv

LEMMA HeardSubscribes ==
  ASSUME ModeTypes, HeardInv, Mode!Subscribe
  PROVE  HeardInv'
<1>1. /\ UNCHANGED <<cb, network, udid, plugged>> /\ main = "subscribe" /\ main' = "first"
      /\ ~subscribed /\ cb = None /\ events = <<>>
  BY DEF Mode!Subscribe, Mode!Goto, HeardInv
<1>2. SUFFICES ASSUME NEW order \in Mode!Bijection(1..Mode!Cardinality(plugged), plugged), subscribed',
                      events' = [i \in DOMAIN order |-> [add |-> TRUE, udid |-> order[i]]]
               PROVE  HeardInv'
  <2>1. CASE UNCHANGED <<subscribed, events>>
    BY <1>1, <2>1 DEF HeardInv
  <2> QED
    BY <2>1 DEF Mode!Subscribe
<1>3. subscribed' = TRUE
  BY <1>1, <1>2 DEF Mode!Subscribe
<1>4. /\ order \in Seq(plugged)
      /\ \A i, j \in 1..Len(order) : i # j => order[i] # order[j]
      /\ \A x \in plugged : \E i \in 1..Len(order) : order[i] = x
  BY ModeReported
<1> DEFINE n == Len(order)
           h == [k \in 1..(n + 1) |-> {order[j] : j \in 1..(k - 1)}]
<1>5. /\ n \in Nat /\ Len(events') = n
      /\ \A i \in 1..n : events'[i] = [add |-> TRUE, udid |-> order[i]]
  <2>1. n \in Nat /\ DOMAIN order = 1..n
    BY <1>4
  <2> HIDE DEF n
  <2> QED
    BY <1>2, <2>1
<1> HIDE DEF n
<1>6. h \in Seq(SUBSET ModeUdids) /\ Len(h) = n + 1
  <2>1. \A k \in 1..(n + 1) : {order[j] : j \in 1..(k - 1)} \in SUBSET ModeUdids
    BY <1>4, <1>5 DEF ModeTypes, n
  <2>2. h \in [1..(n + 1) -> SUBSET ModeUdids]
    BY <2>1
  <2> HIDE DEF h
  <2> QED
    BY <1>5, <2>2
<1>7. h[n + 1] = plugged
  <2>1. h[n + 1] = {order[j] : j \in 1..((n + 1) - 1)} /\ (n + 1) - 1 = n
    BY <1>5
  <2>2. {order[j] : j \in 1..n} = plugged
    BY <1>4 DEF n
  <2> QED
    BY <2>1, <2>2
<1>8. ASSUME NEW i \in 1..n
      PROVE  /\ events'[i].add /\ events'[i].udid = order[i]
             /\ order[i] \notin h[i] /\ h[i + 1] = h[i] \union {order[i]}
  <2>1. h[i] = {order[j] : j \in 1..(i - 1)} /\ h[i + 1] = {order[j] : j \in 1..((i + 1) - 1)}
    BY <1>5
  <2>2. (i + 1) - 1 = i /\ 1..i = 1..(i - 1) \union {i} /\ i \notin 1..(i - 1)
    BY <1>5
  <2>3. \A j \in 1..(i - 1) : order[j] # order[i]
    BY <1>4, <1>5, <2>2 DEF n
  <2> HIDE DEF h
  <2> QED
    BY <1>5, <2>1, <2>2, <2>3
<1>9. h[1] = {}
  BY <1>5
<1> HIDE DEF h
<1>10. ModeLeads(h)'
  BY <1>1, <1>5, <1>6, <1>7, <1>8 DEF ModeLeads
<1>11. Named(h[1])'
  BY <1>9 DEF Named
<1> QED
  BY <1>1, <1>3, <1>6, <1>10, <1>11 DEF HeardInv

LEMMA HeardNames ==
  ASSUME ModeTypes, HandleInv, HeardInv, Mode!AddedNames \/ (Mode!Main /\ ~Mode!Subscribe)
  PROVE  HeardInv'
<1>1. /\ UNCHANGED <<plugged, events, subscribed>> /\ Mode!Wanted' = Mode!Wanted
      /\ main' # "subscribe" \/ main' = main
      /\ (cb' = cb /\ udid' = udid) \/ (cb' = None /\ udid' = cb /\ cb # None) \/ (cb' = cb /\ udid' = device /\ device # None)
  <2>1. CASE Mode!AddedNames
    BY <2>1 DEF Mode!AddedNames, Mode!world, Mode!Wanted
  <2>2. CASE Mode!GetUdid
    BY <2>2, ModeAssumption DEF Mode!GetUdid, Mode!Before, Mode!world, Mode!Wanted, Mode!Goto, HandleInv
  <2>3. CASE /\ Mode!Main /\ ~Mode!Subscribe /\ ~Mode!GetUdid
    BY <2>3
    DEF Mode!Main, Mode!First, Mode!Open, Mode!Name, Mode!Status, Mode!Arm, Mode!Passcode,
        Mode!Confirm, Mode!Reveal, Mode!Drop, Mode!Gone, Mode!Back, Mode!Reopen, Mode!Free, Mode!Before,
        Mode!Acts, Mode!Waits, Mode!world, Mode!watch, Mode!Wanted, Mode!Goto
  <2> QED
    BY <2>1, <2>2, <2>3
<1>2. main' = "subscribe" => ~subscribed' /\ cb' = None
  BY <1>1 DEF HeardInv
<1>3. CASE ~subscribed
  BY <1>1, <1>2, <1>3 DEF HeardInv
<1>4. CASE subscribed
  <2>1. PICK h \in Seq(SUBSET ModeUdids) : ModeLeads(h) /\ Named(h[1])
    BY <1>4 DEF HeardInv
  <2>2. ModeLeads(h)' /\ Named(h[1])'
    BY <1>1, <2>1 DEF ModeLeads, Named
  <2> QED
    BY <1>1, <1>2, <1>4, <2>2 DEF HeardInv
<1> QED
  BY <1>3, <1>4 DEF HeardInv

ModeInv == ModeTypes /\ HandleInv /\ NameInv /\ DoneInv /\ AwayInv /\ HeardInv

LEMMA ModeSteps == ModeInv /\ Mode!Next => ModeInv'
<1> SUFFICES ASSUME ModeInv, Mode!Next PROVE ModeInv'
  OBVIOUS
<1> USE DEF ModeInv
<1>1. CASE Mode!Plug
  BY <1>1, ModeWorld, AwayPlug, HeardPlug
<1>2. CASE Mode!EventThread
  BY <1>2, ModeWorld, AwayHears, HeardHears, HeardNames DEF Mode!EventThread
<1>3. CASE Mode!Main
  <2>1. ModeTypes' /\ HandleInv' /\ NameInv' /\ DoneInv'
    BY <1>3, ModeSubscribes, ModeWaits, ModeActs DEF Mode!Main
  <2>2. AwayInv' /\ HeardInv'
    BY <1>3, AwayMain, HeardSubscribes, HeardNames
  <2> QED
    BY <2>1, <2>2
<1> QED
  BY <1>1, <1>2, <1>3 DEF Mode!Next

\* What the runs check of idevicedevmodectl.
LEMMA ModeTrue ==
  ModeInv => Mode!TypeOK /\ Mode!DoneTrue /\ Mode!RestartSeen /\ Mode!HandleFreed
<1> SUFFICES ASSUME ModeInv PROVE Mode!TypeOK /\ Mode!DoneTrue /\ Mode!RestartSeen /\ Mode!HandleFreed
  OBVIOUS
<1> USE DEF ModeInv
<1>1. Mode!TypeOK
  <2>1. freed \in 0..3
    BY DEF ModeTypes, HandleInv
  <2> QED
    BY <2>1 DEF ModeTypes, Mode!TypeOK, Devices, Deeds
<1>2. Mode!DoneTrue
  BY DEF DoneInv, Did, Mode!DoneTrue
<1>3. Mode!RestartSeen
  BY DEF AwayInv, Restarting, Mode!RestartSeen
<1>4. Mode!HandleFreed
  <2>1. ~noclient => freed <= 1 /\ (main = "done" /\ device # None => freed = 1)
    BY DEF HandleInv, ModeTypes
  <2>2. ASSUME events # <<>>, ~Head(events).add, cb = None, Head(events).udid \in Mode!Wanted
        PROVE  udid # None
    <3>1. PICK h \in Seq(SUBSET ModeUdids) : ModeLeads(h) /\ Named(h[1])
      BY <2>2 DEF HeardInv
    <3>2. 1 \in 1..Len(events) /\ Head(events) = events[1]
      BY <2>2, HeadTailFacts DEF ModeTypes
    <3>3. Head(events).udid \in h[1]
      BY <2>2, <3>1, <3>2 DEF ModeLeads
    <3> QED
      BY <2>2, <3>1, <3>3 DEF Named
  <2> QED
    BY <2>1, <2>2 DEF Mode!HandleFreed
<1> QED
  BY <1>1, <1>2, <1>3, <1>4

-----------------------------------------------------------------------------
(* idevicedebug *)

Said == {"none", "OK", "other", "O", "T"} \union Debug!Exits

\* Until something goes wrong nothing is on the wire between two commands; what the program
\* said last is how it is, and a status is there only behind the start of the program.
DebugInv ==
  /\ Debug!TypeOK /\ pc \in Nat \ {0} /\ wire \in Seq(Nat) /\ sent \in Nat
  /\ skew => wrong
  /\ ~wrong /\ program = "none" => took = sent /\ wire = <<>>
  /\ response = "T" => program = "stopped"
  /\ response \in Debug!Exits => program = response
  /\ cmd = "run" /\ res # "fail" => pc > 7
  /\ Debug!ExitTrue

LEMMA DebugStarts == Debug!Init => DebugInv
<1> SUFFICES ASSUME Debug!Init PROVE DebugInv
  OBVIOUS
<1>1. wire \in Seq(Nat) /\ wire = <<>>
  BY <<>> \in Seq(Nat) DEF Debug!Init
<1>2. Debug!TypeOK
  BY DEF Debug!Init, Debug!TypeOK
<1>3. Debug!ExitTrue
  BY DEF Debug!Init, Debug!ExitTrue
<1> QED
  BY <1>1, <1>2, <1>3 DEF Debug!Init, DebugInv, Debug!Exits

\* The script of a run: "c" is the seventh command, the loop follows.
LEMMA RunScript ==
  ASSUME cmd = "run", pc \in Nat \ {0}, Debug!Running
  PROVE  /\ Debug!Step \notin {"D", "k"}
         /\ Debug!Step = "c" => pc = 7
         /\ Debug!Step = "loop" => pc = 8
         /\ Debug!Step = "end" => pc > 7
<1> DEFINE a == Debug!Setup
           b == <<"Hc0", "c", "loop", "interrupt", "kill", "end">>
           Names == {"QSetMaxPacketSize:", "QSetWorkingDir:", "QEnvironmentHexEncoded:", "A",
                     "qLaunchSuccess", "Hc0", "c", "loop", "interrupt", "kill", "end"}
<1>1. a \in Seq(Names) /\ b \in Seq(Names) /\ Len(a) = 5 /\ Len(b) = 6
  <2>1. a \in Seq(Names)
    BY DEF Debug!Setup
  <2>2. b \in Seq(Names)
    OBVIOUS
  <2>3. Len(a) = 5
    BY DEF Debug!Setup
  <2>4. Len(b) = 6
    OBVIOUS
  <2> QED
    BY <2>1, <2>2, <2>3, <2>4
<1>2. Debug!Script(cmd) = a \o b
  BY DEF Debug!Script
<1>3. /\ Len(a \o b) = Len(a) + Len(b)
      /\ \A i \in 1..(Len(a) + Len(b)) : (a \o b)[i] = IF i <= Len(a) THEN a[i] ELSE b[i - Len(a)]
  <2> HIDE DEF a, b
  <2> QED
    BY <1>1, ConcatProperties
<1>4. /\ a[1] = "QSetMaxPacketSize:" /\ a[2] = "QSetWorkingDir:" /\ a[3] = "QEnvironmentHexEncoded:"
      /\ a[4] = "A" /\ a[5] = "qLaunchSuccess"
  BY DEF Debug!Setup
<1>5. b[1] = "Hc0" /\ b[2] = "c" /\ b[3] = "loop" /\ b[4] = "interrupt" /\ b[5] = "kill" /\ b[6] = "end"
  OBVIOUS
<1>6. Debug!Step = (a \o b)[pc] /\ pc \in 1..11
  BY <1>1, <1>2, <1>3 DEF Debug!Step, Debug!Running
<1> HIDE DEF a, b
<1>7. Debug!Step = IF pc <= 5 THEN a[pc] ELSE b[pc - 5]
  <2>1. pc \in 1..(Len(a) + Len(b))
    BY <1>1, <1>6
  <2> QED
    BY <1>1, <1>3, <1>6, <2>1
<1>8. pc \in {1, 2, 3, 4, 5, 6, 7, 8, 9, 10, 11}
  BY <1>6
<1>9. /\ Debug!Step \notin {"D", "k"}
      /\ Debug!Step = "c" => pc = 7
      /\ Debug!Step = "loop" => pc = 8
      /\ Debug!Step = "end" => pc > 7
  <2>1. CASE pc \in {1, 2, 3, 4, 5}
    BY <1>4, <1>7, <2>1
  <2>2. CASE pc \in {6, 7, 8, 9, 10, 11}
    BY <1>5, <1>7, <2>2
  <2> QED
    BY <1>8, <2>1, <2>2
<1> QED
  BY <1>1, <1>2, <1>3, <1>9

\* What is received for a command, or without one.
LEMMA DebugReceives ==
  ASSUME DebugInv, NEW w \in Seq(Nat), NEW may, Debug!ReceiveResponse(w, may)
  PROVE  /\ wire' \in Seq(Nat) /\ dres' \in {"ok", "error"} /\ response' \in Said
         /\ wrong => wrong'
         /\ skew' => wrong'
         /\ program' = program \/ (program = "running" /\ program' \in {"stopped"} \union Debug!Exits)
         /\ response' = "T" => program' = "stopped"
         /\ response' \in Debug!Exits => program' = response'
         /\ ~wrong' /\ program' = "none" => w # <<>> /\ wire' = Tail(w) /\ took' = Head(w)
<1>1. w # <<>> => Tail(w) \in Seq(Nat) /\ Head(w) \in Nat /\ Append(Tail(w), Head(w)) \in Seq(Nat)
  BY HeadTailFacts, AppendFacts
<1>2. skew => wrong
  BY DEF DebugInv
<1>3. CASE Debug!Response(w)
  BY <1>1, <1>2, <1>3 DEF Debug!Response, Said, Debug!Exits
<1>4. CASE Debug!Event(w)
  BY <1>2, <1>4 DEF Debug!Event, Said, Debug!Exits
<1>5. CASE Debug!Damaged(w)
  BY <1>1, <1>5 DEF Debug!Damaged, Said, Debug!Exits
<1>6. CASE Debug!NoPacket(w)
  BY <1>1, <1>2, <1>6 DEF Debug!NoPacket, Said, Debug!Exits
<1>7. CASE Debug!Nothing(w, may)
  BY <1>7 DEF Debug!Nothing, Said, Debug!Exits
<1> QED
  BY <1>3, <1>4, <1>5, <1>6, <1>7 DEF Debug!ReceiveResponse

LEMMA DebugSends ==
  ASSUME DebugInv, NEW heeded, NEW may, Debug!SendCommand(heeded, may)
  PROVE  /\ wire' \in Seq(Nat) /\ sent' \in Nat /\ dres' \in {"ok", "error"} /\ response' \in Said
         /\ skew' => wrong'
         /\ program' = program \/ (program = "running" /\ program' \in {"stopped"} \union Debug!Exits)
         /\ response' = "T" => program' = "stopped"
         /\ response' \in Debug!Exits => program' = response'
         /\ ~wrong' /\ program' = "none" => took' = sent' /\ wire' = <<>>
<1>1. CASE lost
  BY <1>1 DEF Debug!SendCommand, DebugInv, Debug!TypeOK, Said
<1>2. CASE ~lost
  <2>1. sent' = sent + 1 /\ Debug!ReceiveResponse(Append(wire, sent'), may)
    BY <1>2 DEF Debug!SendCommand
  <2>2. sent' \in Nat /\ wire \in Seq(Nat)
    BY <2>1 DEF DebugInv
  <2>3. PICK w : w = Append(wire, sent')
    OBVIOUS
  <2>4. w \in Seq(Nat) /\ Debug!ReceiveResponse(w, may)
    BY <2>1, <2>2, <2>3, AppendFacts
  <2>5. /\ wire' \in Seq(Nat) /\ dres' \in {"ok", "error"} /\ response' \in Said
        /\ wrong => wrong'
        /\ skew' => wrong'
        /\ program' = program \/ (program = "running" /\ program' \in {"stopped"} \union Debug!Exits)
        /\ response' = "T" => program' = "stopped"
        /\ response' \in Debug!Exits => program' = response'
        /\ ~wrong' /\ program' = "none" => w # <<>> /\ wire' = Tail(w) /\ took' = Head(w)
    BY <2>4, DebugReceives
  <2>6. ~wrong' /\ program' = "none" => took' = sent' /\ wire' = <<>>
    <3>1. ~wrong' /\ program' = "none" => ~wrong /\ program = "none"
      BY <2>5 DEF Debug!Exits
    <3>2. ~wrong /\ program = "none" => w = <<sent'>>
      BY <2>3 DEF DebugInv
    <3> QED
      BY <2>5, <3>1, <3>2
  <2> QED
    BY <2>2, <2>5, <2>6
<1> QED
  BY <1>1, <1>2

LEMMA DebugCommands ==
  ASSUME DebugInv, Debug!Command \/ Debug!EndProgram \/ Debug!Last
  PROVE  DebugInv'
<1>1. /\ pc < Len(Debug!Script(cmd)) + 1 /\ Len(Debug!Script(cmd)) \in Nat /\ pc \in Nat
      /\ UNCHANGED <<cmd, noack>>
  <2>1. pc <= Len(Debug!Script(cmd))
    BY DEF Debug!Command, Debug!EndProgram, Debug!Last, Debug!Running
  <2>2. Len(Debug!Script(cmd)) \in Nat
    BY DEF Debug!Script, Debug!Setup
  <2>3. UNCHANGED <<cmd, noack>>
    <3>1. CASE Debug!Command
      BY <3>1 DEF Debug!Command
    <3>2. CASE Debug!EndProgram
      BY <3>2 DEF Debug!EndProgram
    <3>3. CASE Debug!Last
      BY <3>3 DEF Debug!Last
    <3> QED
      BY <3>1, <3>2, <3>3
  <2>4. pc \in Nat
    BY DEF DebugInv
  <2> QED
    BY ONLY <2>1, <2>2, <2>3, <2>4
<1>2. PICK heeded, may : Debug!SendCommand(heeded, may)
  BY DEF Debug!Command, Debug!EndProgram, Debug!Last
<1>3. /\ wire' \in Seq(Nat) /\ sent' \in Nat /\ dres' \in {"ok", "error"} /\ response' \in Said
      /\ skew' => wrong'
      /\ program' = program \/ (program = "running" /\ program' \in {"stopped"} \union Debug!Exits)
      /\ response' = "T" => program' = "stopped"
      /\ response' \in Debug!Exits => program' = response'
      /\ ~wrong' /\ program' = "none" => took' = sent' /\ wire' = <<>>
  BY <1>2, DebugSends
<1>4. pc' \in Nat /\ pc' > pc
  <2>1. pc' = pc + 1 \/ pc' = Len(Debug!Script(cmd)) + 1
    BY DEF Debug!Command, Debug!EndProgram, Debug!Last, Debug!Cleanup, Debug!GoOn
  <2> QED
    BY ONLY <1>1, <2>1
<1>5. res' = res \/ (res' = "zero" /\ cmd # "run")
  BY RunScript DEF Debug!Command, Debug!EndProgram, Debug!Last, DebugInv
<1>6. Debug!TypeOK'
  BY <1>1, <1>3, <1>5 DEF DebugInv, Debug!TypeOK, Said, Debug!Exits
<1>7. Debug!ExitTrue' /\ (cmd' = "run" /\ res' # "fail" => pc' > 7)
  BY <1>1, <1>3, <1>4, <1>5 DEF DebugInv, Debug!ExitTrue
<1> QED
  BY <1>1, <1>3, <1>4, <1>6, <1>7 DEF DebugInv

\* Outside of the commands only the run loop receives something, and only while it has no status.
LEMMA DebugLoops == ASSUME DebugInv, Debug!RunLoop PROVE DebugInv'
<1>1. /\ UNCHANGED <<cmd, noack, sent>> /\ res' = Debug!Status(response)
      /\ pc \in Nat /\ Debug!Running /\ Debug!Step = "loop"
  BY DEF Debug!RunLoop, DebugInv
<1>2. /\ res' \in {"zero", "low", "134"} /\ cmd = "run" =>
           program = IF res' = "134" THEN "stopped" ELSE res'
      /\ res' \in {"fail", "134", "killed", "zero", "low"}
  BY <1>1 DEF DebugInv, Debug!TypeOK, Debug!ExitTrue, Debug!Status, Debug!Exits
<1>3. cmd = "run" => pc = 8
  BY <1>1, RunScript DEF DebugInv
<1>4. Len(Debug!Script(cmd)) \in Nat /\ pc <= Len(Debug!Script(cmd))
  BY <1>1 DEF Debug!Running, Debug!Script, Debug!Setup
<1>5. CASE response = "T"
  <2>1. pc' = pc + 1 /\ dres' = "error" /\ response' = "none" /\ UNCHANGED <<wire, took, skew, program, wrong>>
    BY <1>5 DEF Debug!RunLoop, Debug!GoOn
  <2> QED
    BY <1>1, <1>2, <1>3, <2>1 DEF DebugInv, Debug!TypeOK, Debug!ExitTrue, Debug!Exits
<1>6. CASE response # "T" /\ res' # "fail"
  <2>1. /\ pc' = Len(Debug!Script(cmd)) + 1
        /\ UNCHANGED <<dres, response, wire, took, skew, program, wrong>>
    BY <1>6 DEF Debug!RunLoop, Debug!Cleanup
  <2>2. pc' \in Nat \ {0} /\ pc' > pc
    BY ONLY <1>1, <1>4, <2>1
  <2> QED
    BY <1>1, <1>2, <1>3, <2>1, <2>2 DEF DebugInv, Debug!TypeOK, Debug!ExitTrue
<1>7. CASE response # "T" /\ res' = "fail"
  <2>1. Debug!ReceiveResponse(wire, quit) /\ pc' = pc
    BY <1>7 DEF Debug!RunLoop
  <2>2. wire \in Seq(Nat)
    BY DEF DebugInv
  <2>3. /\ wire' \in Seq(Nat) /\ dres' \in {"ok", "error"} /\ response' \in Said
        /\ wrong => wrong'
        /\ skew' => wrong'
        /\ program' = program \/ (program = "running" /\ program' \in {"stopped"} \union Debug!Exits)
        /\ response' = "T" => program' = "stopped"
        /\ response' \in Debug!Exits => program' = response'
        /\ ~wrong' /\ program' = "none" => wire # <<>>
    BY <2>1, <2>2, DebugReceives
  <2>4. wrong' \/ program' # "none"
    BY <2>3 DEF DebugInv, Debug!Exits
  <2>5. Debug!TypeOK'
    BY <1>1, <1>7, <2>3 DEF DebugInv, Debug!TypeOK, Said, Debug!Exits
  <2> QED
    BY <1>1, <1>7, <2>1, <2>3, <2>4, <2>5 DEF DebugInv, Debug!ExitTrue
<1> QED
  BY <1>5, <1>6, <1>7

LEMMA DebugSteps == DebugInv /\ Debug!Next => DebugInv'
<1> SUFFICES ASSUME DebugInv, Debug!Next PROVE DebugInv'
  OBVIOUS
<1>1. CASE Debug!Command \/ Debug!EndProgram \/ Debug!Last
  BY <1>1, DebugCommands
<1>2. CASE Debug!RunLoop
  BY <1>2, DebugLoops
<1>3. CASE Debug!Continue
  <2>1. /\ UNCHANGED <<cmd, noack, sent, wire, skew, res, wrong, took>> /\ response' = "none" /\ pc' = pc + 1
        /\ dres' \in {"ok", "error"} /\ (program' = program \/ program' = "running")
    BY <1>3 DEF Debug!Continue, Debug!GoOn
  <2>2. cmd = "run" => res = "fail"
    <3>1. cmd = "run" => pc = 7
      BY <1>3, RunScript DEF Debug!Continue, DebugInv
    <3> QED
      BY <3>1 DEF DebugInv
  <2>3. Debug!TypeOK' /\ Debug!ExitTrue'
    BY <2>1, <2>2 DEF DebugInv, Debug!TypeOK, Debug!ExitTrue
  <2> QED
    BY <2>1, <2>2, <2>3 DEF DebugInv, Debug!Exits
<1>4. CASE Debug!LeaveLoop \/ Debug!End
  <2>1. /\ UNCHANGED <<cmd, noack, sent, wire, skew, response, dres, program, wrong, took>> /\ pc' = pc + 1
        /\ res' = res \/ (res' = "killed" /\ Debug!Step = "end")
    BY <1>4 DEF Debug!LeaveLoop, Debug!End, Debug!GoOn
  <2>2. cmd = "run" /\ Debug!Step = "end" => pc > 7
    BY <1>4, RunScript DEF Debug!LeaveLoop, Debug!End, DebugInv
  <2>3. Debug!TypeOK' /\ Debug!ExitTrue'
    BY <2>1 DEF DebugInv, Debug!TypeOK, Debug!ExitTrue
  <2> QED
    BY <2>1, <2>2, <2>3 DEF DebugInv
<1>5. CASE Debug!Quit \/ Debug!Lose
  <2>1. UNCHANGED <<cmd, pc, noack, sent, wire, skew, response, dres, res, program, wrong, took>>
    BY <1>5 DEF Debug!Quit, Debug!Lose
  <2>2. Debug!TypeOK' /\ Debug!ExitTrue'
    BY <2>1 DEF DebugInv, Debug!TypeOK, Debug!ExitTrue
  <2> QED
    BY <2>1, <2>2 DEF DebugInv
<1> QED
  BY <1>1, <1>2, <1>3, <1>4, <1>5 DEF Debug!Next, Debug!Tool

LEMMA DebugTrue == DebugInv => Debug!TypeOK /\ Debug!OwnResponse /\ Debug!ExitTrue
BY DEF DebugInv, Debug!OwnResponse

-----------------------------------------------------------------------------
(* idevicecrashreport *)

Frame == [dir : {".", "dir"}, list : Seq(Crashes!Entries), res : {"ok", "fail"}, count : {0, 1}]
Kept == [of : Crashes!Entries \union {"nothing"}, blocks : Nat]

\* While entries are handled there is a call that handles them; what is copied was wanted.
ReportsTypes ==
  /\ pc \in {"start", "list", "next", "rmdir", "read", "copied", "done"}
  /\ keep \in BOOLEAN /\ all \in BOOLEAN /\ extract \in BOOLEAN /\ wanted \subseteq Reports
  /\ frames \in Seq(Frame) /\ host \in [Crashes!HostNames -> Kept]
  /\ read \in 0..Size /\ device \subseteq Crashes!Entries /\ file \in Crashes!Entries \union {"none"}
  /\ copied \subseteq Reports \union {"link"}
  /\ pc \in {"next", "rmdir", "read", "copied"} => frames # <<>>
  /\ pc \in {"list", "rmdir"} => file \in {".", "dir"}
  /\ pc \in {"read", "copied"} => file \in wanted /\ ~all

\* The report that is copied has its name on the host for itself, and as many blocks there as
\* were read, unless the disk did not take one.
CopyInv ==
  /\ pc = "read" =>
       /\ host[HostName[file]].of = file /\ (file \in short \/ host[HostName[file]].blocks = read)
       /\ \A r \in copied : HostName[r] = HostName[file] => r \in late
  /\ pc = "copied" => file \in short \/ host[HostName[file]] = Crashes!Copy(file)

ReportsInv == ReportsTypes /\ CopyInv /\ Crashes!NothingGone

LEMMA ReportsStarts == Crashes!Init => ReportsInv
<1> SUFFICES ASSUME Crashes!Init PROVE ReportsInv
  OBVIOUS
<1>1. frames \in Seq(Frame)
  BY <<>> \in Seq(Frame) DEF Crashes!Init
<1>2. host \in [Crashes!HostNames -> Kept]
  <2>1. Crashes!Nowhere \in Kept
    BY DEF Crashes!Nowhere, Kept
  <2> QED
    BY <2>1 DEF Crashes!Init
<1>3. ReportsTypes
  BY <1>1, <1>2, ReportsAssumption DEF Crashes!Init, ReportsTypes
<1>4. device = Crashes!Entries
  BY DEF Crashes!Init
<1>5. Crashes!NothingGone
  BY <1>4 DEF Crashes!NothingGone, Crashes!Entries
<1> QED
  BY <1>3, <1>5 DEF Crashes!Init, CopyInv, ReportsInv

\* The call on the top, and what it is changed to.
LEMMA TopFacts ==
  ASSUME ReportsTypes, pc \in {"next", "rmdir", "read", "copied"}
  PROVE  /\ Len(frames) \in Nat \ {0} /\ Crashes!Top \in Frame
         /\ Crashes!Top.list # <<>> =>
              Tail(Crashes!Top.list) \in Seq(Crashes!Entries) /\ Head(Crashes!Top.list) \in Crashes!Entries
<1>1. frames \in Seq(Frame) /\ frames # <<>>
  BY DEF ReportsTypes
<1>2. Len(frames) \in Nat \ {0} /\ frames[Len(frames)] \in Frame
  BY <1>1
<1>3. Crashes!Top \in Frame
  BY <1>2 DEF Crashes!Top
<1>4. Crashes!Top.list \in Seq(Crashes!Entries)
  BY <1>3 DEF Frame
<1> QED
  BY <1>2, <1>3, <1>4, HeadTailFacts

LEMMA SetTopFacts ==
  ASSUME frames \in Seq(Frame), frames # <<>>, NEW f \in Frame, Crashes!SetTop(f)
  PROVE  frames' \in Seq(Frame) /\ frames' # <<>>
<1>1. frames' = [frames EXCEPT ![Len(frames)] = f]
  BY DEF Crashes!SetTop
<1>2. frames' \in [1..Len(frames) -> Frame] /\ Len(frames) \in Nat \ {0}
  BY <1>1
<1> QED
  BY <1>2

\* Steps that touch neither side: only the place and the stack of calls change.
LEMMA ReportsWalks ==
  ASSUME ReportsInv,
         \/ Crashes!Start \/ Crashes!List \/ Crashes!Return
         \/ \E e \in Crashes!Entries : Crashes!Skip(e) \/ Crashes!SubDir(e)
  PROVE  ReportsInv'
<1> USE DEF ReportsInv
<1>1. /\ UNCHANGED <<keep, all, extract, wanted, read, device, host, copied, short, late>>
      /\ pc' \notin {"read", "copied"}
  BY DEF Crashes!Start, Crashes!List, Crashes!Return, Crashes!Skip, Crashes!SubDir, Crashes!Entry, Crashes!opts
<1>2. Crashes!NothingGone'
  BY <1>1 DEF Crashes!NothingGone, Crashes!Inside
<1>3. CopyInv'
  BY <1>1 DEF CopyInv
<1>4. /\ frames' \in Seq(Frame) /\ (pc' \in {"next", "rmdir"} => frames' # <<>>)
      /\ pc' \in {"start", "list", "next", "rmdir", "done"}
      /\ file' \in Crashes!Entries \union {"none"} /\ (pc' \in {"list", "rmdir"} => file' \in {".", "dir"})
  <2> USE DEF ReportsTypes
  <2>1. CASE Crashes!Start
    BY <2>1 DEF Crashes!Start, Crashes!Entries
  <2>2. CASE Crashes!List
    <3>1. CASE frames = <<>> /\ pc' = "done" /\ UNCHANGED <<frames, file>>
      BY <2>2, <3>1 DEF Crashes!List
    <3>2. ASSUME NEW order \in Crashes!Bijection(1..Crashes!Cardinality(Crashes!Inside(file)), Crashes!Inside(file)),
                 frames' = Append(frames, [dir |-> file, list |-> order, res |-> "fail", count |-> 0])
          PROVE  frames' \in Seq(Frame) /\ frames' # <<>>
      <4>1. order \in Seq(Crashes!Entries)
        <5>1. order \in [1..Crashes!Cardinality(Crashes!Inside(file)) -> Crashes!Inside(file)]
          BY DEF Crashes!Bijection, Crashes!Injection
        <5>2. Crashes!Inside(file) \subseteq Crashes!Entries /\ IsFiniteSet(Crashes!Inside(file))
          <6>1. Crashes!Inside(file) \subseteq ReportsIn[file] /\ Crashes!Inside(file) \subseteq device
            BY DEF Crashes!Inside
          <6>2. file \in {".", "dir"}
            BY <2>2 DEF Crashes!List
          <6>3. ReportsIn[file] \subseteq {"r", "r.synced", "t", "dir", "link"}
            BY <6>2 DEF ReportsIn
          <6>4. IsFiniteSet({"r", "r.synced", "t", "dir", "link"})
            <7>1. IsFiniteSet({"r"} \union {"r.synced"}) /\ IsFiniteSet({"t"} \union {"link"})
              BY FS_Singleton, FS_Union
            <7>2. IsFiniteSet(({"r"} \union {"r.synced"}) \union ({"t"} \union {"link"}))
              BY <7>1, FS_Union
            <7>3. {"r", "r.synced", "t", "dir", "link"}
                  = (({"r"} \union {"r.synced"}) \union ({"t"} \union {"link"})) \union {"dir"}
              OBVIOUS
            <7>4. IsFiniteSet((({"r"} \union {"r.synced"}) \union ({"t"} \union {"link"})) \union {"dir"})
              BY <7>2, FS_Singleton, FS_Union
            <7> QED
              BY <7>3, <7>4, Zenon
          <6> QED
            BY <6>1, <6>3, <6>4, FS_Subset
        <5>3. Crashes!Cardinality(Crashes!Inside(file)) = Cardinality(Crashes!Inside(file))
          BY DEF Crashes!Cardinality, Cardinality
        <5>4. Cardinality(Crashes!Inside(file)) \in Nat
          BY <5>2, FS_CardinalityType
        <5> QED
          BY <5>1, <5>2, <5>3, <5>4
      <4>2. [dir |-> file, list |-> order, res |-> "fail", count |-> 0] \in Frame
        BY <2>2, <4>1 DEF Crashes!List, Frame
      <4>3. /\ frames' \in Seq(Frame) /\ Len(frames') = Len(frames) + 1 /\ Len(frames) \in Nat
        BY <3>2, <4>2, AppendFacts
      <4> QED
        BY <4>3
    <3>3. ASSUME frames # <<>>, Crashes!SetTop([Crashes!Top EXCEPT !.res = "fail"])
          PROVE  frames' \in Seq(Frame) /\ frames' # <<>>
      <4>1. Len(frames) \in Nat \ {0} /\ frames[Len(frames)] \in Frame
        BY <3>3
      <4>2. [Crashes!Top EXCEPT !.res = "fail"] \in Frame
        BY <4>1 DEF Crashes!Top, Frame
      <4> QED
        BY <3>3, <4>2, SetTopFacts
    <3> QED
      BY <2>2, <3>1, <3>2, <3>3 DEF Crashes!List
  <2>3. CASE Crashes!Return
    <3>1. Len(frames) \in Nat \ {0} /\ Crashes!Top \in Frame
      BY <2>3, TopFacts DEF Crashes!Return
    <3>2. file' \in {".", "dir"}
      BY <2>3, <3>1 DEF Crashes!Return, Frame
    <3>3. CASE Len(frames) = 1
      BY <2>3, <3>2, <3>3, <<>> \in Seq(Frame) DEF Crashes!Return, Crashes!Entries
    <3>4. CASE Len(frames) # 1
      <4>1. PICK r \in {"ok", "fail"} :
              /\ pc' = "rmdir"
              /\ frames' = [i \in 1..(Len(frames) - 1) |->
                              IF i = Len(frames) - 1 THEN [frames[i] EXCEPT !.res = r] ELSE frames[i]]
        BY <2>3, <3>1, <3>4 DEF Crashes!Return, Frame
      <4>2. \A i \in 1..(Len(frames) - 1) : frames[i] \in Frame /\ [frames[i] EXCEPT !.res = r] \in Frame
        <5>1. \A i \in 1..(Len(frames) - 1) : frames[i] \in Frame
          BY <3>1
        <5> QED
          BY <5>1 DEF Frame
      <4>3. frames' \in [1..(Len(frames) - 1) -> Frame] /\ Len(frames) - 1 \in Nat \ {0}
        BY <3>1, <3>4, <4>1, <4>2
      <4>4. frames' \in Seq(Frame) /\ Len(frames') = Len(frames) - 1
        BY <4>3
      <4>5. frames' # <<>>
        BY <4>3, <4>4
      <4> QED
        BY <3>2, <4>1, <4>4, <4>5 DEF Crashes!Entries
    <3> QED
      BY <3>3, <3>4
  <2>4. ASSUME NEW e \in Crashes!Entries, Crashes!Skip(e) \/ Crashes!SubDir(e)
        PROVE  /\ frames' \in Seq(Frame) /\ frames' # <<>> /\ pc' \in {"next", "list"}
               /\ file' = file \/ file' \in {".", "dir"}
               /\ pc' = "list" => file' \in {".", "dir"}
    <3>1. pc = "next" /\ Crashes!Top.list # <<>> /\ Crashes!SetTop([Crashes!Top EXCEPT !.list = Tail(@)])
      BY <2>4 DEF Crashes!Skip, Crashes!SubDir, Crashes!Entry
    <3>2. Crashes!Top \in Frame /\ Tail(Crashes!Top.list) \in Seq(Crashes!Entries)
      BY <3>1, TopFacts
    <3>3. [Crashes!Top EXCEPT !.list = Tail(@)] \in Frame
      BY <3>2 DEF Frame
    <3>4. frames' \in Seq(Frame) /\ frames' # <<>>
      BY <3>1, <3>3, SetTopFacts
    <3> QED
      BY <2>4, <3>1, <3>4 DEF Crashes!Skip, Crashes!SubDir
  <2> QED
    BY <2>1, <2>2, <2>3, <2>4 DEF Crashes!Entries
<1> QED
  BY <1>1, <1>2, <1>3, <1>4 DEF ReportsTypes

\* What every step keeps that is about one report: the options and, on the device, all but it.
LEMMA GoneStays ==
  ASSUME ReportsInv, UNCHANGED <<keep, all, wanted>>, NEW x,
         device' = device \/ device' = device \ {x},
         host' \in [Crashes!HostNames -> Kept],
         copied \subseteq copied', short \subseteq short', late \subseteq late',
         device' # device => /\ x \notin {".", "dir"} /\ (keep => all) /\ (x \in Reports => x \in wanted)
                             /\ (x \in copied' \/ all),
         ~all /\ device' # device => x \in short' \/ x \in late' \/ host'[HostName[x]] = Crashes!Copy(x),
         ~all => \A e \in copied : e \in short' \/ e \in late' \/ host'[HostName[e]] = host[HostName[e]]
  PROVE  Crashes!NothingGone'
<1> USE DEF ReportsInv, Crashes!NothingGone
<1>1. ASSUME ~all, NEW e \in (Reports \union {"link"}) \ device'
      PROVE  e \in copied' /\ (e \in short' \/ e \in late' \/ host'[HostName[e]] = Crashes!Copy(e))
  <2>1. CASE e \notin device
    BY <1>1, <2>1
  <2>2. CASE e \in device
    BY <1>1, <2>2
  <2> QED
    BY <2>1, <2>2
<1>2. (keep /\ ~all => device' = Crashes!Entries) /\ Reports \ device' \subseteq wanted
  OBVIOUS
<1>3. \A d \in {".", "dir"} \ device' : Crashes!Inside(d)' = {}
  BY DEF Crashes!Inside
<1> QED
  BY <1>1, <1>2, <1>3 DEF Crashes!Entries

LEMMA ReportsLinks ==
  ASSUME ReportsInv, NEW e \in Crashes!Entries, Crashes!Link(e)
  PROVE  ReportsInv'
<1> USE DEF ReportsInv
<1>1. /\ UNCHANGED <<keep, all, extract, wanted, pc, file, read>> /\ pc = "next" /\ e = "link" /\ ~all
      /\ late' = late \union Crashes!Reused(e) /\ copied' = copied \union (device \ device')
      /\ device' = device \/ (device' = device \ {e} /\ ~keep)
      /\ \/ host' = [host EXCEPT ![HostName[e]] = Crashes!Copy(e)] /\ short' = short
         \/ host' = [host EXCEPT ![HostName[e]] = Crashes!Nowhere] /\ short' = short \union {e}
  BY DEF Crashes!Link, Crashes!Entry, Crashes!opts
<1>2. /\ Crashes!Top \in Frame /\ Tail(Crashes!Top.list) \in Seq(Crashes!Entries)
      /\ Crashes!SetTop([Crashes!Top EXCEPT !.list = Tail(@), !.res = "ok"])
  BY TopFacts DEF Crashes!Link, Crashes!Entry
<1>3. frames' \in Seq(Frame) /\ frames' # <<>>
  <2>1. [Crashes!Top EXCEPT !.list = Tail(@), !.res = "ok"] \in Frame
    BY <1>2 DEF Frame
  <2> QED
    BY <1>1, <1>2, <2>1, SetTopFacts DEF ReportsTypes
<1>4. /\ host' \in [Crashes!HostNames -> Kept] /\ HostName[e] \in Crashes!HostNames
      /\ \A n \in Crashes!HostNames : n # HostName[e] => host'[n] = host[n]
      /\ e \in short' \/ host'[HostName[e]] = Crashes!Copy(e)
  <2>1. Crashes!Copy(e) \in Kept /\ Crashes!Nowhere \in Kept
    BY <1>1, ReportsAssumption DEF Crashes!Copy, Crashes!Nowhere, Kept
  <2>2. HostName[e] \in Crashes!HostNames /\ host \in [Crashes!HostNames -> Kept]
    BY <1>1 DEF Crashes!HostNames, ReportsTypes
  <2> QED
    BY <1>1, <2>1, <2>2
<1>5. ReportsTypes'
  BY <1>1, <1>3, <1>4 DEF ReportsTypes
<1>6. CopyInv'
  BY <1>1 DEF CopyInv
<1>7. Crashes!NothingGone'
  <2>1. e \notin Reports
    BY <1>1, ReportsAssumption
  <2>2. \A r \in copied : HostName[r] \in Crashes!HostNames /\ (r \in late' \/ HostName[r] # HostName[e])
    BY <1>1 DEF Crashes!Reused, ReportsTypes, Crashes!HostNames
  <2>3. e \notin {".", "dir"} /\ (device' # device => e \in copied')
    BY <1>1
  <2> QED
    BY <1>1, <1>4, <2>1, <2>2, <2>3, GoneStays
<1> QED
  BY <1>5, <1>6, <1>7

LEMMA ReportsOpens ==
  ASSUME ReportsInv, NEW e \in Crashes!Entries, Crashes!Open(e)
  PROVE  ReportsInv'
<1> USE DEF ReportsInv
<1>1. /\ UNCHANGED <<keep, all, extract, wanted, device, copied, short>> /\ pc = "next" /\ e \in wanted /\ ~all
      /\ pc' = "read" /\ file' = e /\ read' = 0
      /\ late' = late \union Crashes!Reused(e)
      /\ host' = [host EXCEPT ![HostName[e]] = [of |-> e, blocks |-> 0]]
  BY DEF Crashes!Open, Crashes!Entry, Crashes!opts
<1>2. /\ Crashes!Top \in Frame /\ Tail(Crashes!Top.list) \in Seq(Crashes!Entries)
      /\ Crashes!SetTop([Crashes!Top EXCEPT !.list = Tail(@)])
  BY TopFacts DEF Crashes!Open, Crashes!Entry
<1>3. frames' \in Seq(Frame) /\ frames' # <<>>
  <2>1. [Crashes!Top EXCEPT !.list = Tail(@)] \in Frame
    BY <1>2 DEF Frame
  <2> QED
    BY <1>1, <1>2, <2>1, SetTopFacts DEF ReportsTypes
<1>4. /\ host' \in [Crashes!HostNames -> Kept] /\ HostName[e] \in Crashes!HostNames
      /\ \A n \in Crashes!HostNames : n # HostName[e] => host'[n] = host[n]
      /\ host'[HostName[e]] = [of |-> e, blocks |-> 0]
  <2>1. [of |-> e, blocks |-> 0] \in Kept
    BY DEF Kept
  <2>2. HostName[e] \in Crashes!HostNames /\ host \in [Crashes!HostNames -> Kept]
    BY <1>1 DEF Crashes!HostNames, ReportsTypes
  <2> QED
    BY <1>1, <2>1, <2>2
<1>5. \A r \in copied : r \in late' \/ HostName[r] # HostName[e]
  BY <1>1 DEF Crashes!Reused
<1>6. ReportsTypes'
  BY <1>1, <1>3, <1>4, ReportsAssumption DEF ReportsTypes
<1>7. CopyInv'
  BY <1>1, <1>4, <1>5 DEF CopyInv
<1>8. Crashes!NothingGone'
  <2>1. \A r \in copied : HostName[r] \in Crashes!HostNames
    BY DEF ReportsTypes, Crashes!HostNames
  <2> QED
    BY <1>1, <1>4, <1>5, <2>1, GoneStays
<1> QED
  BY <1>6, <1>7, <1>8

LEMMA ReportsReads == ASSUME ReportsInv, Crashes!Read \/ Crashes!EndOfFile PROVE ReportsInv'
<1> USE DEF ReportsInv
<1>1. /\ UNCHANGED <<keep, all, extract, wanted, device, copied, frames, file, late>> /\ pc = "read"
      /\ file \in wanted /\ wanted \subseteq Reports /\ ~all /\ file \in Crashes!Entries
  BY DEF Crashes!Read, Crashes!EndOfFile, Crashes!opts, ReportsTypes, Crashes!Entries
<1>2. /\ HostName[file] \in Crashes!HostNames /\ host \in [Crashes!HostNames -> Kept]
      /\ host[HostName[file]] \in Kept /\ host[HostName[file]].of = file
      /\ file \in short \/ host[HostName[file]].blocks = read
      /\ \A r \in copied : r \in late \/ HostName[r] # HostName[file]
  BY <1>1 DEF ReportsTypes, CopyInv, Crashes!HostNames
<1>3. CASE Crashes!EndOfFile
  <2>1. UNCHANGED <<read, host, short>> /\ pc' = IF read = Size THEN "copied" ELSE "next"
    BY <1>3 DEF Crashes!EndOfFile, Crashes!Complete
  <2>2. ReportsTypes'
    BY <1>1, <2>1 DEF ReportsTypes
  <2>3. CopyInv'
    <3>1. read = Size /\ file \notin short => host[HostName[file]] = Crashes!Copy(file)
      BY <1>2 DEF Kept, Crashes!Copy
    <3> QED
      BY <1>1, <2>1, <3>1 DEF CopyInv
  <2>4. Crashes!NothingGone'
    BY <1>1, <1>2, <2>1, GoneStays
  <2> QED
    BY <2>2, <2>3, <2>4
<1>4. CASE Crashes!Read
  <2>1. /\ read' = read + 1 /\ read < Size /\ pc' = pc
        /\ \/ host' = [host EXCEPT ![HostName[file]].blocks = @ + 1] /\ short' = short
           \/ short' = short \union {file} /\ host' = host
    BY <1>4 DEF Crashes!Read
  <2>2. /\ host' \in [Crashes!HostNames -> Kept] /\ host'[HostName[file]].of = file
        /\ file \in short' \/ host'[HostName[file]].blocks = read + 1
        /\ \A n \in Crashes!HostNames : n # HostName[file] => host'[n] = host[n]
    <3>1. CASE host' = host /\ short' = short \union {file}
      BY <1>2, <3>1
    <3>2. CASE host' = [host EXCEPT ![HostName[file]].blocks = @ + 1] /\ short' = short
      <4> DEFINE k == [host[HostName[file]] EXCEPT !.blocks = @ + 1]
      <4>1. k \in Kept /\ k.of = file /\ (file \in short \/ k.blocks = read + 1)
        BY <1>2 DEF Kept
      <4>2. host' = [host EXCEPT ![HostName[file]] = k]
        BY <3>2
      <4> HIDE DEF k
      <4> QED
        BY <1>2, <3>2, <4>1, <4>2
    <3> QED
      BY <2>1, <3>1, <3>2
  <2>3. read' \in 0..Size
    BY <2>1, ReportsAssumption DEF ReportsTypes
  <2>4. ReportsTypes'
    BY <1>1, <2>1, <2>2, <2>3 DEF ReportsTypes
  <2>5. CopyInv'
    BY <1>1, <1>2, <2>1, <2>2 DEF CopyInv
  <2>6. Crashes!NothingGone'
    <3>1. \A r \in copied : HostName[r] \in Crashes!HostNames
      BY DEF ReportsTypes, Crashes!HostNames
    <3> QED
      BY <1>1, <1>2, <2>1, <2>2, <3>1, GoneStays
  <2> QED
    BY <2>4, <2>5, <2>6
<1> QED
  BY <1>3, <1>4

\* What is removed on the device: a directory, a report that is not wanted there any more, or
\* one that was copied.
LEMMA ReportsRemoves ==
  ASSUME ReportsInv,
         Crashes!RemoveDir \/ Crashes!Copied \/ \E e \in Crashes!Entries : Crashes!RemoveAll(e)
  PROVE  ReportsInv'
<1> USE DEF ReportsInv
<1>1. UNCHANGED <<keep, all, extract, wanted, short, file, read>> /\ pc' = "next"
  BY DEF Crashes!RemoveDir, Crashes!Copied, Crashes!RemoveAll, Crashes!Entry, Crashes!opts
<1>2. CopyInv'
  BY <1>1 DEF CopyInv
<1>6. ~Crashes!Copied => UNCHANGED <<host, late>> /\ host' \in [Crashes!HostNames -> Kept]
  BY DEF Crashes!RemoveDir, Crashes!RemoveAll, ReportsTypes
<1>3. CASE Crashes!RemoveDir /\ ~Crashes!Copied
  <2>1. /\ UNCHANGED <<frames, copied>> /\ file \in {".", "dir"}
        /\ device' = device \/ (device' = device \ {file} /\ ~keep /\ Crashes!Inside(file) = {})
    BY <1>3 DEF Crashes!RemoveDir, ReportsTypes
  <2>2. ReportsTypes'
    BY <1>1, <1>3, <1>6, <2>1 DEF ReportsTypes, Crashes!RemoveDir
  <2>3. Crashes!NothingGone'
    <3>1. (Reports \union {"link"}) \ device' = (Reports \union {"link"}) \ device
      BY <2>1, ReportsAssumption
    <3>2. \A d \in {".", "dir"} \ device' : Crashes!Inside(d)' = {}
      BY <2>1 DEF Crashes!Inside, Crashes!NothingGone
    <3> QED
      BY <1>1, <1>6, <1>3, <2>1, <3>1, <3>2 DEF Crashes!NothingGone, Crashes!Copy, Crashes!Entries
  <2> QED
    BY <1>2, <2>2, <2>3
<1>4. CASE Crashes!Copied
  <2>1. /\ device' = device \/ (device' = device \ {file} /\ ~keep) 
        /\ copied' = copied \union (device \ device') /\ pc = "copied" /\ file \in wanted /\ ~all
        /\ wanted \subseteq Reports /\ Crashes!SetTop([Crashes!Top EXCEPT !.res = "ok", !.count = 1])
        /\ file \in short \/ host[HostName[file]] = Crashes!Copy(file)
        /\ \/ file \in DOMAIN CrashName /\ Crashes!Extracted
           \/ UNCHANGED <<host, late>>
    BY <1>4 DEF Crashes!Copied, ReportsTypes, CopyInv
  <2>2. frames' \in Seq(Frame) /\ frames' # <<>>
    <3>1. Crashes!Top \in Frame
      BY <2>1, TopFacts
    <3>2. [Crashes!Top EXCEPT !.res = "ok", !.count = 1] \in Frame
      BY <3>1 DEF Frame
    <3> QED
      BY <2>1, <3>2, SetTopFacts DEF ReportsTypes
  <2>6. /\ host' \in [Crashes!HostNames -> Kept] /\ late \subseteq late'
        /\ host'[HostName[file]] = host[HostName[file]]
        /\ \A e \in copied' : e \in late' \/ host'[HostName[e]] = host[HostName[e]]
    <3>1. CASE UNCHANGED <<host, late>>
      BY <3>1 DEF ReportsTypes
    <3>2. CASE file \in DOMAIN CrashName /\ Crashes!Extracted
      <4>1. /\ file \in {"r", "r.synced"} /\ CrashName[file] = "t" /\ "t" \in Crashes!HostNames
        BY <3>2 DEF CrashName, Crashes!HostNames
      <4>2. HostName[file] = "r"
        BY <2>1, <4>1 DEF HostName
      <4>3. Crashes!Nowhere \in Kept
        BY DEF Crashes!Nowhere, Kept
      <4>4. /\ host' = [host EXCEPT !["t"] = Crashes!Nowhere]
            /\ late' = late \union {r \in copied' : HostName[r] = "t"}
        BY <3>2, <4>1 DEF Crashes!Extracted
      <4>5. host' \in [Crashes!HostNames -> Kept] /\ \A n \in Crashes!HostNames : n # "t" => host'[n] = host[n]
        BY <4>3, <4>4 DEF ReportsTypes
      <4>6. file \in Reports /\ copied' \subseteq Reports \union {"link"}
        BY <2>1 DEF ReportsTypes
      <4>7. HostName[file] \in Crashes!HostNames /\ \A e \in copied' : HostName[e] \in Crashes!HostNames
        BY <4>6 DEF Crashes!HostNames
      <4> QED
        BY <4>2, <4>4, <4>5, <4>7
    <3> QED
      BY <2>1, <3>1, <3>2
  <2>3. ReportsTypes'
    BY <1>1, <2>1, <2>2, <2>6 DEF ReportsTypes
  <2>4. file \notin {".", "dir"} /\ (device' # device => file \in copied') /\ copied \subseteq copied'
    BY <2>1, ReportsAssumption
  <2>5. Crashes!NothingGone'
    BY <1>1, <2>1, <2>4, <2>6, GoneStays
  <2> QED
    BY <1>2, <2>3, <2>5
<1>5. ASSUME NEW e \in Crashes!Entries, Crashes!RemoveAll(e), ~Crashes!Copied
      PROVE  ReportsInv'
  <2>1. /\ device' = device \/ device' = device \ {e}
        /\ copied' = copied /\ pc = "next" /\ e \in wanted /\ all /\ wanted \subseteq Reports
        /\ Crashes!Top.list # <<>> /\ Crashes!SetTop([Crashes!Top EXCEPT !.list = Tail(@)])
    BY <1>5 DEF Crashes!RemoveAll, Crashes!Entry, ReportsTypes
  <2>2. frames' \in Seq(Frame) /\ frames' # <<>>
    <3>1. Crashes!Top \in Frame /\ Tail(Crashes!Top.list) \in Seq(Crashes!Entries)
      BY <2>1, TopFacts
    <3>2. [Crashes!Top EXCEPT !.list = Tail(@)] \in Frame
      BY <3>1 DEF Frame
    <3> QED
      BY <2>1, <3>2, SetTopFacts DEF ReportsTypes
  <2>3. ReportsTypes'
    BY <1>1, <1>5, <1>6, <2>1, <2>2 DEF ReportsTypes
  <2>4. e \notin {".", "dir"}
    BY <2>1, ReportsAssumption
  <2>5. Crashes!NothingGone'
    BY <1>1, <1>5, <1>6, <2>1, <2>4, GoneStays
  <2> QED
    BY <1>2, <2>3, <2>5
<1> QED
  BY <1>3, <1>4, <1>5

LEMMA ReportsSteps == ReportsInv /\ Crashes!Next => ReportsInv'
BY ReportsWalks, ReportsLinks, ReportsOpens, ReportsReads, ReportsRemoves DEF Crashes!Next

LEMMA ReportsTrue == ReportsInv => Crashes!TypeOK /\ Crashes!NothingGone
BY DEF ReportsInv, ReportsTypes, Crashes!TypeOK

-----------------------------------------------------------------------------
(* afcclient *)

\* The directory is never deeper than the one the user means, so its length stays in bounds.
DirInv ==
  /\ curdir \in Seq({"n"}) /\ where \in Seq({"n"}) /\ curlen \in 0..Depth
  /\ Len(curdir) <= Len(where)
  /\ Shell!DirKept

ShellTypes ==
  /\ pc \in {"wait", "prompt", "next", "copy", "close", "end", "done"}
  /\ pos \in 0..Blocks /\ silent \subseteq Items /\ unflushed \subseteq Items
  /\ cmd \in [kind : {"none", "get", "put"}, recursive : BOOLEAN, force : BOOLEAN, dir : BOOLEAN]
  /\ todo \in Seq(Items) /\ dst \in [Items -> Seq({"new", "old"})]
  /\ pc = "copy" => item \in Items
  /\ pc \in {"next", "copy", "close", "end"} => cmd.kind # "none"

Ahead == {todo[k] : k \in 1..Len(todo)}
Finished(i) ==
  dst[i] = Shell!Whole \/ i \in silent \/ Shell!EndLost(i) \/ (cmd.kind = "put" /\ i \in longer /\ Shell!Begins(i))

\* The files that a copy has behind it are complete, and of the one it works on as many blocks
\* as were read; those ahead are as they were.
TransferInv ==
  pc \in {"next", "copy", "close", "end"} =>
    /\ ~succeed => said
    /\ \A j, k \in 1..Len(todo) : j # k => todo[j] # todo[k]
    /\ \A i \in Ahead : i # item /\ (Len(dst[i]) > Blocks => i \in longer)
    /\ ~said /\ ~(lost /\ cmd.kind = "put") =>
         /\ \A i \in Items \ Ahead : (cmd.dir \/ i = item) /\ ~(pc = "copy" /\ i = item) => Finished(i)
         /\ pc = "copy" => /\ pos <= Len(dst[item]) /\ \A b \in 1..pos : dst[item][b] = "new"
                           /\ Len(dst[item]) <= Blocks \/ (cmd.kind = "put" /\ item \in longer)
         /\ pc = "end" => Ahead = {}

ShellInv == DirInv /\ ShellTypes /\ TransferInv

LEMMA ShellStarts == Shell!Init => ShellInv
<1> SUFFICES ASSUME Shell!Init PROVE ShellInv
  OBVIOUS
<1>1. DirInv
  BY <<>> \in Seq({"n"}), ShellAssumption DEF Shell!Init, DirInv, Shell!DirKept
<1>2. ShellTypes
  <2>1. dst \in [Items -> Seq({"new", "old"})]
    BY <<>> \in Seq({"new", "old"}) DEF Shell!Init
  <2>2. todo \in Seq(Items)
    BY <<>> \in Seq(Items) DEF Shell!Init
  <2> QED
    BY <2>1, <2>2, ShellAssumption DEF Shell!Init, ShellTypes, Shell!NoCopy
<1>3. TransferInv
  BY DEF Shell!Init, TransferInv
<1> QED
  BY <1>1, <1>2, <1>3 DEF ShellInv

\* cd: the steps that change the directory.
LEMMA ParentFacts ==
  ASSUME NEW s \in Seq({"n"})
  PROVE  LET f == Shell!Parent(s) IN
           f \in Seq({"n"}) /\ Len(f) = IF Len(s) = 0 THEN 0 ELSE Len(s) - 1
BY DEF Shell!Parent

LEMMA DeeperFacts ==
  ASSUME NEW s \in Seq({"n"})
  PROVE  s \o <<"n">> \in Seq({"n"}) /\ Len(s \o <<"n">>) = Len(s) + 1
<1> DEFINE n == <<"n">>
           N == {"n"}
<1>1. n \in Seq(N) /\ Len(n) = 1 /\ s \in Seq(N)
  OBVIOUS
<1> HIDE DEF n, N
<1>2. s \o n \in Seq(N) /\ Len(s \o n) = Len(s) + Len(n)
  BY <1>1, ConcatProperties
<1>3. s \o n \in Seq(N) /\ Len(s \o n) = Len(s) + 1
  BY <1>1, <1>2
<1> QED
  BY <1>3 DEF n, N

LEMMA DirMoves == ASSUME DirInv, Shell!Up \/ Shell!Cd PROVE DirInv'
<1> USE DEF DirInv, Shell!DirKept
<1>1. Len(curdir) \in Nat /\ Len(where) \in Nat
  OBVIOUS
<1>2. CASE Shell!Up
  <2>1. /\ curdir' = Shell!Parent(curdir)
        /\ where' = Shell!Parent(where)
        /\ UNCHANGED <<curlen, astray>>
    BY <1>2 DEF Shell!Up
  <2>2. /\ curdir' \in Seq({"n"}) /\ Len(curdir') = IF Len(curdir) = 0 THEN 0 ELSE Len(curdir) - 1
        /\ where' \in Seq({"n"}) /\ Len(where') = IF Len(where) = 0 THEN 0 ELSE Len(where) - 1
    BY <2>1, ParentFacts
  <2>3. Len(curdir') <= Len(where') /\ Len(curdir') <= Len(curdir)
    BY <1>1, <2>2
  <2> QED
    BY <1>1, <2>1, <2>2, <2>3
<1>3. CASE UNCHANGED <<curdir, curlen, where, astray>>
  BY <1>3
<1>4. ASSUME NEW path \in {<<"n">>, <<"n", "..">>, <<"..", "n">>, <<"/", "n">>},
             Len(where) < Depth, Shell!Down(path), where' = Shell!Meant(path),
             astray' = (astray \/ Head(path) = ".."
                        \/ (Head(path) = "n" /\ Len(path) = 1 /\ Len(curdir) # curlen))
      PROVE  DirInv'
  <2> DEFINE n == <<"n">>
  <2>1. n \in Seq({"n"}) /\ Len(n) = 1
    OBVIOUS
  <2>2. \/ curdir' = n /\ where' = n
        \/ /\ curdir' = n /\ astray'
           /\ where' = Shell!Parent(where) \o n
        \/ curdir' = curdir /\ where' = where /\ (astray => astray')
        \/ curdir' = curdir /\ where' = where \o n /\ astray'
        \/ curdir' = curdir \o n /\ where' = where \o n /\ (astray => astray')
    <3>1. CASE path = <<"n">>
      <4>1. Head(path) = "n" /\ Len(path) = 1
        BY <3>1
      <4> QED
        BY <1>4, <3>1, <4>1 DEF Shell!Down, Shell!RealPath, Shell!Meant
    <3>2. CASE path = <<"n", "..">>
      <4>1. Head(path) = "n" /\ Len(path) = 2
        BY <3>2
      <4> QED
        BY <1>4, <4>1 DEF Shell!Down, Shell!RealPath, Shell!Meant
    <3>3. CASE path = <<"..", "n">>
      <4>1. Head(path) = ".." /\ Tail(path) = n
        BY <3>3
      <4> QED
        BY <1>4, <4>1 DEF Shell!Down, Shell!RealPath, Shell!Meant
    <3>4. CASE path = <<"/", "n">>
      <4>1. Head(path) = "/" /\ Tail(path) = n
        BY <3>4
      <4> QED
        BY <1>4, <4>1 DEF Shell!Down, Shell!RealPath, Shell!Meant
    <3> QED
      BY <1>4, <3>1, <3>2, <3>3, <3>4
  <2>3. curlen' = Len(curdir')
    BY <1>4 DEF Shell!Down
  <2> HIDE DEF n
  <2>4. \A s \in Seq({"n"}) : s \o n \in Seq({"n"}) /\ Len(s \o n) = Len(s) + 1
    BY <2>1, DeeperFacts DEF n
  <2>5. \/ Len(curdir') = 1 /\ Len(where') \in Nat \ {0}
        \/ Len(curdir') = Len(curdir) /\ Len(where') \in {Len(where), Len(where) + 1}
        \/ Len(curdir') = Len(curdir) + 1 /\ Len(where') = Len(where) + 1
    <3>1. PICK f : f = Shell!Parent(where)
      OBVIOUS
    <3>2. f \in Seq({"n"}) /\ Len(f) \in Nat
      BY <3>1, ParentFacts
    <3>3. Len(f \o n) \in Nat \ {0}
      BY <2>4, <3>2
    <3> QED
      BY <2>1, <2>2, <2>4, <3>1, <3>3
  <2>6. curdir' \in Seq({"n"}) /\ where' \in Seq({"n"})
    <3>1. PICK f : f = Shell!Parent(where)
      OBVIOUS
    <3>2. f \in Seq({"n"}) /\ f \o n \in Seq({"n"})
      BY <2>4, <3>1, ParentFacts
    <3> QED
      BY <2>1, <2>2, <2>4, <3>1, <3>2
  <2>7. Len(curdir') <= Len(where') /\ curlen' \in 0..Depth
    <3>1. /\ Len(curdir) \in Nat /\ Len(where) \in Nat /\ Len(curdir) <= Len(where)
          /\ Len(where) < Depth /\ Depth \in Nat
      BY <1>1, <1>4, ShellAssumption
    <3> QED
      <4>1. Len(curdir') \in Nat /\ Len(where') \in Nat
        BY <2>5, <3>1
      <4>2. Len(curdir') <= Len(where') /\ Len(curdir') <= Depth
        <5>1. CASE Len(curdir') = 1
          BY ONLY <3>1, <4>1, <5>1, <2>5
        <5>2. CASE Len(curdir') = Len(curdir) /\ Len(where') \in {Len(where), Len(where) + 1}
          BY ONLY <3>1, <5>2
        <5>3. CASE Len(curdir') = Len(curdir) + 1 /\ Len(where') = Len(where) + 1
          BY ONLY <3>1, <5>3
        <5> QED
          BY <2>5, <5>1, <5>2, <5>3
      <4> QED
        BY <2>3, <3>1, <4>1, <4>2
  <2>8. astray' \/ curdir' = where'
    <3>1. astray \/ curdir = where
      OBVIOUS
    <3>2. \/ curdir' = n /\ where' = n
          \/ astray'
          \/ curdir' = curdir /\ where' = where /\ (astray => astray')
          \/ curdir' = curdir \o n /\ where' = where \o n /\ (astray => astray')
      BY ONLY <2>2, Zenon
    <3>3. CASE curdir' = n /\ where' = n
      BY ONLY <3>3
    <3>4. CASE curdir' = curdir /\ where' = where /\ (astray => astray')
      BY ONLY <3>1, <3>4, Zenon
    <3>5. CASE curdir' = curdir \o n /\ where' = where \o n /\ (astray => astray')
      <4>1. CASE curdir = where
        BY ONLY <3>5, <4>1
      <4> QED
        BY <3>1, <3>5, <4>1, Zenon
    <3> QED
      BY ONLY <3>2, <3>3, <3>4, <3>5, Zenon
  <2> QED
    BY <2>3, <2>6, <2>7, <2>8
<1> QED
  BY <1>2, <1>3, <1>4 DEF Shell!Cd

\* The steps that no copy takes part in.
LEMMA ShellIdles ==
  ASSUME ShellInv,
         \/ Shell!Attached \/ Shell!Killed \/ Shell!Lose \/ Shell!Connect \/ Shell!Leave \/ Shell!Up
         \/ Shell!Cd \/ Shell!End
  PROVE  ShellInv'
<1> USE DEF ShellInv
<1>1. CASE Shell!End
  <2>1. UNCHANGED <<curdir, curlen, where, astray>> /\ Shell!Forget /\ pc' = "prompt"
    BY <1>1 DEF Shell!End, Shell!dirVars
  <2>2. /\ dst' = [i \in Items |-> <<>>] /\ todo' = <<>> /\ cmd' = Shell!NoCopy /\ pos' = 0 /\ silent' = {}
        /\ unflushed' = {}
    BY <2>1 DEF Shell!Forget
  <2>3. dst' \in [Items -> Seq({"new", "old"})] /\ todo' \in Seq(Items)
    BY <2>2, <<>> \in Seq({"new", "old"}), <<>> \in Seq(Items)
  <2> QED
    BY <2>1, <2>2, <2>3, ShellAssumption
    DEF DirInv, Shell!DirKept, ShellTypes, TransferInv, Shell!NoCopy
<1>2. CASE ~Shell!End
  <2>1. /\ UNCHANGED <<cmd, todo, item, dst, pos, succeed, said, silent, unflushed, longer>>
        /\ pc' = pc \/ pc' \in {"wait", "prompt", "done"}
        /\ lost' = lost \/ lost' = TRUE
    BY <1>2
    DEF Shell!Attached, Shell!Killed, Shell!Lose, Shell!Connect, Shell!Leave, Shell!Up, Shell!Cd,
        Shell!Command, Shell!copyVars
  <2>2. DirInv'
    <3>1. CASE Shell!Up \/ Shell!Cd
      BY <3>1, DirMoves
    <3>2. CASE UNCHANGED <<curdir, curlen, where, astray>>
      BY <3>2 DEF DirInv, Shell!DirKept
    <3> QED
      BY <1>2, <3>1, <3>2
      DEF Shell!Attached, Shell!Killed, Shell!Lose, Shell!Connect, Shell!Leave, Shell!dirVars
  <2>3. ShellTypes'
    BY <2>1 DEF ShellTypes
  <2>4. TransferInv'
    <3>1. Ahead' = Ahead /\ \A i : Finished(i)' <=> Finished(i)
      BY <2>1 DEF Ahead, Finished, Shell!Whole, Shell!EndLost, Shell!Begins
    <3> QED
      BY <2>1, <3>1 DEF TransferInv
  <2> QED
    BY <2>2, <2>3, <2>4
<1> QED
  BY <1>1, <1>2

\* The order in which the files of a directory are copied.
LEMMA ShellOrders ==
  ASSUME NEW S
  PROVE  Shell!Bijection(1..Shell!Cardinality(S), S) = Bijection(1..Cardinality(S), S)
BY DEF Shell!Cardinality, Cardinality, Shell!Bijection, Bijection, Shell!Injection, Injection,
       Shell!Surjection, Surjection, Shell!IsInjective, IsInjective

\* A copy begins with its files ahead of it.
LEMMA ShellAsks == ASSUME ShellInv, Shell!Get \/ Shell!Put PROVE ShellInv'
<1> USE DEF ShellInv
<1>1. PICK kind \in {"get", "put"} :
        /\ cmd' \in [kind : {kind}, recursive : BOOLEAN, force : BOOLEAN, dir : BOOLEAN]
        /\ dst' \in [Items -> Shell!Old]
        /\ longer' = {i \in Items : Len(dst'[i]) > Blocks}
        /\ item' = "none" /\ pos' = 0 /\ succeed' = TRUE /\ silent' = {} /\ unflushed' = {}
        /\ UNCHANGED <<curdir, curlen, where, astray, lost>>
        /\ Shell!TreeOf \/ Shell!NoTree
  BY DEF Shell!Get, Shell!Put, Shell!Asked, Shell!dirVars
<1>2. DirInv'
  BY <1>1 DEF DirInv, Shell!DirKept
<1>3. /\ todo' \in Seq(Items) /\ pc' \in {"next", "end"}
      /\ \A j, k \in 1..Len(todo') : j # k => todo'[j] # todo'[k]
      /\ ~said' => pc' = "next" /\ (cmd'.dir => Items \subseteq Ahead')
  <2>1. CASE Shell!NoTree
    BY <2>1, <<>> \in Seq(Items) DEF Shell!NoTree
  <2>2. CASE Shell!TreeOf /\ cmd'.dir
    <3>1. todo' \in Shell!Bijection(1..Shell!Cardinality(Items), Items) /\ pc' = "next"
      BY <2>2 DEF Shell!TreeOf, Shell!Tree
    <3>2. todo' \in Bijection(1..Cardinality(Items), Items)
      BY <3>1, ShellOrders
    <3>3. PICK q : q = todo'
      OBVIOUS
    <3>4. /\ q \in Seq(Items) /\ \A i, j \in 1..Len(q) : i # j => q[i] # q[j]
          /\ \A x \in Items : \E i \in 1..Len(q) : q[i] = x
      BY <3>2, <3>3, OrderFacts, ShellAssumption
    <3> QED
      BY <3>1, <3>3, <3>4 DEF Ahead
  <2>3. CASE Shell!TreeOf /\ ~cmd'.dir
    <3>1. PICK i \in Items : todo' = <<i>> /\ pc' = "next"
      BY <2>3 DEF Shell!TreeOf, Shell!Tree
    <3> QED
      BY <2>3, <3>1
  <2> QED
    BY <1>1, <2>1, <2>2, <2>3
<1>4. dst' \in [Items -> Seq({"new", "old"})]
  <2>1. Shell!Old \subseteq Seq({"new", "old"})
    <3>1. [b \in 1..(Blocks + 1) |-> "old"] \in Seq({"new", "old"})
      BY ShellAssumption
    <3>2. <<>> \in Seq({"new", "old"}) /\ <<"old">> \in Seq({"new", "old"})
      OBVIOUS
    <3> QED
      BY <3>1, <3>2 DEF Shell!Old
  <2> QED
    BY <1>1, <2>1
<1>5. ShellTypes'
  BY <1>1, <1>3, <1>4, ShellAssumption DEF ShellTypes
<1>6. TransferInv'
  <2>1. \A i \in Ahead' : i \in Items
    BY <1>3 DEF Ahead
  <2>2. "none" \notin Items
    BY ShellAssumption
  <2> QED
    BY <1>1, <1>3, <2>1, <2>2 DEF TransferInv
<1> QED
  BY <1>2, <1>5, <1>6

\* A file is opened on both sides, or not.
LEMMA ShellOpens == ASSUME ShellInv, Shell!Open PROVE ShellInv'
<1> USE DEF ShellInv
<1>1. /\ UNCHANGED <<curdir, curlen, where, astray, cmd, lost, unflushed, longer>>
      /\ pc = "next" /\ todo # <<>>
      /\ item' = Head(todo) /\ todo' = Tail(todo) /\ pos' = 0 /\ pc' \in {"copy", "close"}
      /\ \/ pc' = "copy" /\ succeed' = TRUE /\ Shell!Cut(item') /\ UNCHANGED <<said, silent>>
         \/ pc' = "close" /\ succeed' = FALSE /\ said' = TRUE /\ UNCHANGED <<dst, silent>>
         \/ pc' = "close" /\ succeed' = TRUE /\ silent' = silent \union {item'} /\ UNCHANGED <<said, dst>>
  BY DEF Shell!Open, Shell!dirVars
<1>2. /\ todo \in Seq(Items) /\ Len(todo) \in Nat \ {0} /\ item' = todo[1] /\ item' \in Items
      /\ todo' \in Seq(Items) /\ Len(todo') = Len(todo) - 1
      /\ \A k \in 1..Len(todo') : todo'[k] = todo[k + 1]
  BY <1>1, HeadTailFacts DEF ShellTypes
<1>3. /\ \A j, k \in 1..Len(todo') : j # k => todo'[j] # todo'[k]
      /\ Ahead = Ahead' \union {item'} /\ item' \notin Ahead'
  <2>1. \A j, k \in 1..Len(todo) : j # k => todo[j] # todo[k]
    BY <1>1 DEF TransferInv
  <2>2. \A k \in 1..Len(todo') : k + 1 \in 1..Len(todo) /\ k + 1 # 1
    BY <1>2
  <2>3. \A j, k \in 1..Len(todo') : j # k => todo'[j] # todo'[k]
    BY <1>2, <2>1, <2>2
  <2>4. item' \notin Ahead'
    BY <1>2, <2>1, <2>2 DEF Ahead
  <2>5. \A i \in Ahead' \union {item'} : i \in Ahead
    BY <1>2, <2>2 DEF Ahead
  <2>6. ASSUME NEW k \in 1..Len(todo) PROVE todo[k] \in Ahead' \union {item'}
    <3>1. k = 1 \/ (k - 1 \in 1..Len(todo') /\ (k - 1) + 1 = k)
      BY <1>2
    <3> QED
      BY <1>2, <3>1 DEF Ahead
  <2> QED
    BY <2>3, <2>4, <2>5, <2>6 DEF Ahead
<1>4. /\ dst' \in [Items -> Seq({"new", "old"})]
      /\ \A i \in Items : i # item' => dst'[i] = dst[i]
      /\ dst'[item'] = dst[item'] \/ dst'[item'] = <<>>
  <2>1. dst' = dst \/ dst' = [dst EXCEPT ![item'] = <<>>]
    BY <1>1 DEF Shell!Cut
  <2> QED
    <3>1. <<>> \in Seq({"new", "old"}) /\ dst \in [Items -> Seq({"new", "old"})]
      BY DEF ShellTypes
    <3> QED
      BY ONLY <1>2, <2>1, <3>1
<1>5. DirInv'
  BY <1>1 DEF DirInv, Shell!DirKept
<1>6. ShellTypes'
  BY <1>1, <1>2, <1>4, ShellAssumption DEF ShellTypes
<1>7. TransferInv'
  <2>1. ~succeed' => said'
    BY <1>1
  <2>2. \A i \in Ahead' : i # item' /\ i \in Items /\ (Len(dst'[i]) > Blocks => i \in longer)
    <3>1. \A i \in Ahead' : i \in Ahead /\ i \in Items
      BY <1>2, <1>3 DEF Ahead
    <3> QED
      BY <1>1, <1>3, <1>4, <3>1 DEF TransferInv
  <2>3. ASSUME ~said', ~(lost /\ cmd.kind = "put")
        PROVE  /\ \A i \in Items \ Ahead' :
                    (cmd.dir \/ i = item') /\ ~(pc' = "copy" /\ i = item') => Finished(i)'
               /\ pc' = "copy" => \/ cmd.kind = "put" /\ item' \in longer
                                  \/ Len(dst'[item']) <= Blocks
    <3>1. ~said /\ silent \subseteq silent' /\ (pc' = "close" => item' \in silent')
      BY <1>1, <2>3
    <3>2. ASSUME NEW i \in Items \ Ahead', i # item', cmd.dir PROVE Finished(i)'
      <4>1. Finished(i)
        BY <1>1, <1>3, <2>3, <3>1, <3>2 DEF TransferInv
      <4> QED
        BY <1>1, <1>4, <3>1, <3>2, <4>1 DEF Finished, Shell!Whole, Shell!EndLost, Shell!Begins
    <3>3. \A i \in silent' : Finished(i)'
      BY DEF Finished
    <3>4. pc' = "copy" => \/ cmd.kind = "put" /\ item' \in longer
                          \/ Len(dst'[item']) <= Blocks
      <4>1. CASE cmd.kind = "get" /\ pc' = "copy"
        <5>1. dst' = [dst EXCEPT ![item'] = <<>>]
          BY <1>1, <4>1 DEF Shell!Cut
        <5> QED
          BY <1>2, <5>1, ShellAssumption DEF ShellTypes
      <4>2. CASE cmd.kind # "get"
        <5>1. /\ Len(dst[item']) > Blocks => item' \in longer
              /\ Len(dst[item']) \in Nat
          BY <1>1, <1>2, <1>3 DEF TransferInv, ShellTypes
        <5>2. pc' = "copy" => dst'[item'] = dst[item']
          BY <1>1, <4>2 DEF Shell!Cut
        <5>3. cmd.kind = "put"
          BY <1>1, <4>2 DEF ShellTypes
        <5> QED
          BY <5>1, <5>2, <5>3, ShellAssumption
      <4> QED
        BY <4>1, <4>2
    <3> QED
      BY <1>1, <3>1, <3>2, <3>3, <3>4
  <2>4. Len(dst'[item']) \in Nat
    BY <1>2, <1>4
  <2> QED
    BY <1>1, <1>3, <2>1, <2>2, <2>3, <2>4 DEF TransferInv
<1> QED
  BY <1>5, <1>6, <1>7

\* A block more, or one that the copy does without.
LEMMA WriteFacts ==
  ASSUME NEW s \in Seq({"new", "old"}), NEW p \in Nat, p <= Len(s)
  PROVE  LET w == Shell!Write(s, p + 1) IN
           /\ w \in Seq({"new", "old"}) /\ Len(w) = IF p = Len(s) THEN Len(s) + 1 ELSE Len(s)
           /\ w[p + 1] = "new" /\ \A b \in 1..p : w[b] = s[b]
<1>1. Len(s) \in Nat
  OBVIOUS
<1>2. CASE p = Len(s)
  <2>1. Shell!Write(s, p + 1) = Append(s, "new")
    BY <1>1, <1>2 DEF Shell!Write
  <2> QED
    BY <1>2, <2>1, AppendFacts
<1>3. CASE p # Len(s)
  <2>1. Shell!Write(s, p + 1) = [s EXCEPT ![p + 1] = "new"] /\ p + 1 \in 1..Len(s)
    BY <1>1, <1>3 DEF Shell!Write
  <2> QED
    BY <1>3, <2>1
<1> QED
  BY <1>2, <1>3

LEMMA ShellCopies ==
  ASSUME ShellInv, Shell!Block \/ Shell!HostFull \/ Shell!Vanished
  PROVE  ShellInv'
<1> USE DEF ShellInv
<1>1. /\ UNCHANGED <<curdir, curlen, where, astray, cmd, todo, item, lost, silent, unflushed, longer>>
      /\ pc = "copy" /\ item \in Items /\ pc' = "copy"
      /\ ~succeed' => said'
      /\ said => said'
      /\ pos' = pos + 1 /\ pos < Blocks
  BY DEF Shell!Block, Shell!HostFull, Shell!Vanished, Shell!dirVars, ShellTypes, TransferInv
<1>2. Ahead' = Ahead /\ item \notin Ahead
  BY <1>1 DEF Ahead, TransferInv
<1>3. pos' \in 0..Blocks /\ pos \in 0..Blocks
  BY <1>1, ShellAssumption DEF ShellTypes
<1>4. DirInv'
  BY <1>1 DEF DirInv, Shell!DirKept
<1>5. CASE ~Shell!Block
  <2>1. UNCHANGED dst /\ (said' \/ (lost /\ cmd.kind = "put"))
    BY <1>5 DEF Shell!HostFull, Shell!Vanished
  <2>2. ShellTypes'
    BY <1>1, <1>3, <2>1 DEF ShellTypes
  <2>3. TransferInv'
    BY <1>1, <1>2, <2>1 DEF TransferInv
  <2> QED
    BY <1>4, <2>2, <2>3
<1>6. CASE Shell!Block
  <2> DEFINE w == Shell!Write(dst[item], pos + 1)
  <2>1. ~lost /\ UNCHANGED <<said, succeed>> /\ dst' = [dst EXCEPT ![item] = w]
    BY <1>6 DEF Shell!Block
  <2>2. dst \in [Items -> Seq({"new", "old"})] /\ dst[item] \in Seq({"new", "old"}) /\ item \in Items
    BY <1>1 DEF ShellTypes
  <2>3. w \in Seq({"new", "old"})
    <3>1. CASE pos + 1 > Len(dst[item])
      BY <2>2, <3>1 DEF Shell!Write
    <3>2. CASE ~(pos + 1 > Len(dst[item]))
      <4>1. w = [dst[item] EXCEPT ![pos + 1] = "new"]
        BY <3>2 DEF Shell!Write
      <4> QED
        BY <2>2, <4>1
    <3> QED
      BY <3>1, <3>2
  <2>4. ASSUME pos <= Len(dst[item])
        PROVE  /\ Len(w) = IF pos = Len(dst[item]) THEN Len(dst[item]) + 1 ELSE Len(dst[item])
               /\ w[pos + 1] = "new" /\ \A b \in 1..pos : w[b] = dst[item][b]
    BY <1>3, <2>2, <2>4, WriteFacts
  <2> HIDE DEF w
  <2>5. /\ dst' \in [Items -> Seq({"new", "old"})] /\ dst'[item] = w
        /\ \A i \in Items : i # item => dst'[i] = dst[i]
    BY <2>1, <2>2, <2>3
  <2>6. ShellTypes'
    BY <1>1, <1>3, <2>1, <2>5 DEF ShellTypes
  <2>7. TransferInv'
    <3>1. \A i \in Ahead' : i # item' /\ (Len(dst'[i]) > Blocks => i \in longer)
      <4>1. Ahead \subseteq Items
        BY DEF Ahead, ShellTypes
      <4> QED
        BY <1>1, <1>2, <2>5, <4>1 DEF TransferInv
    <3>2. ASSUME ~said
          PROVE  /\ \A i \in Items \ Ahead : (cmd.dir \/ i = item) /\ i # item => Finished(i)'
                 /\ pos' <= Len(dst'[item]) /\ \A b \in 1..pos' : dst'[item][b] = "new"
                 /\ Len(dst'[item]) <= Blocks \/ (cmd.kind = "put" /\ item \in longer)
      <4>1. \A i \in Items \ Ahead : (cmd.dir \/ i = item) /\ i # item => Finished(i)'
        BY <1>1, <2>1, <2>5, <3>2 DEF TransferInv, Finished, Shell!Whole, Shell!EndLost, Shell!Begins
      <4>2. /\ pos <= Len(dst[item]) /\ \A b \in 1..pos : dst[item][b] = "new"
            /\ Len(dst[item]) <= Blocks \/ (cmd.kind = "put" /\ item \in longer)
        BY <1>1, <2>1, <3>2 DEF TransferInv
      <4>3. Len(dst[item]) \in Nat /\ Blocks \in Nat
        BY <2>2, ShellAssumption
      <4>4. /\ pos' <= Len(dst'[item])
            /\ Len(dst'[item]) <= Blocks \/ (cmd.kind = "put" /\ item \in longer)
        BY <1>1, <1>3, <2>4, <2>5, <4>2, <4>3
      <4>5. \A b \in 1..pos' : b \in 1..pos \/ b = pos + 1
        BY <1>1, <1>3
      <4> QED
        BY <2>4, <2>5, <4>1, <4>2, <4>4, <4>5
    <3> QED
      BY <1>1, <1>2, <2>1, <3>1, <3>2 DEF TransferInv
  <2> QED
    BY <1>4, <2>6, <2>7
<1> QED
  BY <1>5, <1>6

\* What fclose leaves of a file.
LEMMA FrontFacts ==
  ASSUME NEW s \in Seq({"new", "old"}), s # <<>>
  PROVE  LET f == SubSeq(s, 1, Len(s) - 1) IN
           f \in Seq({"new", "old"}) /\ Len(f) = Len(s) - 1 /\ \A b \in 1..Len(f) : f[b] = s[b]
<1> DEFINE f == SubSeq(s, 1, Len(s) - 1)
<1>1. Len(s) \in Nat \ {0} /\ \A b \in 1..Len(s) : s[b] \in {"new", "old"}
  OBVIOUS
<1>2. 1 + Len(s) - 1 - 1 = Len(s) - 1 /\ Len(s) - 1 \in Nat /\ \A b \in 1..(Len(s) - 1) : b \in 1..Len(s)
  BY ONLY <1>1
<1>3. f = [b \in 1..(Len(s) - 1) |-> s[b]]
  BY <1>1, <1>2
<1> HIDE DEF f
<1>4. f \in Seq({"new", "old"}) /\ Len(f) = Len(s) - 1 /\ \A b \in 1..Len(f) : f[b] = s[b]
  BY ONLY <1>1, <1>2, <1>3
<1> QED
  BY <1>4 DEF f

\* The end of a file, with an error or without.
LEMMA ShellEndsFile == ASSUME ShellInv, Shell!Broken \/ Shell!EndOfFile PROVE ShellInv'
<1> USE DEF ShellInv
<1>1. /\ UNCHANGED <<curdir, curlen, where, astray, cmd, todo, item, pos, lost, silent, longer>>
      /\ pc = "copy" /\ item \in Items /\ pc' = "close" /\ Shell!Fclose
      /\ ~succeed' => said'
      /\ said => said'
      /\ ~said' => pos = Blocks
  BY DEF Shell!Broken, Shell!EndOfFile, Shell!dirVars, ShellTypes, TransferInv
<1>2. Ahead' = Ahead /\ item \notin Ahead /\ Ahead \subseteq Items
  BY <1>1 DEF Ahead, TransferInv, ShellTypes
<1>3. /\ dst \in [Items -> Seq({"new", "old"})] /\ dst[item] \in Seq({"new", "old"})
      /\ Len(dst[item]) \in Nat /\ Blocks \in Nat
  BY <1>1, ShellAssumption DEF ShellTypes
<1>4. \/ UNCHANGED <<dst, unflushed>>
      \/ /\ cmd.kind = "get" /\ dst[item] # <<>> /\ unflushed' = unflushed \union {item}
         /\ dst' = [dst EXCEPT ![item] = SubSeq(dst[item], 1, Len(dst[item]) - 1)]
  BY <1>1 DEF Shell!Fclose
<1>5. /\ dst' \in [Items -> Seq({"new", "old"})] /\ \A i \in Items : i # item => dst'[i] = dst[i]
      /\ unflushed \subseteq unflushed' /\ unflushed' \subseteq Items
  <2>1. unflushed \subseteq Items
    BY DEF ShellTypes
  <2> QED
    BY <1>1, <1>3, <1>4, <2>1, FrontFacts
<1>6. DirInv'
  BY <1>1 DEF DirInv, Shell!DirKept
<1>7. ShellTypes'
  BY <1>1, <1>5 DEF ShellTypes
<1>8. ASSUME ~said', ~(lost /\ cmd.kind = "put"), NEW i \in Items, i = item PROVE Finished(i)'
  <2>1. /\ pos = Blocks /\ pos <= Len(dst[item]) /\ \A b \in 1..pos : dst[item][b] = "new"
        /\ Len(dst[item]) <= Blocks \/ (cmd.kind = "put" /\ item \in longer)
    BY <1>1, <1>8 DEF TransferInv
  <2>2. PICK d : d = dst[item]
    OBVIOUS
  <2>3. d \in Seq({"new", "old"}) /\ Len(d) \in Nat /\ Blocks <= Len(d) /\ \A b \in 1..Blocks : d[b] = "new"
    BY <1>3, <2>1, <2>2
  <2>4. CASE UNCHANGED <<dst, unflushed>> /\ Len(d) <= Blocks
    <3>1. Len(d) = Blocks
      BY <1>3, <2>3, <2>4
    <3>2. d = [b \in 1..Blocks |-> "new"]
      BY ONLY <2>3, <3>1
    <3> QED
      BY <1>1, <1>8, <2>2, <2>4, <3>2 DEF Finished, Shell!Whole
  <2>5. CASE UNCHANGED <<dst, unflushed>> /\ ~(Len(d) <= Blocks)
    <3>1. cmd.kind = "put" /\ item \in longer
      BY <2>1, <2>2, <2>5
    <3>2. \A b \in 1..Blocks : b <= Len(d) /\ d[b] = "new"
      BY <1>3, <2>3
    <3> QED
      BY <1>1, <1>8, <2>2, <2>5, <3>1, <3>2 DEF Finished, Shell!Begins
  <2>6. CASE ~UNCHANGED <<dst, unflushed>>
    <3> DEFINE f == SubSeq(d, 1, Len(d) - 1)
    <3>1. cmd.kind = "get" /\ d # <<>> /\ item \in unflushed' /\ dst'[item] = f
      BY <1>1, <1>3, <1>4, <2>2, <2>6
    <3>2. f \in Seq({"new", "old"}) /\ Len(f) = Len(d) - 1 /\ \A b \in 1..Len(f) : f[b] = d[b]
      BY <2>3, <3>1, FrontFacts
    <3> HIDE DEF f
    <3>3. Len(d) = Blocks
      <4>1. Len(d) <= Blocks
        BY <2>1, <2>2, <3>1
      <4> QED
        BY <1>3, <2>3, <4>1
    <3>4. f = [b \in 1..(Blocks - 1) |-> "new"]
      <4>1. \A b \in 1..(Blocks - 1) : b \in 1..Blocks
        BY ONLY <1>3
      <4>2. f \in Seq({"new", "old"}) /\ Len(f) = Blocks - 1 /\ \A b \in 1..(Blocks - 1) : f[b] = "new"
        BY ONLY <2>3, <3>2, <3>3, <4>1
      <4> QED
        BY ONLY <4>2
    <3>5. Shell!EndLost(i)'
      BY <1>8, <3>1, <3>4 DEF Shell!EndLost
    <3> QED
      BY <3>5 DEF Finished
  <2> QED
    BY <2>4, <2>5, <2>6
<1>9. TransferInv'
  <2>1. \A i \in Ahead' : i # item' /\ (Len(dst'[i]) > Blocks => i \in longer)
    BY <1>1, <1>2, <1>5 DEF TransferInv
  <2>2. ASSUME ~said', ~(lost /\ cmd.kind = "put"), NEW i \in Items \ Ahead, cmd.dir \/ i = item
        PROVE  Finished(i)'
    <3>1. CASE i = item
      BY <1>8, <2>2, <3>1
    <3>2. CASE i # item
      <4>1. ~said /\ i # item /\ (cmd.dir \/ i = item)
        BY <1>1, <2>2, <3>2
      <4>2. Finished(i)
        BY <1>1, <2>2, <4>1 DEF TransferInv
      <4>3. dst'[i] = dst[i]
        BY <1>5, <3>2
      <4>4. Shell!EndLost(i) => Shell!EndLost(i)'
        BY <1>5, <4>3 DEF Shell!EndLost
      <4>5. Shell!Begins(i) => Shell!Begins(i)'
        BY <4>3 DEF Shell!Begins
      <4> QED
        BY <1>1, <4>2, <4>3, <4>4, <4>5 DEF Finished, Shell!Whole
    <3> QED
      BY <3>1, <3>2
  <2> QED
    BY <1>1, <1>2, <2>1, <2>2 DEF TransferInv
<1> QED
  BY <1>6, <1>7, <1>9

\* A file is behind the copy, or the whole of it.
LEMMA ShellCloses == ASSUME ShellInv, Shell!Close PROVE ShellInv'
<1> USE DEF ShellInv
<1>1. /\ UNCHANGED <<curdir, curlen, where, astray, cmd, todo, item, dst, pos, succeed, said, lost>>
      /\ UNCHANGED <<silent, unflushed, longer>>
      /\ \/ pc = "close" /\ pc' = IF succeed THEN "next" ELSE "end"
         \/ pc = "next" /\ todo = <<>> /\ pc' = "end"
  BY DEF Shell!Close, Shell!dirVars, Shell!copyVars
<1>2. DirInv'
  BY <1>1 DEF DirInv, Shell!DirKept
<1>3. ShellTypes'
  BY <1>1 DEF ShellTypes
<1>4. Ahead' = Ahead /\ (\A i : Finished(i)' <=> Finished(i)) /\ (todo = <<>> => Ahead = {})
  BY <1>1 DEF Ahead, Finished, Shell!Whole, Shell!EndLost, Shell!Begins
<1>5. TransferInv'
  BY <1>1, <1>4 DEF TransferInv
<1> QED
  BY <1>2, <1>3, <1>5

LEMMA ShellSteps == ShellInv /\ Shell!Next => ShellInv'
BY ShellIdles, ShellAsks, ShellOpens, ShellCopies, ShellEndsFile, ShellCloses DEF Shell!Next

LEMMA ShellTrue == ShellInv => Shell!TypeOK /\ Shell!CopyTold /\ Shell!DirKept
BY DEF ShellInv, DirInv, ShellTypes, TransferInv, Finished, Shell!TypeOK, Shell!CopyTold

-----------------------------------------------------------------------------
(* idevicebackup *)

\* The steps at which the tool may have the lock.
OneWork == {"request", "status0", "ask", "loop", "out", "store", "report", "ask2", "files", "apps", "complete",
            "unlock"}

BeforeLock == {"args", "connect", "info", "hello", "checkpoint", "open"}

\* The lock is asked for with an open lock file only, and kept while the device is there.
LockKept(work) ==
  /\ lockfile => pc \in work \union {"lock"}
  /\ holder = "tool" => lockfile /\ pc \in work
  /\ (lockfile /\ conn = "open" /\ pc \in work) => holder = "tool"
  /\ (pc = "lock" /\ tries < LockAttempts) => lockfile
  /\ pc \in BeforeLock => tries = 0

OneLoop == {"loop", "out", "store"}
OneRestore == {"ask2", "files", "apps", "complete"}
OneEnd == {"unlock", "free", "done"}

\* Where the tool is, and what that says of the rest.
OnePhase ==
  /\ pc \in {"args", "connect", "info", "open", "lock", "free", "done"} \union OneWork
  /\ cmd \in {"backup", "restore", "leave"} /\ dev \in {"idle", "ack", "restore", "over"}
  /\ stat \in {One!Absent, 0, 1} /\ infoplist \in {"none", "mine", "other", "broken"}
  /\ outcome \in {"none", "success", "failed"}
  /\ pc \in {"open", "lock", "status0", "ask", "report"} \union OneLoop => cmd \in {"backup", "leave"}
  /\ pc \in {"open", "status0", "ask", "report"} \union OneLoop => cmd = "backup"
  /\ pc \in OneRestore => cmd = "restore"
  /\ outcome # "none" => pc \in OneEnd
  /\ pc \notin OneLoop \union {"report"} => inbox = <<>>
  /\ pc \notin OneLoop \union OneEnd \union {"report"} => ~hunk

\* A content is the number of a run up to this one.
OneSets ==
  /\ run \in 1..MaxRuns /\ apps \in 0..Apps
  /\ phone \in [Files -> 0..run] /\ data \in [Files -> -2..run] /\ base \in [Files -> 0..run]
  /\ manifest = One!NoManifest \/ manifest \in [Files -> 0..run]
  /\ restored \in [Files -> -2..run] /\ acked \subseteq Files /\ left \subseteq Files /\ info \subseteq Files

OneFlags == full \in BOOLEAN /\ hunk \in BOOLEAN /\ ok \in BOOLEAN /\ local \in BOOLEAN /\ stale \in BOOLEAN

OneTypes == One!LockTypeOK /\ OnePhase /\ OneSets /\ OneFlags /\ Len(inbox) <= 2

Complete(f) == data[f] = phone[f] /\ f \in info
\* the phone will not send it again to a tool that has this manifest
Current(m, f) == m[f] = phone[f] /\ phone[f] # One!Gone

\* What a manifest says is on the phone unchanged, is in the directory: a later backup that
\* begins with this manifest will not get it.
ManifestInv ==
  (~local /\ ~stale /\ manifest # One!NoManifest) => \A f \in Files : Current(manifest, f) => Complete(f)

\* a file of which the phone may be sending the content
Due(f) == f \in One!Listed(phone) \ acked /\ phone[f] # base[f]
OneSent ==
  \/ inbox = <<>>
  \/ ~hunk /\ \E f \in Files : Due(f) /\ inbox \in {<<One!FileHunk("hunk", f)>>,
                                                    <<One!FileHunk("hunk", f), One!FileHunk("last", f)>>}
  \/ \E f \in Files : /\ Due(f) /\ inbox = <<One!FileHunk("last", f)>>
                      /\ (hunk /\ ~local) => data[f] = One!Half
  \/ ~hunk /\ inbox = <<[kind |-> "manifest",
                         list |-> [g \in Files |-> IF g \in acked THEN phone[g] ELSE base[g]]]>>
  \/ /\ inbox = <<[kind |-> "finished", list |-> phone,
                   deleted |-> One!Listed(base) \ One!Listed(phone)]>>
     /\ \A f \in One!Listed(phone) : phone[f] = base[f] \/ f \in acked
  \/ inbox = <<[kind |-> "other"]>>

\* While a backup runs: what the tool has acknowledged is complete, and so is what the phone
\* does not send because of the manifest it was given.
LoopInv ==
  pc \in OneLoop =>
    /\ OneSent
    /\ dev = "idle" => inbox = <<>> /\ ~hunk
    /\ pc = "store" => inbox # <<>> /\ Head(inbox).kind = "finished"
    /\ full => base = One!Empty
    /\ ~local => \A f \in acked : Complete(f)
    /\ (~local /\ ~stale) => \A f \in Files : Current(base, f) => Complete(f)
    /\ (~stale /\ manifest # One!NoManifest) =>
         \A f \in Files : Current(manifest, f) => f \in acked \/ base[f] = phone[f]

\* Status.plist says success only before and after.
StatusInv ==
  /\ (pc \in {"ask", "report"} \union OneLoop) => stat # 1 \/ local
  /\ pc \in {"status0", "ask"} => IF full THEN stale \/ manifest = One!NoManifest ELSE manifest # One!NoManifest
  /\ (pc = "report" /\ ok /\ ~local /\ ~stale) => One!Whole
  /\ One!StatusTrue
  /\ pc \in BeforeLock \union {"lock", "request", "status0", "ask"} \union OneLoop => ~ok

\* A restore sends what the manifest lists, as it was when it was verified.
RestoreInv ==
  /\ pc \notin {"files", "apps", "complete"} \union OneEnd => restored = One!Empty
  /\ pc \in OneRestore => stat = 1 /\ manifest \in [Files -> 0..run]
  /\ pc \in {"ask2", "files"} =>
       /\ left \subseteq One!Listed(manifest) /\ (pc = "ask2" => left = One!Listed(manifest))
       /\ \A f \in Hashed \intersect left : data[f] \in {manifest[f], One!Absent}
  /\ (pc = "files" /\ ~local /\ ~stale) => \A f \in One!Listed(manifest) \ left : restored[f] = manifest[f]
  /\ (pc \in {"apps", "complete"} /\ ok /\ ~local /\ ~stale) =>
       \A f \in One!Listed(manifest) : restored[f] = manifest[f]
  /\ (pc = "complete" /\ ok) => apps = Apps
  /\ One!RestoreTrue

OneInv == LockKept(OneWork) /\ OneTypes /\ ManifestInv /\ LoopInv /\ StatusInv /\ RestoreInv

LEMMA OneStarts == One!Init => OneInv
<1> SUFFICES ASSUME One!Init PROVE OneInv
  OBVIOUS
<1> USE DEF One!Init, One!LockInit
<1>1. LockKept(OneWork)
  BY BackupsAssumption DEF LockKept, OneWork, BeforeLock
<1>2. OneTypes
  <2>1. /\ run = 1 /\ MaxRuns \in Nat /\ 1 <= MaxRuns /\ phone \in [Files -> 0..1] /\ base \in [Files -> 0..1]
        /\ restored \in [Files -> -2..1] /\ Apps \in Nat /\ LockAttempts \in Nat
    BY BackupsAssumption DEF One!Empty, One!Gone
  <2>2. /\ data \in [Files -> -2..1] /\ (manifest = One!NoManifest \/ manifest \in [Files -> 0..1])
        /\ info \subseteq Files /\ stat \in {One!Absent, 0, 1}
        /\ infoplist \in {"none", "mine", "other", "broken"}
    BY <2>1 DEF One!Absent
  <2>3. OneSets
    BY <2>1, <2>2 DEF OneSets
  <2>4. One!LockTypeOK
    <3>1. lockfile \in BOOLEAN /\ quit \in BOOLEAN
      OBVIOUS
    <3>2. holder = "none" /\ tries \in 0..LockAttempts /\ conn = "open"
      BY BackupsAssumption
    <3>3. posted \subseteq {"willStart", "lockRequest", "didStart", "didFinish"}
      OBVIOUS
    <3> QED
      BY ONLY <3>1, <3>2, <3>3 DEF One!LockTypeOK
  <2>5. OneFlags
    BY DEF OneFlags
  <2>6. OnePhase
    BY <2>2 DEF OnePhase, OneWork, OneLoop, OneRestore, OneEnd
  <2> QED
    BY <2>3, <2>4, <2>5, <2>6 DEF OneTypes
<1>3. ManifestInv
  BY DEF ManifestInv, Current, Complete, One!NoManifest, One!Gone
<1>4. LoopInv
  BY DEF LoopInv, OneLoop
<1>5. One!StatusTrue
  BY BackupsAssumption
  DEF One!StatusTrue, One!StatusSays, One!Whole, One!Listed, One!NoManifest, One!Absent, One!Gone
<1>6. StatusInv
  BY <1>5 DEF StatusInv, OneLoop, One!Absent
<1>7. RestoreInv
  BY BackupsAssumption DEF RestoreInv, OneRestore, OneEnd, One!RestoreTrue, One!Empty, One!Gone
<1> QED
  BY <1>1, <1>2, <1>3, <1>4, <1>6, <1>7 DEF OneInv

\* Steps of the tool that have nothing to do with the lock.
OneGoes ==
  \/ pc' = pc
  \/ pc \notin OneWork \union {"lock"} /\ pc' # "lock" /\ (pc' \in BeforeLock => pc \in BeforeLock)
  \/ pc \in OneWork /\ pc' \in OneWork

LEMMA OneKeeps ==
  ASSUME One!Next, ~One!Lock, ~One!Finish, ~One!Crash, ~One!Again, ~One!DeviceLost, ~One!World
  PROVE  UNCHANGED <<lockfile, holder, tries, posted, quit, conn>> /\ OneGoes
<1> USE DEF OneGoes, OneWork, BeforeLock, One!lockVars, One!frame, One!Message, One!Heard
<1>1. CASE One!Args \/ One!Connect \/ One!CheckInfo \/ One!Leave \/ One!Free
  BY <1>1 DEF One!Args, One!Connect, One!CheckInfo, One!Leave, One!Free
<1>2. CASE One!ReadManifest \/ One!StatusFailed
  BY <1>2 DEF One!ReadManifest, One!StatusFailed, One!Write, One!WriteStatus
<1>3. CASE One!RequestBackup
  BY <1>3 DEF One!RequestBackup
<1>4. CASE One!ReceiveHunk \/ One!ReceiveLastHunk
  BY <1>4 DEF One!ReceiveHunk, One!ReceiveLastHunk
<1>5. CASE One!ReceiveManifest \/ One!ReceiveNothing
  BY <1>5 DEF One!ReceiveManifest, One!ReceiveNothing
<1>6. CASE One!FilesOut \/ One!ReceiveEnd
  BY <1>6 DEF One!FilesOut, One!ReceiveEnd
<1>7. CASE One!StoreManifest \/ One!Report
  BY <1>7 DEF One!StoreManifest, One!Report
<1>8. CASE One!Verify
  <2>1. pc = "request" /\ pc' \in {"ask2", "unlock"}
    BY <1>8 DEF One!Verify
  <2>2. UNCHANGED One!frame
    BY <1>8 DEF One!Verify
  <2> QED
    BY <2>1, <2>2
<1>11. CASE One!RequestRestore
  BY <1>11 DEF One!RequestRestore
<1>9. CASE One!RestoreFile \/ One!RestoreApps \/ One!Complete
  BY <1>9 DEF One!RestoreFile, One!RestoreApps, One!Complete
<1>10. CASE One!SendsNext \/ One!LocalChange
  BY <1>10 DEF One!SendsNext, One!LocalChange
<1> QED
  BY <1>1, <1>2, <1>3, <1>4, <1>5, <1>6, <1>7, <1>8, <1>9, <1>10, <1>11 DEF One!Next, One!Tool

\* The lock changes only at its own steps.
LEMMA OneLocks == OneInv /\ One!Next => LockKept(OneWork)'
<1> SUFFICES ASSUME LockKept(OneWork), OneTypes, One!Next PROVE LockKept(OneWork)'
  BY DEF OneInv
<1> USE DEF LockKept, OneWork, BeforeLock, One!lockVars, One!frame
<1> LockAttempts \in Nat \ {0} /\ conn \in {"open", "lost"} /\ tries \in 0..LockAttempts
  BY BackupsAssumption DEF OneTypes, One!LockTypeOK
<1>1. CASE One!Lock
  BY <1>1 DEF One!Lock, One!OpenLock, One!TryLock, One!LockTimeout, One!GiveUpLock
<1>2. CASE One!Finish
  BY <1>2 DEF One!Finish, One!Unlock
<1>3. CASE One!Crash
  BY <1>3 DEF One!Crash, One!Dropped
<1>4. CASE One!Again
  BY <1>4 DEF One!Again
<1>5. CASE One!DeviceLost
  BY <1>5 DEF One!DeviceLost, One!Dropped
<1>6. CASE One!World
  BY <1>6 DEF One!World, One!OtherLock, One!Quit
<1>7. CASE UNCHANGED <<lockfile, holder, tries, posted, quit, conn>> /\ OneGoes
  BY <1>7 DEF OneGoes
<1> QED
  BY <1>1, <1>2, <1>3, <1>4, <1>5, <1>6, <1>7, OneKeeps DEF One!Next, One!Tool

LEMMA OneLockTyped == OneTypes /\ One!Next => One!LockTypeOK'
<1> SUFFICES ASSUME OneTypes, One!Next PROVE One!LockTypeOK'
  OBVIOUS
<1> DEFINE Notes == {"willStart", "lockRequest", "didStart", "didFinish"}
<1> LockAttempts \in Nat \ {0}
  BY BackupsAssumption
<1>1. conn \in {"open", "lost"} /\ holder \in {"none", "tool", "other"} /\ tries \in 0..LockAttempts /\ posted \subseteq Notes
  BY DEF OneTypes, One!LockTypeOK
<1>2. quit \in BOOLEAN /\ lockfile \in BOOLEAN
  BY DEF OneTypes, One!LockTypeOK
<1>3. \A S \in SUBSET Notes : One!Post(S) => posted' \subseteq Notes
  BY <1>1 DEF One!Post
<1>4. One!Lock => One!LockTypeOK'
  <2>1. ASSUME One!OpenLock PROVE One!LockTypeOK'
    <3>1. UNCHANGED <<quit, conn, holder, tries>> /\ lockfile' \in BOOLEAN
      BY <2>1 DEF One!OpenLock
    <3>2. posted' \subseteq Notes
      BY <2>1, <1>3 DEF One!OpenLock
    <3> QED
      BY <1>1, <1>2, <3>1, <3>2 DEF One!LockTypeOK
  <2>2. ASSUME One!TryLock PROVE One!LockTypeOK'
    <3>1. UNCHANGED <<quit, conn>> /\ lockfile' \in BOOLEAN
      BY <2>2, <1>2 DEF One!TryLock, One!GiveUpLock
    <3>2. holder' \in {"none", "tool", "other"} /\ tries' \in 0..LockAttempts
      BY <2>2, <1>1 DEF One!TryLock
    <3>3. posted' \subseteq Notes
      BY <2>2, <1>1, <1>3 DEF One!TryLock
    <3> QED
      BY <1>1, <1>2, <3>1, <3>2, <3>3 DEF One!LockTypeOK
  <2>3. ASSUME One!LockTimeout PROVE One!LockTypeOK'
    <3>1. UNCHANGED <<quit, conn, holder, posted>> /\ lockfile' \in BOOLEAN
      BY <2>3 DEF One!LockTimeout, One!GiveUpLock
    <3>2. tries' \in 0..LockAttempts
      BY <2>3 DEF One!LockTimeout
    <3> QED
      BY <1>1, <1>2, <3>1, <3>2 DEF One!LockTypeOK
  <2> QED
    BY <2>1, <2>2, <2>3 DEF One!Lock
<1>5. One!Finish => One!LockTypeOK'
  <2> SUFFICES ASSUME One!Finish PROVE One!LockTypeOK'
    OBVIOUS
  <2>1. /\ UNCHANGED <<quit, conn, tries>> /\ lockfile' \in BOOLEAN
        /\ holder' \in {"none", "tool", "other"} /\ (One!Post({"didFinish"}) \/ posted' = posted)
    BY <1>1, <1>2 DEF One!Finish, One!Unlock
  <2> QED
    BY <1>1, <1>2, <1>3, <2>1 DEF One!LockTypeOK
<1>6. One!Crash \/ One!Again \/ One!DeviceLost \/ One!World => One!LockTypeOK'
  <2> SUFFICES ASSUME One!Crash \/ One!Again \/ One!DeviceLost \/ One!World PROVE One!LockTypeOK'
    OBVIOUS
  <2>1. quit' \in BOOLEAN /\ lockfile' \in BOOLEAN
    BY <1>2 DEF One!Crash, One!Again, One!DeviceLost, One!World, One!OtherLock, One!Quit, One!lockVars
  <2>2. conn' \in {"open", "lost"} /\ holder' \in {"none", "tool", "other"}
    BY <1>1 DEF One!Crash, One!Again, One!DeviceLost, One!World, One!OtherLock, One!Quit, One!Dropped, One!lockVars
  <2>3. tries' \in 0..LockAttempts /\ posted' \subseteq Notes
    BY <1>1 DEF One!Crash, One!Again, One!DeviceLost, One!World, One!OtherLock, One!Quit, One!lockVars
  <2> QED
    BY <2>1, <2>2, <2>3 DEF One!LockTypeOK
<1>7. (~One!Lock /\ ~One!Finish /\ ~One!Crash /\ ~One!Again /\ ~One!DeviceLost /\ ~One!World) => One!LockTypeOK'
  BY <1>1, <1>2, OneKeeps DEF One!LockTypeOK
<1> QED
  BY <1>4, <1>5, <1>6, <1>7

LEMMA OnePhases == OneInv /\ One!Next => OnePhase'
<1> SUFFICES ASSUME OnePhase, OneSent \/ pc # "loop", One!Next PROVE OnePhase'
  BY DEF OneInv, OneTypes, LoopInv, OneLoop
<1> USE DEF OnePhase, OneWork, OneLoop, OneRestore, OneEnd, One!frame, One!disk, One!device
<1>1. CASE One!Args \/ One!Connect \/ One!CheckInfo \/ One!Leave
  BY <1>1 DEF One!Args, One!Connect, One!CheckInfo, One!Leave, One!WriteInfo, One!Write
<1>2. CASE One!Lock
  BY <1>2 DEF One!Lock, One!OpenLock, One!TryLock, One!LockTimeout, One!GiveUpLock
<1>3. CASE One!ReadManifest \/ One!StatusFailed
  BY <1>3 DEF One!ReadManifest, One!StatusFailed, One!WriteStatus, One!Write, One!WriteInfo
<1>4. CASE One!RequestBackup
  BY <1>4 DEF One!RequestBackup
<1>5. CASE One!ReceiveHunk
  BY <1>5 DEF One!ReceiveHunk, One!Message, One!Heard
<1>6. CASE One!ReceiveLastHunk \/ One!ReceiveManifest
  BY <1>6 DEF One!ReceiveLastHunk, One!ReceiveManifest, One!Message, One!Heard, One!Acknowledge
<1>7. CASE One!ReceiveNothing \/ One!FilesOut \/ One!ReceiveEnd
  BY <1>7 DEF One!ReceiveNothing, One!FilesOut, One!ReceiveEnd, One!Message, One!Heard
<1>8. CASE One!StoreManifest
  BY <1>8 DEF One!StoreManifest
<1>9. CASE One!Report
  BY <1>9 DEF One!Report, One!WriteStatus, One!Write
<1>10. CASE One!Verify
  BY <1>10 DEF One!Verify
<1>11. CASE One!RequestRestore \/ One!RestoreFile \/ One!RestoreApps \/ One!Complete
  BY <1>11 DEF One!RequestRestore, One!RestoreFile, One!RestoreApps, One!Complete
<1>12. CASE One!Finish \/ One!Free \/ One!Crash
  BY <1>12 DEF One!Finish, One!Unlock, One!Free, One!Crash
<1>13. CASE One!Again
  BY <1>13 DEF One!Again
<1>14. CASE One!SendsNext
  BY <1>14 DEF One!SendsNext, One!Put
<1>15. CASE One!DeviceLost
  BY <1>15 DEF One!DeviceLost
<1>16. CASE One!LocalChange \/ One!World
  BY <1>16 DEF One!LocalChange, One!World, One!OtherLock, One!Quit
<1> QED
  BY <1>1, <1>2, <1>3, <1>4, <1>5, <1>6, <1>7, <1>8, <1>9, <1>10, <1>11, <1>12, <1>13, <1>14, <1>15, <1>16
  DEF One!Next, One!Tool

LEMMA OneFlagged == OneTypes /\ One!Next => OneFlags'
<1> SUFFICES ASSUME OneTypes, One!Next PROVE OneFlags'
  OBVIOUS
<1> USE DEF OneTypes, OneFlags, One!frame, One!disk, One!device
<1>1. CASE One!Args \/ One!Connect \/ One!Leave \/ One!Lock
  BY <1>1 DEF One!Args, One!Connect, One!Leave, One!Lock
<1>11. CASE One!CheckInfo
  <2>1. UNCHANGED <<hunk, ok, stale>> /\ full' \in BOOLEAN /\ (local' = local \/ local' = TRUE)
    BY <1>11 DEF One!CheckInfo, One!WriteInfo, One!Write
  <2> QED
    BY <2>1
<1>2. CASE One!ReadManifest \/ One!StatusFailed \/ One!RequestBackup
  BY <1>2 DEF One!ReadManifest, One!StatusFailed, One!WriteStatus, One!Write, One!RequestBackup, One!WriteInfo
<1>3. CASE One!ReceiveHunk
  BY <1>3 DEF One!ReceiveHunk, One!Write
<1>4. CASE One!ReceiveLastHunk
  BY <1>4 DEF One!ReceiveLastHunk, One!Write
<1>5. CASE One!ReceiveManifest \/ One!ReceiveNothing \/ One!FilesOut \/ One!ReceiveEnd
  BY <1>5 DEF One!ReceiveManifest, One!Write, One!ReceiveNothing, One!FilesOut, One!ReceiveEnd
<1>6. CASE One!StoreManifest \/ One!Report
  BY <1>6 DEF One!StoreManifest, One!Report, One!WriteStatus, One!Write
<1>7. CASE One!Verify
  BY <1>7 DEF One!Verify
<1>8. CASE One!RequestRestore \/ One!RestoreFile \/ One!RestoreApps \/ One!Complete
  BY <1>8 DEF One!RequestRestore, One!RestoreFile, One!RestoreApps, One!Complete
<1>9. CASE One!Finish \/ One!Free \/ One!Crash \/ One!Again \/ One!SendsNext
  BY <1>9 DEF One!Finish, One!Free, One!Crash, One!Again, One!SendsNext
<1>10. CASE One!DeviceLost \/ One!LocalChange \/ One!World
  BY <1>10 DEF One!DeviceLost, One!LocalChange, One!World
<1> QED
  BY <1>1, <1>2, <1>3, <1>4, <1>5, <1>6, <1>7, <1>8, <1>9, <1>10, <1>11 DEF One!Next, One!Tool

\* The steps that change what is known of the files.
OneWrites ==
  \/ One!RequestBackup \/ One!ReceiveHunk \/ One!ReceiveLastHunk \/ One!ReceiveManifest \/ One!StoreManifest
  \/ One!Report \/ One!Verify \/ One!RequestRestore \/ One!RestoreFile \/ One!RestoreApps \/ One!Again \/ One!LocalChange

LEMMA OneStays ==
  ASSUME One!Next, ~OneWrites
  PROVE  UNCHANGED <<run, apps, phone, data, base, manifest, restored, acked, left, info>>
<1> USE DEF OneWrites, One!frame, One!disk, One!device
<1>1. CASE One!Args \/ One!Connect \/ One!CheckInfo \/ One!Leave \/ One!Lock
  BY <1>1 DEF One!Args, One!Connect, One!CheckInfo, One!Leave, One!Lock
<1>2. CASE One!ReadManifest \/ One!StatusFailed
  BY <1>2 DEF One!ReadManifest, One!StatusFailed
<1>3. CASE One!ReceiveNothing \/ One!FilesOut \/ One!ReceiveEnd
  BY <1>3 DEF One!ReceiveNothing, One!FilesOut, One!ReceiveEnd
<1>4. CASE One!Complete \/ One!Finish \/ One!Free \/ One!Crash
  BY <1>4 DEF One!Complete, One!Finish, One!Free, One!Crash
<1>5. CASE One!SendsNext \/ One!DeviceLost \/ One!World
  BY <1>5 DEF One!SendsNext, One!DeviceLost, One!World
<1> QED
  BY <1>1, <1>2, <1>3, <1>4, <1>5 DEF One!Next, One!Tool

LEMMA PairFacts ==
  \A a, b : /\ Head(<<a>>) = a /\ Tail(<<a>>) = <<>> /\ <<a>> # <<>>
            /\ Head(<<a, b>>) = a /\ Tail(<<a, b>>) = <<b>> /\ <<a, b>> # <<>>
OBVIOUS

\* What the phone may have sent, by the kind of the message that is read.
LEMMA OneHears ==
  ASSUME OneSent, NEW kind, inbox # <<>>, Head(inbox).kind = kind
  PROVE  /\ kind = "hunk" => \E f \in Files :
              /\ Due(f) /\ Head(inbox) = One!FileHunk("hunk", f) /\ ~hunk
              /\ Tail(inbox) \in {<<>>, <<One!FileHunk("last", f)>>}
         /\ kind = "last" => \E f \in Files :
              /\ Due(f) /\ Head(inbox) = One!FileHunk("last", f) /\ Tail(inbox) = <<>>
              /\ (hunk /\ ~local) => data[f] = One!Half
         /\ kind = "manifest" => /\ Tail(inbox) = <<>> /\ ~hunk
              /\ Head(inbox).list = [g \in Files |-> IF g \in acked THEN phone[g] ELSE base[g]]
         /\ kind = "finished" =>
              /\ Head(inbox).list = phone /\ Head(inbox).deleted = One!Listed(base) \ One!Listed(phone)
              /\ \A f \in One!Listed(phone) : phone[f] = base[f] \/ f \in acked
         /\ kind = "other" => Tail(inbox) = <<>>
<1> USE DEF OneSent, One!FileHunk
<1>1. CASE ~hunk /\ \E f \in Files : Due(f) /\ inbox \in {<<One!FileHunk("hunk", f)>>,
                                                    <<One!FileHunk("hunk", f), One!FileHunk("last", f)>>}
  <2>1. PICK f \in Files : Due(f) /\ inbox \in {<<One!FileHunk("hunk", f)>>,
                                                <<One!FileHunk("hunk", f), One!FileHunk("last", f)>>}
    BY <1>1
  <2>2. Head(inbox) = One!FileHunk("hunk", f) /\ Tail(inbox) \in {<<>>, <<One!FileHunk("last", f)>>}
    BY ONLY <2>1, PairFacts
  <2>3. kind = "hunk"
    BY <2>2
  <2> QED
    BY <1>1, <2>1, <2>2, <2>3
<1>2. CASE \E f \in Files : /\ Due(f) /\ inbox = <<One!FileHunk("last", f)>>
                            /\ (hunk /\ ~local) => data[f] = One!Half
  <2>1. PICK f \in Files : /\ Due(f) /\ inbox = <<One!FileHunk("last", f)>>
                           /\ (hunk /\ ~local) => data[f] = One!Half
    BY <1>2
  <2>2. Head(inbox) = One!FileHunk("last", f) /\ Tail(inbox) = <<>>
    BY <2>1
  <2>3. kind = "last"
    BY <2>2
  <2> QED
    BY <2>1, <2>2, <2>3
<1>3. CASE ~hunk /\ inbox = <<[kind |-> "manifest",
                               list |-> [g \in Files |-> IF g \in acked THEN phone[g] ELSE base[g]]]>>
  BY <1>3
<1>4. CASE /\ inbox = <<[kind |-> "finished", list |-> phone,
                         deleted |-> One!Listed(base) \ One!Listed(phone)]>>
           /\ \A f \in One!Listed(phone) : phone[f] = base[f] \/ f \in acked
  BY <1>4
<1>5. CASE inbox = <<[kind |-> "other"]>>
  BY <1>5
<1> QED
  BY <1>1, <1>2, <1>3, <1>4, <1>5

\* What is written of a file that is received, if the tool could write it.
LEMMA OneReceivesHunk ==
  ASSUME OneInv, One!ReceiveHunk
  PROVE  \E f \in Files :
           /\ Due(f) /\ pc = "loop" /\ pc' = "out" /\ inbox' \in {<<>>, <<One!FileHunk("last", f)>>}
           /\ hunk' = TRUE /\ data' \in [Files -> -2..run] /\ (~local' => data' = [data EXCEPT ![f] = One!Half])
           /\ (local => local') /\ UNCHANGED <<run, cmd, conn, stale, info, manifest, stat, phone, base, acked, dev>>
           /\ UNCHANGED <<restored, apps, full, left, ok, outcome>>
<1>1. OneSent /\ One!Heard("hunk") /\ inbox' = Tail(inbox)
  BY DEF OneInv, LoopInv, OneLoop, One!ReceiveHunk, One!Message, One!Heard
<1>2. PICK f \in Files : /\ Due(f) /\ Head(inbox) = One!FileHunk("hunk", f) /\ ~hunk
                         /\ Tail(inbox) \in {<<>>, <<One!FileHunk("last", f)>>}
  BY <1>1, OneHears DEF One!Heard
<1>3. Head(inbox).file = f
  BY <1>2 DEF One!FileHunk
<1>4. \/ data' = [data EXCEPT ![f] = One!Half] /\ local' = local
      \/ local' = TRUE /\ data' = [data EXCEPT ![f] = One!Absent]
  BY <1>2, <1>3 DEF One!ReceiveHunk, One!Write, One!Appended, One!AppendFailed
<1>5. data \in [Files -> -2..run] /\ run \in Nat /\ local \in BOOLEAN
  BY BackupsAssumption DEF OneInv, OneTypes, OneSets, OneFlags
<1>6. data' \in [Files -> -2..run]
  BY <1>4, <1>5 DEF One!Half, One!Absent
<1> QED
  BY <1>1, <1>2, <1>4, <1>5, <1>6 DEF One!ReceiveHunk, One!Heard, One!device

LEMMA OneReceivesLast ==
  ASSUME OneInv, One!ReceiveLastHunk
  PROVE  \E f \in Files :
           /\ Due(f) /\ pc = "loop" /\ pc' = "out" /\ inbox' = <<>> /\ hunk' = FALSE
           /\ data' \in [Files -> -2..run] /\ info' \subseteq Files
           /\ ~local' => data' = [data EXCEPT ![f] = phone[f]] /\ info' = info \union {f}
           /\ acked' \in {acked, acked \union {f}} /\ dev' \in {dev, "idle"}
           /\ (local => local') /\ UNCHANGED <<run, cmd, conn, stale, manifest, stat, phone, base, restored, apps>>
           /\ UNCHANGED <<full, left, ok, outcome>>
<1>1. OneSent /\ One!Heard("last") /\ inbox' = Tail(inbox)
  BY DEF OneInv, LoopInv, OneLoop, One!ReceiveLastHunk, One!Message, One!Heard
<1>2. PICK f \in Files : /\ Due(f) /\ Head(inbox) = One!FileHunk("last", f) /\ Tail(inbox) = <<>>
                         /\ (hunk /\ ~local) => data[f] = One!Half
  BY <1>1, OneHears DEF One!Heard
<1>3. Head(inbox).file = f /\ Head(inbox).version = phone[f]
  BY <1>2 DEF One!FileHunk
<1> DEFINE w == One!Appended(TRUE)
           x == One!AppendFailed
<1>4. w \in {phone[f], One!Broken, One!Half} /\ (~local => w = phone[f])
  BY <1>2, <1>3 DEF One!Appended
<1>5. x \in {One!Absent, One!Broken}
  BY DEF One!AppendFailed
<1>6. \/ data' = [data EXCEPT ![f] = w] /\ info' = info \union {f} /\ local' = local
      \/ local' = TRUE /\ data' = [data EXCEPT ![f] = x] /\ info' = info \union {f}
      \/ local' = TRUE /\ data' = [data EXCEPT ![f] = w] /\ info' = info \ {f}
  BY <1>2, <1>3 DEF One!ReceiveLastHunk, One!Write
<1> HIDE DEF w, x
<1>7. /\ data \in [Files -> -2..run] /\ run \in Nat /\ local \in BOOLEAN /\ info \subseteq Files
      /\ phone[f] \in 0..run
  BY BackupsAssumption DEF OneInv, OneTypes, OneSets, OneFlags
<1>8. w \in -2..run /\ x \in -2..run
  BY <1>4, <1>5, <1>7 DEF One!Half, One!Absent, One!Broken
<1>9. data' \in [Files -> -2..run] /\ info' \subseteq Files
  BY <1>6, <1>7, <1>8
<1>10. ~local' => data' = [data EXCEPT ![f] = phone[f]] /\ info' = info \union {f}
  BY <1>4, <1>6
<1>11. acked' \in {acked, acked \union {f}} /\ dev' \in {dev, "idle"}
  BY <1>3 DEF One!ReceiveLastHunk, One!Acknowledge
<1>12. local => local'
  BY <1>6, <1>7
<1> QED
  BY <1>1, <1>2, <1>9, <1>10, <1>11, <1>12 DEF One!ReceiveLastHunk, One!Heard

\* The files keep their types.
LEMMA OneSetsStay == OneInv /\ One!Next => OneSets'
<1> SUFFICES ASSUME OneInv, One!Next PROVE OneSets'
  OBVIOUS
<1>1. OneSets /\ One!NoManifest = [f \in {} |-> 0]
  BY DEF OneInv, OneTypes, One!NoManifest
<1>2. run \in Nat /\ Apps \in Nat /\ MaxRuns \in Nat
  BY <1>1, BackupsAssumption DEF OneSets
<1>3. CASE One!RequestBackup
  <2>1. /\ UNCHANGED <<run, apps, phone, data, manifest, restored, left, info>> /\ acked' \in {acked, {}}
        /\ \/ base' \in {base, One!Empty}
           \/ base' = manifest /\ pc = "ask" /\ ~full
    BY <1>3 DEF One!RequestBackup, One!frame, One!disk, One!device
  <2>2. pc = "ask" /\ ~full => manifest # One!NoManifest
    BY DEF OneInv, StatusInv
  <2>3. One!Empty \in [Files -> 0..run] /\ base' \in [Files -> 0..run]
    BY <1>1, <1>2, <2>1, <2>2 DEF OneSets, One!Empty, One!Gone
  <2> QED
    BY <1>1, <2>1, <2>3 DEF OneSets
<1>4. CASE One!ReceiveHunk
  BY <1>1, <1>4, OneReceivesHunk DEF OneSets
<1>5. CASE One!ReceiveLastHunk
  BY <1>1, <1>5, OneReceivesLast DEF OneSets
<1>6. CASE One!ReceiveManifest
  <2>1. /\ One!Heard("manifest") /\ OneSent /\ UNCHANGED <<run, apps, phone, data, base, restored, acked, left, info>>
        /\ manifest' \in {Head(inbox).list, One!NoManifest}
    BY <1>6 DEF OneInv, LoopInv, OneLoop, One!ReceiveManifest, One!Message, One!Heard, One!Write
  <2>2. Head(inbox).list = [g \in Files |-> IF g \in acked THEN phone[g] ELSE base[g]]
    BY <2>1, OneHears DEF One!Heard
  <2>3. Head(inbox).list \in [Files -> 0..run]
    BY <1>1, <2>2 DEF OneSets
  <2> QED
    BY <1>1, <2>1, <2>3 DEF OneSets
<1>7. CASE One!StoreManifest
  <2>1. /\ OneSent /\ inbox # <<>> /\ Head(inbox).kind = "finished"
        /\ UNCHANGED <<run, apps, phone, base, restored, acked, left>>
        /\ manifest' \in {Head(inbox).list, One!NoManifest}
        /\ data' = [f \in Files |-> IF f \in Head(inbox).deleted THEN One!Absent ELSE data[f]]
        /\ info' \subseteq info
    BY <1>7 DEF OneInv, LoopInv, OneLoop, One!StoreManifest, One!Delete, One!Write, One!device
  <2>2. Head(inbox).list = phone
    BY <2>1, OneHears
  <2>3. data' \in [Files -> -2..run]
    BY <1>1, <1>2, <2>1 DEF OneSets, One!Absent
  <2> QED
    BY <1>1, <2>1, <2>2, <2>3 DEF OneSets
<1>8. CASE One!Report
  <2>1. UNCHANGED <<run, apps, phone, data, manifest, restored, left, info>> /\ acked' = {} /\ base' = One!Empty
    BY <1>8 DEF One!Report
  <2> QED
    BY <1>1, <1>2, <2>1 DEF OneSets, One!Empty, One!Gone
<1>9. CASE One!Verify
  <2>1. UNCHANGED <<run, apps, phone, data, base, manifest, restored, acked, info>> /\ left' \in {left, One!Listed(manifest)}
    BY <1>9 DEF One!Verify, One!frame, One!disk, One!device
  <2>2. One!Listed(manifest) \subseteq Files
    BY <1>1 DEF OneSets, One!Listed
  <2> QED
    BY <1>1, <2>1, <2>2 DEF OneSets
<1>10. CASE One!RequestRestore
  <2>1. /\ UNCHANGED <<run, phone, data, base, manifest, left, acked, info>> /\ restored' \in {restored, One!Empty}
        /\ apps' \in {apps, 0}
    BY <1>10 DEF One!RequestRestore, One!frame, One!disk
  <2> QED
    BY <1>1, <1>2, <2>1 DEF OneSets, One!Empty, One!Gone
<1>11. CASE One!RestoreFile
  <2>1. UNCHANGED <<run, apps, phone, data, base, manifest, acked, info>>
    BY <1>11 DEF One!RestoreFile, One!frame, One!disk
  <2>2. left' \subseteq left /\ (restored' = restored \/ \E f \in left : restored' = [restored EXCEPT ![f] = data[f]])
    BY <1>11 DEF One!RestoreFile
  <2> QED
    BY <1>1, <1>2, <2>1, <2>2 DEF OneSets
<1>12. CASE One!RestoreApps
  <2>1. UNCHANGED <<run, phone, data, base, manifest, acked, info, restored, left>>
    BY <1>12 DEF One!RestoreApps, One!frame, One!disk
  <2>2. apps' = apps \/ (apps # Apps /\ apps' = apps + 1)
    BY <1>12 DEF One!RestoreApps
  <2> QED
    BY <1>1, <1>2, <2>1, <2>2 DEF OneSets
<1>13. CASE One!Again
  <2>1. /\ UNCHANGED <<data, manifest, info>> /\ run' = run + 1 /\ run < MaxRuns
        /\ base' = One!Empty /\ acked' = {} /\ left' = {} /\ restored' = One!Empty /\ apps' = 0
        /\ phone' \in [Files -> {One!Gone, run + 1} \union {phone[f] : f \in Files}]
    BY <1>13 DEF One!Again, One!disk
  <2>2. {One!Gone, run + 1} \union {phone[f] : f \in Files} \subseteq 0..run'
    BY <1>1, <1>2, <2>1 DEF OneSets, One!Gone
  <2>3. phone' \in [Files -> 0..run']
    BY <2>1, <2>2
  <2>4. /\ data' \in [Files -> -2..run'] /\ base' \in [Files -> 0..run'] /\ restored' \in [Files -> -2..run']
        /\ manifest' = One!NoManifest \/ manifest' \in [Files -> 0..run']
    BY <1>1, <1>2, <2>1 DEF OneSets, One!Empty, One!Gone
  <2> QED
    BY <1>1, <1>2, <2>1, <2>3, <2>4 DEF OneSets
<1>14. CASE One!LocalChange
  <2>1. UNCHANGED <<run, apps, phone, base, manifest, restored, acked, left, info>>
    BY <1>14 DEF One!LocalChange, One!device
  <2>2. PICK f \in left : data' = [data EXCEPT ![f] = One!Absent]
    BY <1>14 DEF One!LocalChange
  <2> QED
    BY <1>1, <1>2, <2>1, <2>2 DEF OneSets, One!Absent
<1>15. CASE ~OneWrites
  BY <1>1, <1>15, OneStays DEF OneSets
<1> QED
  BY <1>3, <1>4, <1>5, <1>6, <1>7, <1>8, <1>9, <1>10, <1>11, <1>12, <1>13, <1>14, <1>15 DEF OneWrites

LEMMA ManifestStays ==
  ASSUME ManifestInv, UNCHANGED <<phone, data, info, manifest>>, local => local', stale => stale'
  PROVE  ManifestInv'
BY DEF ManifestInv, Current, Complete, One!NoManifest, One!Gone

\* The steps that are about what a backup receives; the others leave the backup as it is.
OneReceives ==
  \/ One!RequestBackup \/ One!ReceiveHunk \/ One!ReceiveLastHunk \/ One!ReceiveManifest \/ One!ReceiveNothing
  \/ One!FilesOut \/ One!ReceiveEnd \/ One!StoreManifest \/ One!SendsNext \/ One!DeviceLost \/ One!World
  \/ One!Again \/ One!LocalChange

LEMMA OneLeaves ==
  ASSUME OneTypes, One!Next, ~OneReceives
  PROVE  /\ UNCHANGED <<phone, data, info, manifest>> /\ (local => local') /\ (stale => stale')
         /\ pc' \notin OneLoop
<1> USE DEF OneReceives, OneTypes, OneFlags, OneLoop, One!frame, One!disk, One!device
<1>1. CASE One!Args \/ One!Connect \/ One!CheckInfo \/ One!Leave
  BY <1>1 DEF One!Args, One!Connect, One!CheckInfo, One!Leave, One!WriteInfo, One!Write
<1>2. CASE One!Lock
  BY <1>2 DEF One!Lock, One!OpenLock, One!TryLock, One!LockTimeout
<1>3. CASE One!ReadManifest
  BY <1>3 DEF One!ReadManifest, One!Write, One!WriteInfo
<1>4. CASE One!StatusFailed \/ One!Report
  BY <1>4 DEF One!StatusFailed, One!Report, One!WriteStatus, One!Write
<1>5. CASE One!Verify
  <2>1. UNCHANGED One!frame /\ UNCHANGED One!disk /\ UNCHANGED One!device
    BY <1>5 DEF One!Verify
  <2>2. pc' \notin OneLoop
    BY <1>5 DEF One!Verify
  <2> QED
    BY <2>1, <2>2
<1>6. CASE One!RequestRestore \/ One!RestoreFile \/ One!RestoreApps \/ One!Complete
  BY <1>6 DEF One!RequestRestore, One!RestoreFile, One!RestoreApps, One!Complete
<1>7. CASE One!Finish \/ One!Free \/ One!Crash
  BY <1>7 DEF One!Finish, One!Unlock, One!Free, One!Crash
<1> QED
  BY <1>1, <1>2, <1>3, <1>4, <1>5, <1>6, <1>7 DEF One!Next, One!Tool

\* The backup is as it was while the tool goes on or waits.
LEMMA OneWaits ==
  ASSUME OneInv, One!ReceiveNothing \/ One!FilesOut \/ One!ReceiveEnd \/ One!World
  PROVE  ManifestInv' /\ LoopInv'
<1>1. /\ UNCHANGED <<phone, data, info, manifest, base, acked, full, hunk, local, stale>>
      /\ inbox' = inbox \/ pc' = "report"
      /\ dev' \in {dev, "over"}
      /\ pc' = "store" => pc = "store" \/ (inbox # <<>> /\ Head(inbox).kind = "finished")
      /\ pc' \in OneLoop => pc \in OneLoop
  BY DEF One!ReceiveNothing, One!FilesOut, One!ReceiveEnd, One!Message, One!Heard, One!World, One!OtherLock,
         One!Quit, One!frame, One!disk, One!device, OneLoop
<1>2. ManifestInv'
  BY <1>1, ManifestStays DEF OneInv
<1>3. ASSUME pc' \in OneLoop PROVE LoopInv'
  <2>1. pc \in OneLoop /\ inbox' = inbox
    BY <1>1, <1>3 DEF OneLoop
  <2>2. OneSent' /\ OneSent
    <3>1. OneSent /\ \A f : Due(f)' <=> Due(f)
      BY <1>1, <2>1 DEF OneInv, LoopInv, Due, One!Listed, One!Gone
    <3>2. \A k, f : One!FileHunk(k, f)' = One!FileHunk(k, f)
      BY <1>1 DEF One!FileHunk
    <3> QED
      BY <1>1, <2>1, <3>1, <3>2 DEF OneSent, One!Listed, One!Half, One!Gone
  <2> QED
    BY <1>1, <1>3, <2>1, <2>2 DEF OneInv, LoopInv, Current, Complete, One!Empty, One!NoManifest, One!Gone
<1> QED
  BY <1>2, <1>3 DEF LoopInv

LEMMA OneAsks == ASSUME OneInv, One!RequestBackup PROVE ManifestInv' /\ LoopInv'
<1>1. /\ UNCHANGED <<phone, data, info, manifest, full, hunk, inbox, local, stale>> /\ pc = "ask"
      /\ \/ pc' = "loop" /\ dev' = "idle" /\ acked' = {} /\ base' = IF full THEN One!Empty ELSE manifest
         \/ pc' = "unlock"
  BY DEF One!RequestBackup, One!frame, One!disk
<1>2. ManifestInv'
  BY <1>1, ManifestStays DEF OneInv
<1>3. /\ inbox = <<>> /\ ~hunk /\ (full => stale \/ manifest = One!NoManifest) /\ (~full => manifest # One!NoManifest)
      /\ ManifestInv
  BY <1>1 DEF OneInv, OneTypes, OnePhase, OneLoop, OneEnd, StatusInv
<1>4. \A f \in Files : One!Empty[f] = One!Gone
  BY DEF One!Empty
<1>5. ASSUME pc' = "loop" PROVE LoopInv'
  BY <1>1, <1>3, <1>4, <1>5 DEF LoopInv, OneSent, ManifestInv, Current, Complete, One!NoManifest, One!Gone,
     One!Empty
<1> QED
  BY <1>1, <1>2, <1>5 DEF LoopInv, OneLoop

LEMMA OneHunk == ASSUME OneInv, One!ReceiveHunk PROVE ManifestInv' /\ LoopInv'
<1>1. PICK f \in Files :
           /\ Due(f) /\ pc = "loop" /\ pc' = "out" /\ inbox' \in {<<>>, <<One!FileHunk("last", f)>>}
           /\ hunk' = TRUE /\ data' \in [Files -> -2..run] /\ (~local' => data' = [data EXCEPT ![f] = One!Half])
           /\ (local => local') /\ UNCHANGED <<run, cmd, conn, stale, info, manifest, stat, phone, base, acked, dev>>
           /\ UNCHANGED <<restored, apps, full, left, ok, outcome>>
  BY OneReceivesHunk
<1>2. /\ OneSent /\ (dev = "idle" => inbox = <<>> /\ ~hunk) /\ (full => base = One!Empty)
      /\ ~local => \A g \in acked : Complete(g)
      /\ (~local /\ ~stale) => \A g \in Files : Current(base, g) => Complete(g)
      /\ (~stale /\ manifest # One!NoManifest) =>
         \A g \in Files : Current(manifest, g) => g \in acked \/ base[g] = phone[g]
      /\ inbox # <<>> /\ acked \subseteq Files /\ data \in [Files -> -2..run]
  BY <1>1 DEF OneInv, LoopInv, OneLoop, One!ReceiveHunk, One!Message, One!Heard, OneTypes, OneSets
<1>3. f \notin acked /\ phone[f] # base[f]
  BY <1>1 DEF Due
<1>4. ~local' => data'[f] = One!Half /\ \A g \in Files : g # f => (Complete(g)' <=> Complete(g))
  BY <1>1, <1>2 DEF Complete
<1>5. Due(f)'
  BY <1>1 DEF Due, One!Listed, One!Gone
<1>6. One!FileHunk("last", f)' = One!FileHunk("last", f)
  BY <1>1 DEF One!FileHunk
<1>7. OneSent'
  BY <1>1, <1>4, <1>5, <1>6 DEF OneSent, One!Half
<1>8. \A g : (Current(base, g)' <=> Current(base, g)) /\ (Current(manifest, g)' <=> Current(manifest, g))
  BY <1>1 DEF Current, One!Gone
<1>9. /\ ~local' => \A g \in acked' : Complete(g)'
      /\ (~local' /\ ~stale') => \A g \in Files : Current(base, g)' => Complete(g)'
  BY <1>1, <1>2, <1>3, <1>4, <1>8 DEF Current
<1>10. (~stale' /\ manifest' # One!NoManifest) =>
         \A g \in Files : Current(manifest, g)' => g \in acked' \/ base'[g] = phone'[g]
  BY <1>1, <1>2, <1>8 DEF One!NoManifest
<1>11. LoopInv'
  BY <1>1, <1>2, <1>7, <1>9, <1>10 DEF LoopInv, OneLoop, One!Empty, One!NoManifest, One!Gone
<1>12. ManifestInv'
  BY <1>8, <1>9, <1>10 DEF ManifestInv, Current, One!NoManifest
<1> QED
  BY <1>11, <1>12

LEMMA OneLast == ASSUME OneInv, One!ReceiveLastHunk PROVE ManifestInv' /\ LoopInv'
<1>1. PICK f \in Files :
           /\ Due(f) /\ pc = "loop" /\ pc' = "out" /\ inbox' = <<>> /\ hunk' = FALSE
           /\ data' \in [Files -> -2..run] /\ info' \subseteq Files
           /\ ~local' => data' = [data EXCEPT ![f] = phone[f]] /\ info' = info \union {f}
           /\ acked' \in {acked, acked \union {f}} /\ dev' \in {dev, "idle"}
           /\ (local => local') /\ UNCHANGED <<run, cmd, conn, stale, manifest, stat, phone, base, restored, apps>>
           /\ UNCHANGED <<full, left, ok, outcome>>
  BY OneReceivesLast
<1>2. /\ (full => base = One!Empty)
      /\ ~local => \A g \in acked : Complete(g)
      /\ (~local /\ ~stale) => \A g \in Files : Current(base, g) => Complete(g)
      /\ (~stale /\ manifest # One!NoManifest) =>
         \A g \in Files : Current(manifest, g) => g \in acked \/ base[g] = phone[g]
      /\ acked \subseteq Files /\ data \in [Files -> -2..run]
  BY <1>1 DEF OneInv, LoopInv, OneLoop, OneTypes, OneSets
<1>3. ~local' => Complete(f)' /\ \A g \in Files : Complete(g) => Complete(g)'
  BY <1>1, <1>2 DEF Complete
<1>4. \A g : (Current(base, g)' <=> Current(base, g)) /\ (Current(manifest, g)' <=> Current(manifest, g))
  BY <1>1 DEF Current, One!Gone
<1>5. /\ ~local' => \A g \in acked' : Complete(g)'
      /\ (~local' /\ ~stale') => \A g \in Files : Current(base, g)' => Complete(g)'
  BY <1>1, <1>2, <1>3, <1>4
<1>6. (~stale' /\ manifest' # One!NoManifest) =>
         \A g \in Files : Current(manifest, g)' => g \in acked' \/ base'[g] = phone'[g]
  BY <1>1, <1>2, <1>4 DEF One!NoManifest
<1>7. LoopInv'
  BY <1>1, <1>2, <1>5, <1>6 DEF LoopInv, OneLoop, OneSent, One!Empty, One!NoManifest, One!Gone
<1>8. ManifestInv'
  BY <1>4, <1>5, <1>6 DEF ManifestInv, Current, One!NoManifest
<1> QED
  BY <1>7, <1>8

LEMMA OneManifest == ASSUME OneInv, One!ReceiveManifest PROVE ManifestInv' /\ LoopInv'
<1>1. /\ pc = "loop" /\ inbox # <<>> /\ Head(inbox).kind = "manifest" /\ inbox' = Tail(inbox) /\ pc' = "out"
      /\ UNCHANGED <<data, info, phone, base, acked, full, hunk>> /\ (local => local')
      /\ stale' = (stale /\ ~full) /\ (manifest' = Head(inbox).list \/ manifest' = One!NoManifest)
  BY DEF OneInv, OneTypes, OneFlags, One!ReceiveManifest, One!Message, One!Heard, One!Write
<1>2. /\ OneSent /\ (full => base = One!Empty)
      /\ ~local => \A g \in acked : Complete(g)
      /\ (~local /\ ~stale) => \A g \in Files : Current(base, g) => Complete(g)
      /\ acked \subseteq Files /\ local \in BOOLEAN /\ stale \in BOOLEAN
  BY <1>1 DEF OneInv, LoopInv, OneLoop, OneTypes, OneSets, OneFlags
<1>3. /\ inbox' = <<>> /\ ~hunk
      /\ Head(inbox).list = [g \in Files |-> IF g \in acked THEN phone[g] ELSE base[g]]
  BY <1>1, <1>2, OneHears
<1>4. \A g : (Current(base, g)' <=> Current(base, g)) /\ (Complete(g)' <=> Complete(g))
  BY <1>1 DEF Current, Complete, One!Gone
<1>5. (full => \A g \in Files : ~Current(base, g)) /\ (~full => stale' = stale)
  BY <1>1, <1>2 DEF Current, One!Empty, One!Gone
<1>6. /\ ~local' => \A g \in acked' : Complete(g)'
      /\ (~local' /\ ~stale') => \A g \in Files : Current(base, g)' => Complete(g)'
  BY <1>1, <1>2, <1>4, <1>5
<1>7. manifest' # One!NoManifest =>
         \A g \in Files : Current(manifest, g)' => g \in acked' \/ base'[g] = phone'[g]
  BY <1>1, <1>3 DEF Current
<1>8. One!NoManifest' = One!NoManifest /\ One!Empty' = One!Empty
  BY DEF One!NoManifest, One!Empty, One!Gone
<1>9. LoopInv'
  BY <1>1, <1>2, <1>3, <1>6, <1>7, <1>8 DEF LoopInv, OneLoop, OneSent
<1>10. ManifestInv'
  BY <1>1, <1>6, <1>7, <1>8 DEF ManifestInv, Current
<1> QED
  BY <1>9, <1>10

\* What a finished backup leaves in the directory.
LEMMA OneStores ==
  ASSUME OneInv, One!StoreManifest, ~local', ~stale'
  PROVE  One!Whole' /\ \A f \in Files : phone'[f] # One!Gone => Complete(f)'
<1>1. /\ pc = "store" /\ inbox # <<>> /\ Head(inbox).kind = "finished"
      /\ UNCHANGED <<phone, base, acked>> /\ stale' = (stale /\ ~full)
      /\ data' = [f \in Files |-> IF f \in Head(inbox).deleted THEN One!Absent ELSE data[f]]
      /\ info' = info \ {f \in Head(inbox).deleted : data[f] # One!Absent}
      /\ manifest' = Head(inbox).list /\ ~local
  BY DEF OneInv, LoopInv, OneLoop, OneTypes, OneFlags, One!StoreManifest, One!Write, One!Delete, One!device
<1>2. /\ OneSent /\ (full => base = One!Empty)
      /\ ~local => \A g \in acked : Complete(g)
      /\ (~local /\ ~stale) => \A g \in Files : Current(base, g) => Complete(g)
      /\ acked \subseteq Files /\ phone \in [Files -> 0..run]
  BY <1>1 DEF OneInv, LoopInv, OneLoop, OneTypes, OneSets
<1>3. /\ Head(inbox).list = phone /\ Head(inbox).deleted = One!Listed(base) \ One!Listed(phone)
      /\ \A f \in One!Listed(phone) : phone[f] = base[f] \/ f \in acked
  BY <1>1, <1>2, OneHears
<1>4. \A f \in One!Listed(phone) : f \in Files /\ phone[f] # One!Gone
  BY <1>2 DEF One!Listed
<1>5. \A f \in One!Listed(phone) : f \in acked \/ Current(base, f)
  BY <1>3, <1>4 DEF Current
<1>6. full => \A f \in Files : ~Current(base, f)
  BY <1>2 DEF Current, One!Empty, One!Gone
<1>7. \A f \in One!Listed(phone) : Complete(f)
  BY <1>1, <1>2, <1>4, <1>5, <1>6
<1>8. \A f \in One!Listed(phone) : data'[f] = phone[f] /\ f \in info'
  BY <1>1, <1>3, <1>4, <1>7 DEF Complete
<1>9. \A f \in Files : phone[f] # One!Gone => f \in One!Listed(phone)
  BY <1>2 DEF One!Listed
<1>10. manifest' = phone /\ manifest' # One!NoManifest
  BY <1>1, <1>2, <1>3, BackupsAssumption DEF One!NoManifest
<1>11. One!Whole'
  BY <1>8, <1>10 DEF One!Whole, One!Listed, One!NoManifest, One!Gone
<1> QED
  BY <1>1, <1>8, <1>9, <1>11 DEF Complete, One!Gone

LEMMA OneStored == ASSUME OneInv, One!StoreManifest PROVE ManifestInv' /\ LoopInv'
<1>1. pc' = "report"
  BY DEF One!StoreManifest
<1>2. LoopInv'
  BY <1>1 DEF LoopInv, OneLoop
<1>3. ManifestInv'
  BY OneStores DEF ManifestInv, Current, One!NoManifest, One!Gone
<1> QED
  BY <1>2, <1>3

LEMMA JoinFacts ==
  ASSUME NEW x, NEW y
  PROVE  <<>> \o <<x>> = <<x>> /\ <<x>> \o <<y>> = <<x, y>> /\ <<>> \o <<x, y>> = <<x, y>>
<1>1. <<>> \o <<x>> = <<x>>
  OBVIOUS
<1>2. <<>> \o <<x, y>> = <<x, y>>
  <2>1. <<x, y>> \in Seq({x, y})
    OBVIOUS
  <2> QED
    BY <2>1, ConcatEmptySeq
<1>3. <<x>> \o <<y>> = <<x, y>>
  <2> DEFINE s == <<x>> \o <<y>>
  <2>1. <<x>> \in Seq({x, y}) /\ <<y>> \in Seq({x, y}) /\ <<x, y>> \in Seq({x, y}) /\ Len(<<x, y>>) = 2
    OBVIOUS
  <2>2. s \in Seq({x, y}) /\ Len(s) = 2 /\ s[1] = x /\ s[2] = y
    BY <2>1, ConcatProperties
  <2> HIDE DEF s
  <2>3. s = <<x, y>>
    BY <2>1, <2>2
  <2> QED
    BY <2>3 DEF s
<1> QED
  BY <1>1, <1>2, <1>3

LEMMA OneSends == ASSUME OneInv, One!SendsNext PROVE ManifestInv' /\ LoopInv'
<1>1. UNCHANGED <<pc, local, stale, data, info, manifest, phone, base, acked, full, hunk>> /\ pc = "loop" /\ dev = "idle"
  BY DEF One!SendsNext, One!frame, One!disk
<1>2. inbox = <<>> /\ ~hunk
  BY <1>1 DEF OneInv, LoopInv, OneLoop
<1>3. ManifestInv'
  BY <1>1, ManifestStays DEF OneInv
<1>4. dev' \in {"ack", "over"} /\ OneSent
  BY <1>1, <1>2 DEF One!SendsNext, One!Put, OneSent
<1>5. OneSent'
  <2>3. \A f : (Due(f)' <=> Due(f)) /\ \A k : One!FileHunk(k, f)' = One!FileHunk(k, f)
    BY <1>1 DEF Due, One!Listed, One!FileHunk, One!Gone
  <2>4. One!Listed(phone)' = One!Listed(phone) /\ One!Listed(base)' = One!Listed(base) /\ One!Listed(phone) \subseteq Files
    BY <1>1 DEF OneInv, OneTypes, OneSets, One!Listed, One!Gone
  <2>5. CASE \E f \in {g \in One!Listed(phone) \ acked : phone[g] # base[g]} : \E many \in BOOLEAN :
               One!Put((IF many THEN <<One!FileHunk("hunk", f)>> ELSE <<>>) \o <<One!FileHunk("last", f)>>, "ack")
    <3>1. PICK f \in Files, many \in BOOLEAN :
              /\ Due(f)
              /\ inbox' = <<>> \o ((IF many THEN <<One!FileHunk("hunk", f)>> ELSE <<>>) \o <<One!FileHunk("last", f)>>)
      BY <1>2, <2>4, <2>5 DEF One!Put, Due
    <3>2. inbox' \in {<<One!FileHunk("last", f)>>, <<One!FileHunk("hunk", f), One!FileHunk("last", f)>>}
      <4>1. CASE many
        BY <3>1, <4>1, JoinFacts
      <4>2. CASE ~many
        BY <3>1, <4>2, JoinFacts
      <4> QED
        BY <4>1, <4>2
    <3> QED
      BY <1>1, <1>2, <2>3, <3>1, <3>2 DEF OneSent
  <2>6. CASE One!Put(<<[kind |-> "manifest", list |-> [g \in Files |-> IF g \in acked THEN phone[g] ELSE base[g]]]>>, "ack")
    BY <1>1, <1>2, <2>6 DEF OneSent, One!Put
  <2>7. CASE /\ \A f \in One!Listed(phone) : phone[f] = base[f] \/ f \in acked
             /\ One!Put(<<[kind |-> "finished", list |-> phone, deleted |-> One!Listed(base) \ One!Listed(phone)]>>, "over")
    BY <1>1, <1>2, <2>4, <2>7, JoinFacts DEF OneSent, One!Put
  <2>8. CASE One!Put(<<[kind |-> "other"]>>, "over")
    BY <1>2, <2>8 DEF OneSent, One!Put
  <2> QED
    BY <2>5, <2>6, <2>7, <2>8 DEF One!SendsNext
<1>6. /\ (full => base = One!Empty)
      /\ ~local => \A g \in acked : Complete(g)
      /\ (~local /\ ~stale) => \A g \in Files : Current(base, g) => Complete(g)
      /\ (~stale /\ manifest # One!NoManifest) =>
         \A g \in Files : Current(manifest, g) => g \in acked \/ base[g] = phone[g]
  BY <1>1 DEF OneInv, LoopInv, OneLoop
<1>7. LoopInv'
  BY <1>1, <1>4, <1>5, <1>6 DEF LoopInv, Complete, Current, One!Empty, One!NoManifest, One!Gone
<1> QED
  BY <1>3, <1>7

LEMMA PrefixFacts ==
  ASSUME NEW x, NEW y
  PROVE  /\ \A k \in 0..Len(<<x>>) : SubSeq(<<x>>, 1, k) \in {<<>>, <<x>>}
         /\ \A k \in 0..Len(<<x, y>>) : SubSeq(<<x, y>>, 1, k) \in {<<>>, <<x>>, <<x, y>>}
<1>1. /\ <<x>> \in Seq({x, y}) /\ Len(<<x>>) = 1 /\ <<x, y>> \in Seq({x, y}) /\ Len(<<x, y>>) = 2
      /\ <<>> \in Seq({x, y})
  OBVIOUS
<1>2. ASSUME NEW s \in Seq({x, y}), NEW k \in 0..Len(s)
      PROVE  /\ SubSeq(s, 1, k) \in Seq({x, y}) /\ Len(SubSeq(s, 1, k)) = k
             /\ \A i \in 1..k : SubSeq(s, 1, k)[i] = s[i]
  OBVIOUS
<1>3. ASSUME NEW k \in 0..1 PROVE SubSeq(<<x>>, 1, k) \in {<<>>, <<x>>}
  <2> DEFINE u == SubSeq(<<x>>, 1, k)
  <2>1. u \in Seq({x, y}) /\ Len(u) = k /\ \A i \in 1..k : u[i] = <<x>>[i]
    BY <1>1, <1>2
  <2> HIDE DEF u
  <2>2. u \in {<<>>, <<x>>}
    BY <1>1, <2>1
  <2> QED
    BY <2>2 DEF u
<1>4. ASSUME NEW k \in 0..2 PROVE SubSeq(<<x, y>>, 1, k) \in {<<>>, <<x>>, <<x, y>>}
  <2> DEFINE u == SubSeq(<<x, y>>, 1, k)
  <2>1. u \in Seq({x, y}) /\ Len(u) = k /\ \A i \in 1..k : u[i] = <<x, y>>[i]
    BY <1>1, <1>2
  <2> HIDE DEF u
  <2>2. u \in {<<>>, <<x>>, <<x, y>>}
    <3>1. <<x, y>>[1] = x /\ <<x, y>>[2] = y /\ <<x>>[1] = x /\ k \in {0, 1, 2}
      OBVIOUS
    <3>2. CASE k = 2
      <4>1. Len(u) = Len(<<x, y>>) /\ \A i \in 1..Len(u) : u[i] = <<x, y>>[i]
        BY <1>1, <2>1, <3>2
      <4> QED
        BY <1>1, <2>1, <4>1, SeqEqual
    <3>3. CASE k = 1
      <4>1. Len(u) = Len(<<x>>) /\ \A i \in 1..Len(u) : u[i] = <<x>>[i]
        BY <1>1, <2>1, <3>1, <3>3
      <4> QED
        BY <1>1, <2>1, <4>1, SeqEqual
    <3>4. CASE k = 0
      BY <2>1, <3>4
    <3> QED
      BY <3>1, <3>2, <3>3, <3>4
  <2> QED
    BY <2>2 DEF u
<1> QED
  BY <1>1, <1>3, <1>4

LEMMA OneLost == ASSUME OneInv, One!DeviceLost PROVE ManifestInv' /\ LoopInv'
<1>1. /\ UNCHANGED <<pc, local, stale, data, info, manifest, phone, base, acked, full, hunk, dev>>
      /\ pc \notin {"out", "store"} /\ \E k \in 0..Len(inbox) : inbox' = SubSeq(inbox, 1, k)
  BY DEF One!DeviceLost, One!disk, One!device
<1>2. ManifestInv'
  BY <1>1, ManifestStays DEF OneInv
<1>3. ASSUME pc \in OneLoop PROVE LoopInv'
  <2>1. OneSent /\ pc = "loop" /\ (dev = "idle" => inbox = <<>> /\ ~hunk)
    BY <1>1, <1>3 DEF OneInv, LoopInv, OneLoop
  <2>2. \A f : (Due(f)' <=> Due(f)) /\ \A k : One!FileHunk(k, f)' = One!FileHunk(k, f)
    BY <1>1 DEF Due, One!Listed, One!FileHunk, One!Gone
  <2>3. One!Listed(phone)' = One!Listed(phone) /\ One!Listed(base)' = One!Listed(base)
    BY <1>1 DEF One!Listed, One!Gone
  <2>4. \A x : inbox = <<x>> => inbox' \in {<<>>, inbox}
    BY <1>1, PrefixFacts
  <2>5. ASSUME NEW x, NEW y, inbox = <<x, y>> PROVE inbox' \in {<<>>, <<x>>, inbox}
    BY <1>1, <2>5, PrefixFacts
  <2>6. inbox = <<>> => inbox' = <<>>
    BY <1>1
  <2>7. OneSent'
    <3> DEFINE LastOne == \E f \in Files : /\ Due(f) /\ inbox = <<One!FileHunk("last", f)>>
                                           /\ (hunk /\ ~local) => data[f] = One!Half
    <3>1. CASE ~hunk /\ \E f \in Files : Due(f) /\ inbox \in {<<One!FileHunk("hunk", f)>>,
                                                    <<One!FileHunk("hunk", f), One!FileHunk("last", f)>>}
      <4>1. PICK f \in Files : Due(f) /\ inbox \in {<<One!FileHunk("hunk", f)>>,
                                                    <<One!FileHunk("hunk", f), One!FileHunk("last", f)>>}
        BY <3>1
      <4>2. inbox' \in {<<>>, <<One!FileHunk("hunk", f)>>, <<One!FileHunk("hunk", f), One!FileHunk("last", f)>>}
        BY <4>1, <2>4, <2>5
      <4> QED
        BY <1>1, <3>1, <2>2, <4>1, <4>2 DEF OneSent
    <3>2. CASE LastOne
      <4>1. PICK f \in Files : /\ Due(f) /\ inbox = <<One!FileHunk("last", f)>>
                               /\ (hunk /\ ~local) => data[f] = One!Half
        BY <3>2 DEF LastOne
      <4>2. inbox' \in {<<>>, inbox}
        BY <2>4, <4>1
      <4> QED
        BY <1>1, <2>2, <4>1, <4>2 DEF OneSent, One!Half
    <3>3. CASE inbox' = <<>>
      BY <3>3 DEF OneSent
    <3>4. CASE inbox' = inbox /\ ~LastOne
      BY <1>1, <2>1, <2>2, <2>3, <3>4 DEF OneSent, One!Half
    <3> HIDE DEF LastOne
    <3>5. ASSUME NEW x, inbox = <<x>> PROVE OneSent'
      <4>1. inbox' \in {<<>>, inbox}
        BY <2>4, <3>5
      <4> QED
        BY <3>2, <3>3, <3>4, <4>1
    <3>6. CASE inbox = <<>>
      BY <2>6, <3>3, <3>6
    <3> QED
      BY <2>1, <3>1, <3>2, <3>5, <3>6 DEF OneSent, LastOne
  <2>8. dev' = "idle" => inbox' = <<>>
    BY <1>1, <2>1, <2>6
  <2> QED
    BY <1>1, <1>3, <2>1, <2>7, <2>8 DEF OneInv, LoopInv, Current, Complete, One!Empty, One!NoManifest, One!Gone
<1> QED
  BY <1>1, <1>2, <1>3 DEF LoopInv

LEMMA OneAgain == ASSUME OneInv, One!Again PROVE ManifestInv' /\ LoopInv'
<1>1. /\ UNCHANGED <<data, info, manifest, local, stale>> /\ pc' = "args"
      /\ \A f \in Files : phone'[f] \in {phone[f], One!Gone, run + 1}
  BY DEF One!Again, One!disk
<1>2. ManifestInv /\ (manifest = One!NoManifest \/ manifest \in [Files -> 0..run]) /\ run \in Nat
  BY BackupsAssumption DEF OneInv, OneTypes, OneSets
<1>3. ManifestInv'
  BY <1>1, <1>2 DEF ManifestInv, Current, Complete, One!NoManifest, One!Gone
<1> QED
  BY <1>1, <1>3 DEF LoopInv, OneLoop

LEMMA OneBackups == OneInv /\ One!Next => ManifestInv' /\ LoopInv'
<1> SUFFICES ASSUME OneInv, One!Next PROVE ManifestInv' /\ LoopInv'
  OBVIOUS
<1>1. CASE One!RequestBackup \/ One!ReceiveHunk \/ One!ReceiveLastHunk \/ One!ReceiveManifest
  BY <1>1, OneAsks, OneHunk, OneLast, OneManifest
<1>2. CASE One!ReceiveNothing \/ One!FilesOut \/ One!ReceiveEnd \/ One!World
  BY <1>2, OneWaits
<1>3. CASE One!StoreManifest \/ One!SendsNext \/ One!DeviceLost \/ One!Again
  BY <1>3, OneStored, OneSends, OneLost, OneAgain
<1>4. CASE One!LocalChange
  BY <1>4 DEF One!LocalChange, ManifestInv, LoopInv, OneLoop
<1>5. CASE ~OneReceives
  <2>1. OneTypes /\ ManifestInv
    BY DEF OneInv
  <2>2. /\ UNCHANGED <<phone, data, info, manifest>> /\ (local => local') /\ (stale => stale')
        /\ pc' \notin OneLoop
    BY <1>5, <2>1, OneLeaves
  <2> QED
    BY <2>1, <2>2, ManifestStays DEF LoopInv
<1> QED
  BY <1>1, <1>2, <1>3, <1>4, <1>5 DEF OneReceives

LEMMA OneTyped == OneInv /\ One!Next => OneTypes'
<1> SUFFICES ASSUME OneInv, One!Next PROVE OneTypes'
  OBVIOUS
<1>1. OneTypes
  BY DEF OneInv
<1>2. One!LockTypeOK' /\ OnePhase' /\ OneSets' /\ OneFlags'
  BY <1>1, OneLockTyped, OnePhases, OneSetsStay, OneFlagged
<1>3. LoopInv'
  BY OneBackups
<1>4. OneSent' => Len(inbox') <= 2
  <2>1. Len(<<>>) = 0 /\ \A x, y : Len(<<x>>) = 1 /\ Len(<<x, y>>) = 2
    OBVIOUS
  <2> DEFINE Short == inbox' = <<>> \/ (\E x : inbox' = <<x>>) \/ \E x, y : inbox' = <<x, y>>
  <2>2. ASSUME Short PROVE Len(inbox') <= 2
    <3>1. \A x : inbox' = <<x>> => Len(inbox') = 1
      BY <2>1
    <3>2. \A x, y : inbox' = <<x, y>> => Len(inbox') = 2
      BY <2>1
    <3>3. inbox' = <<>> => Len(inbox') = 0
      BY <2>1
    <3>4. Len(inbox') = 0 \/ Len(inbox') = 1 \/ Len(inbox') = 2
      BY <2>2, <3>1, <3>2, <3>3, Zenon
    <3>5. \A n : (n = 0 \/ n = 1 \/ n = 2) => n <= 2
      OBVIOUS
    <3> QED
      BY <3>4, <3>5, Zenon
  <2>3. OneSent' => Short
    BY Zenon DEF OneSent
  <2> QED
    BY <2>2, <2>3
<1>5. pc' = "report" => inbox' = <<>> \/ inbox' = inbox
  <2> USE DEF One!frame
  <2> DEFINE G == pc' = "report" => inbox' = <<>> \/ inbox' = inbox
  <2>1. One!Args \/ One!Connect \/ One!CheckInfo \/ One!Leave \/ One!Lock => G
    BY DEF One!Args, One!Connect, One!CheckInfo, One!Leave, One!Lock
  <2>2. One!ReadManifest \/ One!StatusFailed \/ One!RequestBackup => G
    BY DEF One!ReadManifest, One!StatusFailed, One!RequestBackup
  <2>3. One!Verify => G
    BY DEF One!Verify
  <2>4. One!ReceiveHunk \/ One!ReceiveLastHunk => G
    BY DEF One!ReceiveHunk, One!ReceiveLastHunk
  <2>5. One!ReceiveManifest \/ One!ReceiveNothing \/ One!FilesOut => G
    BY DEF One!ReceiveManifest, One!ReceiveNothing, One!FilesOut
  <2>6. One!ReceiveEnd => G
    <3>1. ASSUME One!ReceiveEnd PROVE OneSent /\ pc = "loop"
      BY <3>1 DEF OneInv, LoopInv, OneLoop, One!ReceiveEnd, One!Message, One!Heard
    <3> QED
      BY <3>1, OneHears DEF One!ReceiveEnd, One!Message, One!Heard
  <2>7. One!StoreManifest \/ One!Report => G
    BY DEF One!StoreManifest, One!Report
  <2>8. One!RequestRestore \/ One!RestoreFile \/ One!RestoreApps \/ One!Complete => G
    BY DEF One!RequestRestore, One!RestoreFile, One!RestoreApps, One!Complete
  <2>9. One!Finish \/ One!Free \/ One!Crash \/ One!Again => G
    BY DEF One!Finish, One!Free, One!Crash, One!Again
  <2>10. One!SendsNext \/ One!DeviceLost \/ One!LocalChange \/ One!World => G
    BY DEF One!SendsNext, One!DeviceLost, One!LocalChange, One!World
  <2> HIDE DEF G
  <2>11. G
    BY <2>1, <2>2, <2>3, <2>4, <2>5, <2>6, <2>7, <2>8, <2>9, <2>10 DEF One!Next, One!Tool
  <2> QED
    BY <2>11 DEF G
<1>6. pc' \notin OneLoop \union {"report"} => inbox' = <<>>
  BY <1>2 DEF OnePhase
<1>7. Len(inbox') <= 2
  <2>1. Len(<<>>) = 0
    OBVIOUS
  <2> QED
    BY <1>1, <1>3, <1>4, <1>5, <1>6, <2>1 DEF LoopInv, OneTypes
<1> QED
  BY <1>2, <1>7 DEF OneTypes

\* The parts of StatusInv that are about the steps, and about the directory.
StatusSteps ==
  /\ (pc \in {"ask", "report"} \union OneLoop) => stat # 1 \/ local
  /\ pc \in {"status0", "ask"} => IF full THEN stale \/ manifest = One!NoManifest ELSE manifest # One!NoManifest
  /\ pc \in BeforeLock \union {"lock", "request", "status0", "ask"} \union OneLoop => ~ok
StatusWhole == ((pc = "report" /\ ok /\ ~local /\ ~stale) => One!Whole) /\ One!StatusTrue

\* The steps of a running backup, which know that Status.plist does not say success.
OneRuns ==
  \/ One!RequestBackup \/ One!ReceiveHunk \/ One!ReceiveLastHunk \/ One!ReceiveManifest \/ One!ReceiveNothing
  \/ One!FilesOut \/ One!ReceiveEnd

LEMMA OneRunsOn ==
  ASSUME OneInv, OneRuns
  PROVE  /\ pc \in {"ask", "loop", "out"} /\ pc' \in {"loop", "out", "report", "store", "unlock"}
         /\ UNCHANGED <<stat, ok>> /\ (local => local')
<1> USE DEF OneRuns, OneInv, OneTypes, OneFlags, One!frame, One!disk, One!device
<1>1. CASE One!RequestBackup
  BY <1>1 DEF One!RequestBackup
<1>2. CASE One!ReceiveHunk
  BY <1>2, OneReceivesHunk DEF One!ReceiveHunk
<1>3. CASE One!ReceiveLastHunk
  BY <1>3, OneReceivesLast DEF One!ReceiveLastHunk
<1>4. CASE One!ReceiveManifest
  BY <1>4 DEF One!ReceiveManifest, One!Write, One!Message, One!Heard
<1>5. CASE One!ReceiveNothing
  BY <1>5 DEF One!ReceiveNothing
<1>6. CASE One!FilesOut
  BY <1>6 DEF One!FilesOut
<1>7. CASE One!ReceiveEnd
  BY <1>7 DEF One!ReceiveEnd, One!Message, One!Heard
<1> QED
  BY <1>1, <1>2, <1>3, <1>4, <1>5, <1>6, <1>7

LEMMA OneStatus == OneInv /\ One!Next => StatusInv'
<1> SUFFICES ASSUME OneInv, One!Next PROVE StatusSteps' /\ StatusWhole'
  BY DEF StatusInv, StatusSteps, StatusWhole
<1>0. StatusSteps /\ StatusWhole /\ OneFlags /\ OnePhase /\ ManifestInv
  BY DEF OneInv, StatusInv, StatusSteps, StatusWhole, OneTypes
<1> USE DEF BeforeLock, OneFlags, One!frame, One!disk, One!device, OneLoop
<1> DEFINE Steps == StatusSteps'
           Says == StatusWhole'
<1>1. OneRuns => Steps /\ Says
  <2> SUFFICES ASSUME OneRuns PROVE Steps /\ Says
    OBVIOUS
  <2>1. /\ pc \in {"ask", "loop", "out"} /\ pc' \in {"loop", "out", "report", "store", "unlock"}
        /\ UNCHANGED <<stat, ok>> /\ (local => local')
    BY OneRunsOn
  <2>2. (stat # 1 \/ local) /\ ~ok
    BY <1>0, <2>1 DEF StatusSteps
  <2> QED
    BY <2>1, <2>2 DEF StatusSteps, StatusWhole, One!StatusTrue, One!StatusSays
<1>2. One!Args \/ One!Connect \/ One!CheckInfo \/ One!Leave => Steps
  BY <1>0 DEF StatusSteps, OnePhase, One!Absent, One!NoManifest,
    One!Args, One!Connect, One!CheckInfo, One!WriteInfo, One!Write, One!Leave
<1>3. One!Args \/ One!Connect \/ One!CheckInfo \/ One!Leave => Says
  BY <1>0 DEF StatusSteps, StatusWhole, OnePhase, One!StatusTrue, One!StatusSays, One!Whole, One!Absent,
     One!NoManifest, One!Listed, One!Gone,
    One!Args, One!Connect, One!CheckInfo, One!WriteInfo, One!Write, One!Leave
<1>4. One!Lock => Steps
  BY <1>0 DEF StatusSteps, OnePhase, One!Absent, One!NoManifest,
    One!Lock, One!OpenLock, One!TryLock, One!LockTimeout
<1>5. One!Lock => Says
  <2> SUFFICES ASSUME One!Lock PROVE Says
    OBVIOUS
  <2>1. UNCHANGED <<stat, local, stale, data, info, manifest, ok>>
    BY DEF One!Lock
  <2>2. pc \in {"open", "lock"} /\ pc' # "report"
    BY DEF One!Lock, One!OpenLock, One!TryLock, One!LockTimeout
  <2>3. One!Whole' <=> One!Whole
    BY <2>1 DEF One!Whole, One!Listed, One!NoManifest, One!Gone
  <2>4. stat' = stat /\ (local => local') /\ (stale => stale')
    BY <2>1
  <2> QED
    BY ONLY <1>0, <2>2, <2>3, <2>4 DEF StatusWhole, One!StatusTrue, One!StatusSays
<1>6. One!ReadManifest \/ One!StatusFailed => Steps
  <2>1. ASSUME One!ReadManifest PROVE Steps
    <3>1. pc = "request" /\ pc' = "status0" /\ UNCHANGED <<manifest, ok>>
      BY <2>1 DEF One!ReadManifest
    <3>2. IF full' THEN stale' \/ manifest = One!NoManifest ELSE manifest # One!NoManifest
      BY <2>1, Zenon DEF One!ReadManifest
    <3>3. One!NoManifest' = One!NoManifest
      BY DEF One!NoManifest
    <3> QED
      BY <1>0, <3>1, <3>2, <3>3 DEF StatusSteps
  <2>2. ASSUME One!StatusFailed PROVE Steps
    BY <1>0, <2>2 DEF StatusSteps, One!Absent, One!NoManifest, One!StatusFailed, One!WriteStatus, One!Write
  <2> QED
    BY <2>1, <2>2
<1>7. One!ReadManifest \/ One!StatusFailed => Says
  BY <1>0 DEF StatusSteps, StatusWhole, OnePhase, One!StatusTrue, One!StatusSays, One!Whole, One!Absent,
     One!NoManifest, One!Listed, One!Gone,
    One!ReadManifest, One!WriteInfo, One!Write, One!StatusFailed, One!WriteStatus
<1>8. One!Report => Steps
  BY <1>0 DEF StatusSteps, OnePhase, One!Absent, One!NoManifest,
    One!Report, One!WriteStatus, One!Write
<1>9. One!Report => Says
  BY <1>0 DEF StatusSteps, StatusWhole, OnePhase, One!StatusTrue, One!StatusSays, One!Whole, One!Absent,
     One!NoManifest, One!Listed, One!Gone,
    One!Report, One!WriteStatus, One!Write
<1>10. One!Verify \/ One!RequestRestore => Steps
  BY <1>0 DEF StatusSteps, OnePhase, One!Absent, One!NoManifest,
    One!Verify, One!RequestRestore
<1>11. One!Verify \/ One!RequestRestore => Says
  BY <1>0 DEF StatusSteps, StatusWhole, OnePhase, One!StatusTrue, One!StatusSays, One!Whole, One!Absent,
     One!NoManifest, One!Listed, One!Gone,
    One!Verify, One!RequestRestore
<1>12. One!RestoreFile \/ One!RestoreApps \/ One!Complete => Steps
  BY <1>0 DEF StatusSteps, OnePhase, One!Absent, One!NoManifest,
    One!RestoreFile, One!RestoreApps, One!Complete
<1>13. One!RestoreFile \/ One!RestoreApps \/ One!Complete => Says
  BY <1>0 DEF StatusSteps, StatusWhole, OnePhase, One!StatusTrue, One!StatusSays, One!Whole, One!Absent,
     One!NoManifest, One!Listed, One!Gone,
    One!RestoreFile, One!RestoreApps, One!Complete
<1>14. One!Finish \/ One!Free => Steps
  BY <1>0 DEF StatusSteps, OnePhase, One!Absent, One!NoManifest,
    One!Finish, One!Unlock, One!Free
<1>15. One!Finish \/ One!Free => Says
  BY <1>0 DEF StatusSteps, StatusWhole, OnePhase, One!StatusTrue, One!StatusSays, One!Whole, One!Absent,
     One!NoManifest, One!Listed, One!Gone,
    One!Finish, One!Unlock, One!Free
<1>16. One!Crash \/ One!Again => Steps
  BY <1>0 DEF StatusSteps, OnePhase, One!Absent, One!NoManifest,
    One!Crash, One!Again
<1>17. One!Crash \/ One!Again => Says
  BY <1>0 DEF StatusSteps, StatusWhole, OnePhase, One!StatusTrue, One!StatusSays, One!Whole, One!Absent,
     One!NoManifest, One!Listed, One!Gone,
    One!Crash, One!Again
<1>18. One!SendsNext \/ One!DeviceLost => Steps
  BY <1>0 DEF StatusSteps, OnePhase, One!Absent, One!NoManifest,
    One!SendsNext, One!DeviceLost
<1>19. One!SendsNext \/ One!DeviceLost => Says
  BY <1>0 DEF StatusSteps, StatusWhole, OnePhase, One!StatusTrue, One!StatusSays, One!Whole, One!Absent,
     One!NoManifest, One!Listed, One!Gone,
    One!SendsNext, One!DeviceLost
<1>20. One!LocalChange \/ One!World => Steps
  BY <1>0 DEF StatusSteps, OnePhase, One!Absent, One!NoManifest,
    One!LocalChange, One!World, One!OtherLock, One!Quit
<1>21. One!LocalChange \/ One!World => Says
  BY <1>0 DEF StatusSteps, StatusWhole, OnePhase, One!StatusTrue, One!StatusSays, One!Whole, One!Absent,
     One!NoManifest, One!Listed, One!Gone,
    One!LocalChange, One!World, One!OtherLock, One!Quit
<1>22. One!StoreManifest => Steps /\ Says
  <2> SUFFICES ASSUME One!StoreManifest PROVE Steps /\ Says
    OBVIOUS
  <2>1. pc = "store" /\ pc' = "report" /\ UNCHANGED stat /\ (local => local') /\ (stale' => stale)
    BY <1>0 DEF One!StoreManifest, One!Write
  <2>2. stat # 1 \/ local
    BY <1>0, <2>1 DEF StatusSteps
  <2>3. (~local' /\ ~stale') => One!Whole'
    BY OneStores
  <2> QED
    BY <2>1, <2>2, <2>3 DEF StatusSteps, StatusWhole, One!StatusTrue, One!StatusSays
<1> HIDE DEF Steps, Says
<1> QED
  BY <1>1, <1>2, <1>3, <1>4, <1>5, <1>6, <1>7, <1>8, <1>9, <1>10, <1>11, <1>12, <1>13, <1>14, <1>15, <1>16,
     <1>17, <1>18, <1>19, <1>20, <1>21, <1>22
  DEF One!Next, One!Tool, OneRuns, Steps, Says

\* Steps outside of a restore send nothing to the phone.
LEMMA OneElsewhere ==
  ASSUME OneInv, One!Next, pc \notin OneRestore \union OneEnd, ~One!Verify
  PROVE  restored' = restored /\ pc' \notin OneRestore /\ (outcome' = "success" => outcome = "success" \/ cmd' = "backup")
<1>1. OnePhase
  BY DEF OneInv, OneTypes
<1> USE DEF OneRestore, OneEnd, One!frame, One!disk, One!device
<1>2. CASE One!Args \/ One!Connect \/ One!CheckInfo \/ One!Leave
  BY <1>2 DEF One!Args, One!Connect, One!CheckInfo, One!Leave
<1>3. CASE One!Lock
  BY <1>3 DEF One!Lock, One!OpenLock, One!TryLock, One!LockTimeout
<1>4. CASE One!ReadManifest \/ One!StatusFailed
  BY <1>4 DEF One!ReadManifest, One!StatusFailed
<1>5. CASE One!RequestBackup
  BY <1>5 DEF One!RequestBackup
<1>6. CASE One!ReceiveHunk \/ One!ReceiveLastHunk
  BY <1>6 DEF One!ReceiveHunk, One!ReceiveLastHunk
<1>7. CASE One!ReceiveManifest \/ One!ReceiveNothing \/ One!FilesOut \/ One!ReceiveEnd
  BY <1>7 DEF One!ReceiveManifest, One!ReceiveNothing, One!FilesOut, One!ReceiveEnd
<1>8. CASE One!StoreManifest
  BY <1>8 DEF One!StoreManifest
<1>9. CASE One!Report
  BY <1>1, <1>9 DEF One!Report, OnePhase, OneLoop
<1>10. CASE One!RequestRestore \/ One!RestoreFile \/ One!RestoreApps \/ One!Complete \/ One!Finish \/ One!Free
  BY <1>10 DEF One!RequestRestore, One!RestoreFile, One!RestoreApps, One!Complete, One!Finish, One!Unlock, One!Free
<1>11. CASE One!Crash
  BY <1>11 DEF One!Crash
<1>12. CASE One!Again
  BY <1>12 DEF One!Again
<1>13. CASE One!SendsNext \/ One!DeviceLost
  BY <1>13 DEF One!SendsNext, One!DeviceLost
<1>14. CASE One!LocalChange \/ One!World
  BY <1>14 DEF One!LocalChange, One!World, One!OtherLock, One!Quit
<1> QED
  BY <1>2, <1>3, <1>4, <1>5, <1>6, <1>7, <1>8, <1>9, <1>10, <1>11, <1>12, <1>13, <1>14 DEF One!Next, One!Tool

\* At the end, and while the world moves, a restore stays as it is.
LEMMA OneRests ==
  ASSUME OneInv, One!Finish \/ One!Free \/ One!Crash \/ One!DeviceLost \/ One!World
  PROVE  UNCHANGED <<data, info, manifest, stat, restored, apps, left, ok, outcome, run, cmd, local, stale>> /\ pc' \in {pc} \union OneEnd
<1> USE DEF OneEnd, One!disk, One!device
<1>1. CASE One!Finish
  BY <1>1 DEF One!Finish, One!Unlock
<1>2. CASE One!Free
  BY <1>2 DEF One!Free, One!frame
<1>3. CASE One!Crash
  BY <1>3 DEF One!Crash
<1>4. CASE One!DeviceLost
  BY <1>4 DEF One!DeviceLost
<1>5. CASE One!World
  BY <1>5 DEF One!World, One!OtherLock, One!Quit
<1> QED
  BY <1>1, <1>2, <1>3, <1>4, <1>5

LEMMA OneRestTrue == OneInv /\ One!Next => RestoreInv'
<1> SUFFICES ASSUME OneInv, One!Next PROVE RestoreInv'
  OBVIOUS
<1>0. RestoreInv /\ OnePhase /\ OneSets /\ OneFlags /\ OnePhase' /\ OneSets'
  BY OneTyped DEF OneInv, OneTypes
<1>1. \A f \in Files : One!Empty[f] = One!Gone /\ One!Empty' = One!Empty /\ One!Gone' = One!Gone
  BY DEF One!Empty, One!Gone
<1>01. One!Empty' = One!Empty
  BY DEF One!Empty, One!Gone
<1>2. Hashed \subseteq Files
  BY BackupsAssumption
<1>3. stat = 1 /\ ~local /\ ~stale => One!Whole
  BY DEF OneInv, StatusInv, One!StatusTrue, One!StatusSays
<1>4. ASSUME pc \notin OneRestore \union OneEnd, ~One!Verify PROVE RestoreInv'
  <2>1. /\ restored' = restored /\ pc' \notin OneRestore
        /\ (outcome' = "success" => outcome = "success" \/ cmd' = "backup")
    BY <1>4, OneElsewhere
  <2>2. restored = One!Empty /\ outcome = "none"
    BY <1>0, <1>4 DEF RestoreInv, OnePhase, OneRestore, OneEnd
  <2>3. outcome' = "success" => cmd' # "restore"
    BY <2>1, <2>2
  <2>4. One!RestoreTrue'
    BY <1>1, <1>2, <2>1, <2>2, <2>3 DEF One!RestoreTrue
  <2> QED
    BY <1>01, <2>1, <2>2, <2>4 DEF RestoreInv, OneRestore, OneEnd
<1>5. CASE One!Verify
  <2>1. UNCHANGED One!frame /\ UNCHANGED One!disk /\ UNCHANGED One!device /\ pc = "request" /\ cmd = "restore"
    BY <1>5 DEF One!Verify
  <2>2. \/ /\ pc' = "ask2" /\ left' = One!Listed(manifest) /\ outcome' = outcome
           /\ stat = 1 /\ One!Listed(manifest) # {} /\ \A f \in One!Listed(manifest) : One!Intact(f)
        \/ pc' = "unlock" /\ outcome' = "failed"
    BY <1>5 DEF One!Verify
  <2>3. restored = One!Empty /\ outcome = "none"
    BY <1>0, <2>1 DEF RestoreInv, OnePhase, OneRestore, OneEnd, OneWork
  <2>4. UNCHANGED <<data, manifest, stat, restored, apps, cmd, local, stale, run>>
    BY <2>1 DEF One!frame, One!disk, One!device
  <2>5. outcome' # "success" /\ restored' = One!Empty
    BY <2>2, <2>3, <2>4
  <2>6. One!RestoreTrue'
    BY <1>1, <1>2, <2>5 DEF One!RestoreTrue
  <2>7. CASE pc' = "unlock"
    BY <1>01, <2>5, <2>6, <2>7 DEF RestoreInv, OneRestore, OneEnd
  <2>8. CASE pc' = "ask2"
    <3>1. manifest \in [Files -> 0..run] /\ One!Listed(manifest)' = One!Listed(manifest)
      BY <1>0, <2>2, <2>4, <2>8 DEF OneSets, One!Listed, One!NoManifest, One!Gone
    <3>2. \A f \in Hashed \intersect One!Listed(manifest) : data[f] = manifest[f]
      BY <2>2, <2>8 DEF One!Intact
    <3>3. \A f \in Hashed \intersect left' : data'[f] \in {manifest'[f], One!Absent}
      BY <2>2, <2>4, <2>8, <3>2
    <3> QED
      BY <1>01, <2>2, <2>4, <2>5, <2>6, <2>8, <3>1, <3>3 DEF RestoreInv, OneRestore, OneEnd, One!Absent
  <2> QED
    BY <2>2, <2>7, <2>8
<1>6. CASE One!RequestRestore
  <2>1. /\ UNCHANGED <<data, manifest, stat, left, ok, run, cmd, local, stale>> /\ pc = "ask2"
        /\ \/ pc' = "files" /\ restored' = One!Empty /\ outcome' = outcome
           \/ pc' = "unlock" /\ outcome' = "failed" /\ restored' = restored
    BY <1>6 DEF One!RequestRestore, One!frame, One!disk
  <2>2. /\ restored = One!Empty /\ outcome = "none" /\ stat = 1 /\ manifest \in [Files -> 0..run]
        /\ left = One!Listed(manifest) /\ \A f \in Hashed \intersect left : data[f] \in {manifest[f], One!Absent}
    BY <1>0, <2>1 DEF RestoreInv, OnePhase, OneRestore, OneEnd
  <2>3. outcome' # "success" /\ restored' = One!Empty
    BY <2>1, <2>2
  <2>4. One!RestoreTrue'
    BY <1>1, <1>2, <2>3 DEF One!RestoreTrue
  <2>5. One!Listed(manifest)' = One!Listed(manifest)
    BY <2>1 DEF One!Listed, One!Gone
  <2>6. CASE pc' = "unlock"
    BY <1>01, <2>3, <2>4, <2>6 DEF RestoreInv, OneRestore, OneEnd
  <2>7. CASE pc' = "files"
    <3>1. /\ left' = One!Listed(manifest') /\ stat' = 1 /\ manifest' \in [Files -> 0..run']
          /\ \A f \in Hashed \intersect left' : data'[f] \in {manifest'[f], One!Absent}
      BY <2>1, <2>2, <2>5
    <3> QED
      BY <2>4, <2>7, <3>1 DEF RestoreInv, OneRestore, OneEnd, One!Absent
  <2> QED
    BY <2>1, <2>6, <2>7

<1>7. CASE One!RestoreFile
  <2>1. /\ UNCHANGED <<data, info, manifest, stat, apps, outcome, run, cmd, local, stale>> /\ pc = "files"
        /\ \/ left = {} /\ pc' = "apps" /\ UNCHANGED <<left, restored, ok>>
           \/ \E f \in left : data[f] = One!Absent /\ pc' = "apps" /\ UNCHANGED <<left, restored, ok>>
           \/ \E f \in left : /\ data[f] # One!Absent /\ restored' = [restored EXCEPT ![f] = data[f]]
                              /\ left' = left \ {f} /\ pc' = pc
           \/ ok' = FALSE /\ pc' = "apps" /\ UNCHANGED <<left, restored>>
    <3>1. UNCHANGED One!frame /\ UNCHANGED One!disk /\ UNCHANGED <<apps, outcome>> /\ pc = "files"
      BY <1>7 DEF One!RestoreFile
    <3>2. \/ left = {} /\ pc' = "apps" /\ UNCHANGED <<left, restored, ok>>
          \/ \E f \in left : data[f] = One!Absent /\ pc' = "apps" /\ UNCHANGED <<left, restored, ok>>
          \/ \E f \in left : /\ data[f] # One!Absent /\ restored' = [restored EXCEPT ![f] = data[f]]
                             /\ left' = left \ {f} /\ pc' = pc
          \/ ok' = FALSE /\ pc' = "apps" /\ UNCHANGED <<left, restored>>
      BY <1>7 DEF One!RestoreFile
    <3> QED
      BY <3>1, <3>2 DEF One!frame, One!disk
  <2>2. /\ stat = 1 /\ manifest \in [Files -> 0..run] /\ left \subseteq One!Listed(manifest) /\ outcome = "none"
        /\ \A f \in Hashed \intersect left : data[f] \in {manifest[f], One!Absent}
        /\ (~local /\ ~stale) => \A f \in One!Listed(manifest) \ left : restored[f] = manifest[f]
        /\ \A f \in Hashed : restored[f] # One!Gone => restored[f] = manifest[f]
        /\ restored \in [Files -> -2..run]
    BY <1>0, <2>1 DEF RestoreInv, OnePhase, OneRestore, OneEnd, OneSets, One!RestoreTrue
  <2>3. (~local /\ ~stale) => \A f \in left : data[f] = manifest[f] /\ data[f] # One!Absent
    <3>1. \A f \in left : f \in Files /\ manifest[f] \in 0..run
      BY <2>2 DEF One!Listed
    <3>2. \A n \in 0..run : n # -1
      BY <1>0, BackupsAssumption DEF OneSets
    <3>3. (~local /\ ~stale) => \A f \in left : data[f] = manifest[f]
      BY <1>3, <2>2 DEF One!Whole
    <3> QED
      BY <3>1, <3>2, <3>3 DEF One!Absent
  <2>4. One!Listed(manifest)' = One!Listed(manifest) /\ One!Absent' = One!Absent /\ One!Gone' = One!Gone
    BY <2>1 DEF One!Listed, One!Gone, One!Absent
  <2>5. \A f \in Hashed : restored'[f] # One!Gone => restored'[f] = manifest'[f]
    BY <1>2, <2>1, <2>2
  <2>6. One!RestoreTrue'
    BY <2>1, <2>2, <2>4, <2>5 DEF One!RestoreTrue
  <2>7. CASE pc' = "apps"
    <3>1. (~local /\ ~stale /\ ok') => \A f \in One!Listed(manifest) : restored'[f] = manifest[f]
      BY <2>1, <2>2, <2>3, <2>7
    <3>2. (~local' /\ ~stale' /\ ok') => \A f \in One!Listed(manifest)' : restored'[f] = manifest'[f]
      BY <2>1, <2>4, <3>1
    <3>3. stat' = 1 /\ manifest' \in [Files -> 0..run']
      BY <2>1, <2>2
    <3> QED
      BY <2>6, <2>7, <3>2, <3>3 DEF RestoreInv, OneRestore, OneEnd
  <2>8. CASE pc' = pc
    <3>1. PICK f \in left : /\ data[f] # One!Absent /\ restored' = [restored EXCEPT ![f] = data[f]]
                            /\ left' = left \ {f} /\ pc' = pc
      BY <2>1, <2>8
    <3>2. left' \subseteq One!Listed(manifest)' /\ stat' = 1 /\ manifest' \in [Files -> 0..run']
      BY <2>1, <2>2, <2>4, <3>1
    <3>3. \A g \in Hashed \intersect left' : data'[g] \in {manifest'[g], One!Absent'}
      BY <2>1, <2>2, <2>4, <3>1
    <3>4. (~local /\ ~stale) => \A g \in One!Listed(manifest) \ left' : restored'[g] = manifest[g]
      BY <2>2, <2>3, <3>1 DEF One!Listed
    <3>5. (~local' /\ ~stale') => \A g \in One!Listed(manifest)' \ left' : restored'[g] = manifest'[g]
      BY <2>1, <2>4, <3>4
    <3> QED
      BY <2>1, <2>6, <2>8, <3>2, <3>3, <3>5 DEF RestoreInv, OneRestore, OneEnd
  <2> QED
    BY <2>1, <2>7, <2>8
<1>8. CASE One!RestoreApps
  <2>1. /\ UNCHANGED <<data, info, manifest, stat, restored, outcome, run, cmd, local, stale>> /\ pc = "apps"
        /\ \/ (~ok \/ apps = Apps) /\ pc' = "complete" /\ UNCHANGED <<apps, ok>>
           \/ pc' = "apps" /\ (ok' = ok \/ ok' = FALSE)
    BY <1>8 DEF One!RestoreApps, One!frame, One!disk
  <2>2. /\ stat = 1 /\ manifest \in [Files -> 0..run] /\ outcome = "none"
        /\ (ok /\ ~local /\ ~stale) => \A f \in One!Listed(manifest) : restored[f] = manifest[f]
        /\ \A f \in Hashed : restored[f] # One!Gone => restored[f] = manifest[f]
    BY <1>0, <2>1 DEF RestoreInv, OnePhase, OneRestore, OneEnd, One!RestoreTrue
  <2>3. One!Listed(manifest)' = One!Listed(manifest) /\ One!Gone' = One!Gone
    BY <2>1 DEF One!Listed, One!Gone
  <2>4. One!RestoreTrue'
    BY <2>1, <2>2, <2>3 DEF One!RestoreTrue
  <2>5. stat' = 1 /\ manifest' \in [Files -> 0..run'] /\ pc' \in {"apps", "complete"}
    BY <2>1, <2>2
  <2>6. (ok' /\ ~local' /\ ~stale') => \A f \in One!Listed(manifest)' : restored'[f] = manifest'[f]
    BY <2>1, <2>2, <2>3
  <2>7. (pc' = "complete" /\ ok') => apps' = Apps
    BY <2>1
  <2> QED
    BY <2>4, <2>5, <2>6, <2>7 DEF RestoreInv, OneRestore, OneEnd
<1>9. CASE One!Complete
  <2>1. /\ UNCHANGED <<data, info, manifest, stat, restored, apps, run, cmd, local, stale, ok>>
        /\ pc = "complete" /\ pc' = "unlock" /\ outcome' = (IF ok THEN "success" ELSE "failed")
    BY <1>9 DEF One!Complete, One!frame, One!disk
  <2>2. /\ (ok /\ ~local /\ ~stale) => \A f \in One!Listed(manifest) : restored[f] = manifest[f]
        /\ \A f \in Hashed : restored[f] # One!Gone => restored[f] = manifest[f]
        /\ ok => apps = Apps
    BY <1>0, <2>1 DEF RestoreInv, OneRestore, OneEnd, One!RestoreTrue
  <2>3. One!Listed(manifest)' = One!Listed(manifest) /\ One!Gone' = One!Gone
    BY <2>1 DEF One!Listed, One!Gone
  <2>4. One!RestoreTrue'
    BY <2>1, <2>2, <2>3 DEF One!RestoreTrue
  <2> QED
    BY <2>1, <2>4 DEF RestoreInv, OneRestore, OneEnd
<1>10. CASE One!LocalChange
  <2>1. /\ UNCHANGED <<pc, info, manifest, stat, restored, apps, left, ok, outcome, run, cmd, stale>>
        /\ pc = "files" /\ local' = TRUE
        /\ \E f \in left : data' = [data EXCEPT ![f] = One!Absent]
    BY <1>10 DEF One!LocalChange, One!device
  <2>2. /\ stat = 1 /\ manifest \in [Files -> 0..run] /\ left \subseteq One!Listed(manifest) /\ outcome = "none"
        /\ \A f \in Hashed \intersect left : data[f] \in {manifest[f], One!Absent}
        /\ \A f \in Hashed : restored[f] # One!Gone => restored[f] = manifest[f]
        /\ data \in [Files -> -2..run]
    BY <1>0, <2>1 DEF RestoreInv, OnePhase, OneRestore, OneEnd, OneSets, One!RestoreTrue
  <2>3. One!Listed(manifest)' = One!Listed(manifest) /\ One!Absent' = One!Absent /\ One!Gone' = One!Gone
    BY <2>1 DEF One!Listed, One!Gone, One!Absent
  <2>4. One!RestoreTrue'
    BY <2>1, <2>2, <2>3 DEF One!RestoreTrue
  <2>5. \A f \in Hashed \intersect left' : data'[f] \in {manifest'[f], One!Absent'}
    BY <1>2, <2>1, <2>2, <2>3
  <2>6. left' \subseteq One!Listed(manifest)' /\ stat' = 1 /\ manifest' \in [Files -> 0..run']
    BY <2>1, <2>2, <2>3
  <2> QED
    BY <2>1, <2>4, <2>5, <2>6 DEF RestoreInv, OneRestore, OneEnd
<1>11. CASE One!Finish \/ One!Free \/ One!Crash \/ One!DeviceLost \/ One!World
  <2>1. UNCHANGED <<data, info, manifest, stat, restored, apps, left, ok, outcome, run, cmd, local, stale>> /\ pc' \in {pc} \union OneEnd
    BY <1>11, OneRests
  <2>2. UNCHANGED <<One!Listed(manifest), One!Absent, One!Gone>>
    BY <2>1 DEF One!Listed, One!Gone, One!Absent
  <2>3. One!RestoreTrue'
    BY <1>0, <2>1, <2>2 DEF RestoreInv, One!RestoreTrue
  <2>4. CASE pc' = pc
    BY <1>0, <1>01, <2>1, <2>2, <2>3, <2>4 DEF RestoreInv
  <2>5. CASE pc' \in OneEnd
    BY <2>3, <2>5 DEF RestoreInv, OneRestore, OneEnd
  <2> QED
    BY <2>1, <2>4, <2>5
<1>12. CASE One!Again
  <2>1. restored' = One!Empty /\ outcome' = "none" /\ pc' = "args"
    BY <1>12 DEF One!Again
  <2>2. One!RestoreTrue'
    BY <1>1, <1>2, <2>1 DEF One!RestoreTrue
  <2> QED
    BY <1>01, <2>1, <2>2 DEF RestoreInv, OneRestore, OneEnd
<1>13. ASSUME pc \in OneRestore \union OneEnd
       PROVE  \/ One!Verify \/ One!RequestRestore \/ One!RestoreFile \/ One!RestoreApps \/ One!Complete \/ One!LocalChange
              \/ One!Finish \/ One!Free \/ One!Crash \/ One!DeviceLost \/ One!World \/ One!Again
  BY <1>13 DEF OneRestore, OneEnd, One!Next, One!Tool, One!Args, One!Connect, One!CheckInfo, One!Lock,
     One!OpenLock,
       One!TryLock, One!LockTimeout, One!Leave, One!ReadManifest, One!StatusFailed, One!RequestBackup, One!ReceiveHunk,
       One!ReceiveLastHunk, One!ReceiveManifest, One!ReceiveNothing, One!FilesOut, One!ReceiveEnd, One!Message, One!Heard,
       One!StoreManifest, One!Report, One!SendsNext
<1> QED
  BY <1>4, <1>5, <1>6, <1>7, <1>8, <1>9, <1>10, <1>11, <1>12, <1>13

LEMMA OneNext == OneInv /\ One!Next => OneInv'
BY OneLocks, OneTyped, OneBackups, OneStatus, OneRestTrue DEF OneInv

\* What the invariant says of the properties.
LEMMA OneHolds ==
  ASSUME OneInv
  PROVE  One!TypeOK /\ One!StatusTrue /\ One!RestoreTrue /\ One!LockCovers
<1>1. One!TypeOK
  <2>1. OnePhase /\ OneSets /\ One!LockTypeOK /\ Len(inbox) <= 2
    BY DEF OneInv, OneTypes
  <2>2. run \in 1..MaxRuns /\ 0..run \subseteq 0..MaxRuns /\ -2..run \subseteq -2..MaxRuns
    BY <2>1, BackupsAssumption DEF OneSets
  <2>3. /\ phone \in [Files -> 0..MaxRuns] /\ \A f \in Files : data[f] \in -2..MaxRuns
        /\ (manifest = One!NoManifest \/ manifest \in [Files -> 0..MaxRuns])
    BY <2>1, <2>2 DEF OneSets
  <2>4. info \subseteq Files /\ left \subseteq Files /\ apps \in 0..Apps
    BY <2>1 DEF OneSets
  <2>5. /\ cmd \in {"backup", "restore", "leave"}
        /\ pc \in {"args", "connect", "info", "open", "lock", "request", "status0", "ask", "loop", "out", "store",
                   "report", "ask2", "files", "apps", "complete", "unlock", "free", "done"}
        /\ stat \in {One!Absent, 0, 1} /\ infoplist \in {"none", "mine", "other", "broken"}
        /\ dev \in {"idle", "ack", "restore", "over"} /\ outcome \in {"none", "success", "failed"}
    BY <2>1 DEF OnePhase, OneWork
  <2> QED
    BY <2>1, <2>2, <2>3, <2>4, <2>5 DEF One!TypeOK
<1>2. One!LockCovers
  BY DEF OneInv, LockKept, OneWork, One!LockCovers
<1> QED
  BY <1>1, <1>2 DEF OneInv, StatusInv, RestoreInv

-----------------------------------------------------------------------------
(* idevicebackup2 *)

TwoStart == {"args", "connect", "hello", "checkpoint", "open", "lock", "request"}
TwoUp == {"dname", "fname", "header", "data", "leftover"}
TwoEnd == {"report", "unlock", "free", "done"}
TwoWork == {"request", "loop", "out", "path", "hunk", "report", "unlock"} \union TwoUp

\* Where the tool is, and what that says of the rest.
TwoPhase ==
  /\ pc \in TwoStart \union {"loop", "out", "path", "hunk"} \union TwoUp \union TwoEnd
  /\ cmd \in Cmds \union {"leave"}
  /\ result \in {"none", "ok", "error"} /\ outcome \in {"none", "success", "failed", "aborted"}
  /\ dev \in {"quiet", "idle", "wait", "path", "file", "ended", "confused"}
  /\ pc \in TwoStart => inbox = <<>> /\ dev = "quiet"
  /\ pc \notin TwoEnd => result = "none" /\ outcome = "none"

\* What can be under way: the data of an upload, and messages.
StreamItem ==
  [kind : {"zero", "cut", "rest"}] \union [kind : {"dname", "fname", "end"}, name : Files]
  \union [kind : {"hunk"}, name : Files, from : Nat, size : 1..HunkMax]
  \union [kind : {"error"}, name : Files, size : {1}]
Upload1 == [kind : {"upload"}]
MessageItem ==
  [kind : {"space", "purge", "list", "mkdir", "badList", "unknown", "disconnect"}] \union Upload1
  \union [kind : {"move", "copy"}, src : Files, dst : Files] \union [kind : {"remove"}, set : SUBSET Files]
  \union [kind : {"download"}, files : Seq(Files)] \union [kind : {"process"}, result : {"none", "ok", "error"}]

TwoSets ==
  /\ inbox \in Seq(StreamItem \union MessageItem)
  /\ disk \in [Files -> Nat \union {Two!Absent}] /\ name \in Files
  /\ batch \subseteq Files /\ saved \subseteq Files /\ asks \in 0..MaxAsks
  /\ nlen \in 0..HunkMax + 1 /\ pending \in 0..nlen /\ status \in {0, 1}
  /\ pc \notin TwoUp => nlen = 0 /\ status = 0
  /\ pc \notin {"data", "leftover"} => pending = 0
  /\ pc = "data" => nlen = pending + 1 /\ disk[name] \in Nat

TwoFlags ==
  /\ encrypts \in BOOLEAN /\ apps \in BOOLEAN /\ refused \in BOOLEAN /\ unanswered \in BOOLEAN
  /\ local \in BOOLEAN /\ garbled \in BOOLEAN /\ stalled \in BOOLEAN

TwoTypes == TwoPhase /\ TwoSets /\ TwoFlags

\* The stream of an upload: what may follow an item, and that it ends with a zero, or anywhere
\* when the device has gone.
Record(x, f) ==
  \/ x.kind = "hunk" /\ x.name = f /\ x.from + x.size <= SizeOnDevice[f]
  \/ x.kind = "end" /\ x.name = f
First(x, f) ==
  \/ Record(x, f) /\ (IF x.kind = "hunk" THEN x.from = 0 ELSE SizeOnDevice[f] = 0)
  \/ x.kind = "error" /\ x.name = f
NextAt(x, f, n) == Record(x, f) /\ n = (IF x.kind = "hunk" THEN x.from ELSE SizeOnDevice[f])
Naming(x) == x.kind \in {"dname", "zero"}
Follows(x, y) ==
  \/ y.kind = "cut"
  \/ x.kind \in {"end", "error"} /\ Naming(y)
  \/ x.kind = "dname" /\ y.kind = "fname" /\ y.name = x.name
  \/ x.kind = "fname" /\ First(y, x.name)
  \/ x.kind = "hunk" /\ NextAt(y, x.name, x.from + x.size)
Stream(q, c) ==
  /\ q \in Seq(StreamItem) /\ q # <<>>
  /\ \A i \in 1..Len(q) - 1 : Follows(q[i], q[i + 1])
  /\ \A i \in 1..Len(q) : q[i].kind = "cut" => c = "lost"
  /\ c = "open" => q[Len(q)].kind = "zero"
CutOff(q, c) == c = "lost" /\ (q = <<>> \/ Head(q).kind = "cut")
\* The device goes on with the next file, or with nothing.
Names(q, c) == CutOff(q, c) \/ (Stream(q, c) /\ Naming(Head(q)))

Announced(q, f) == \E i \in 1..Len(q) : q[i].kind = "fname" /\ q[i].name = f

\* The files of the upload are in the directory or will be, as long as nothing goes wrong;
\* one that the device could not read is not among them.
BatchInv ==
  (conn = "open" /\ ~quit /\ ~stalled) =>
    /\ \A i \in 1..Len(inbox) : inbox[i].kind = "error" => inbox[i].name \notin batch
    /\ ~local => \A f \in batch : \/ disk[f] = SizeOnDevice[f] \/ Announced(inbox, f)
                                  \/ pc \in {"header", "data"} /\ f = name

\* A message that is not an upload is alone, and the device waits for what it is answered with.
Alone(m) ==
  \/ m.kind \in {"space", "purge", "list", "mkdir", "badList", "unknown", "remove", "move", "copy"} /\ dev = "wait"
  \/ m.kind = "download" /\ dev = "path"
  \/ m.kind \in {"process", "disconnect"} /\ dev = "ended"

UploadAhead ==
  /\ inbox # <<>> /\ Head(inbox).kind = "upload" /\ dev = "wait"
  /\ Tail(inbox) \in Seq(StreamItem) /\ Names(Tail(inbox), conn)
  /\ BatchInv /\ \A f \in saved : ~Announced(inbox, f)

\* What the tool finds when it looks for a message.
Listening ==
  \/ /\ inbox \in {<<>>, <<Two!Rest>>}
     /\ conn = "lost" \/ dev \in {"idle", "confused"} \/ (unanswered /\ dev = "wait")
  \/ inbox # <<>> /\ Head(inbox).kind \notin Two!Messages \union {"rest"}
  \/ Len(inbox) = 1 /\ Alone(Head(inbox))
  \/ UploadAhead
ListenInv == (pc = "loop" \/ (pc = "out" /\ ~quit)) => Listening

\* Nothing lies behind the rest of an upload.
Strayed == inbox = <<Two!Rest>>
RestInv == \A i \in 1..Len(inbox) : inbox[i].kind = "rest" => Strayed /\ stalled

\* A download.
SendInv ==
  pc \in {"path", "hunk"} =>
    /\ inbox = <<>> /\ todo \in Seq(Files)
    /\ conn = "open" => dev \in {IF pc = "path" THEN "path" ELSE "file", "confused"}
    /\ pc = "hunk" => /\ todo # <<>> /\ sent \in Nat /\ total \in Nat /\ sent < total
                      /\ ~local => disk[Head(todo)] = total

\* What is written of a file and what is read of it but not written yet end where the next
\* record begins; after a failure the record is still one of the file.
DataNext(m) == \E n \in 1..SizeOnDevice[name] :
                 /\ NextAt(Head(inbox), name, n)
                 /\ (conn = "open" /\ ~local /\ ~quit /\ ~stalled) => n = m

\* An upload.  When the device was silent for too long nothing is known of what comes.
UpInv ==
  pc \in TwoUp =>
    /\ inbox \in Seq(StreamItem) /\ (conn = "open" => dev = "wait") /\ (status = 1 => refused)
    /\ pc # "leftover" => BatchInv /\ \A f \in saved : ~Announced(inbox, f)
    /\ pc \in {"header", "data"} => stalled \/ name \notin saved
    /\ pc = "dname" => quit \/ Strayed \/ Names(inbox, conn)
    /\ pc = "fname" => Strayed \/ CutOff(inbox, conn) \/ (Stream(inbox, conn) /\ Head(inbox).kind = "fname")
    /\ pc = "header" => Strayed \/ CutOff(inbox, conn) \/ (Stream(inbox, conn) /\ First(Head(inbox), name))
    /\ pc = "data" => Strayed \/ CutOff(inbox, conn) \/ (Stream(inbox, conn) /\ DataNext(disk[name] + pending))
    /\ pc = "leftover" => \/ quit \/ stalled \/ conn = "lost" \/ status = 1
                          \/ inbox = <<>> /\ nlen = 0 /\ (~local => \A f \in batch : disk[f] = SizeOnDevice[f])
    /\ (pc = "leftover" /\ nlen > 1) => /\ quit \/ stalled \/ name \notin saved
                                        /\ quit \/ stalled \/ refused \/ (conn = "lost" /\ inbox = <<>>)

\* The files the device has been told are saved are there.
SavedFull == (~local /\ ~stalled) => \A f \in saved : disk[f] = SizeOnDevice[f]
SavedInv ==
  /\ pc \in TwoStart => saved = {}
  /\ SavedFull \/ (quit /\ result = "none" /\ pc \in TwoEnd \union {"out"})
  /\ Two!BackupTrue

TwoInv ==
  LockKept(TwoWork) /\ Two!LockTypeOK /\ TwoTypes /\ RestInv /\ ListenInv /\ SendInv /\ UpInv /\ SavedInv /\ Two!InStep

\* Steps of the tool that have nothing to do with the lock.
TwoGoes ==
  \/ pc' = pc
  \/ pc \notin TwoWork \union {"lock"} /\ pc' # "lock" /\ (pc' \in BeforeLock => pc \in BeforeLock)
  \/ pc \in TwoWork /\ pc' \in TwoWork

LEMMA TwoKeeps ==
  ASSUME Two!Next, ~Two!Lock, ~Two!Finish, ~Two!DeviceLost, ~Two!World
  PROVE  UNCHANGED <<lockfile, holder, tries, posted, conn>> /\ TwoGoes /\ (quit' = quit \/ quit' = TRUE)
<1> USE DEF TwoGoes, TwoWork, TwoUp, BeforeLock, Two!lockVars, Two!Kept, Two!Message
<1>1. CASE Two!Args \/ Two!Connect \/ Two!Hello \/ Two!Report \/ Two!Free
  BY <1>1 DEF Two!Args, Two!Connect, Two!Hello, Two!Report, Two!Free
<1>2. CASE Two!Checkpoint
  BY <1>2 DEF Two!Checkpoint, Two!RequestBackup, Two!RequestRestore, Two!RequestPlain, Two!RequestPassword,
              Two!Leave
<1>3. CASE Two!ReceiveNothing \/ Two!HandleEnd \/ Two!FilesOut
  BY <1>3 DEF Two!ReceiveNothing, Two!HandleEnd, Two!FilesOut
<1>4. CASE Two!HandlePlain \/ Two!HandleFiles
  BY <1>4 DEF Two!HandlePlain, Two!HandleFiles, Two!Answer
<1>5. CASE Two!HandleSendFiles
  BY <1>5 DEF Two!HandleSendFiles
<1>6. CASE Two!SendPath
  BY <1>6 DEF Two!SendPath, Two!FileSent, Two!Answer
<1>7. CASE Two!SendHunk
  BY <1>7 DEF Two!SendHunk, Two!FileSent, Two!Answer
<1>8. CASE Two!HandleReceiveFiles \/ Two!RecvName
  BY <1>8 DEF Two!HandleReceiveFiles, Two!RecvName, Two!NoName, Two!ToHeader
<1>9. CASE Two!RecvHeader \/ Two!RecvData
  BY <1>9 DEF Two!RecvHeader, Two!RecvData, Two!AfterRecord, Two!MakeFile, Two!NoHeader, Two!NoRecord, Two!ToRecord
<1>10. CASE Two!Leftover
  BY <1>10 DEF Two!Leftover, Two!Answer
<1>11. CASE Two!DeviceAsks \/ Two!DeviceEnds \/ Two!DeviceStalls \/ Two!LocalChange
  BY <1>11 DEF Two!DeviceAsks, Two!DeviceEnds, Two!DeviceStalls, Two!LocalChange
<1> QED
  BY <1>1, <1>2, <1>3, <1>4, <1>5, <1>6, <1>7, <1>8, <1>9, <1>10, <1>11 DEF Two!Next, Two!Tool

\* The lock changes only at its own steps.
LEMMA TwoLocks ==
  ASSUME LockKept(TwoWork), Two!LockTypeOK, Two!Next
  PROVE  LockKept(TwoWork)'
<1> USE DEF LockKept, TwoWork, TwoUp, BeforeLock, Two!lockVars
<1> LockAttempts \in Nat \ {0} /\ conn \in {"open", "lost"} /\ tries \in 0..LockAttempts
  BY BackupsAssumption DEF Two!LockTypeOK
<1>1. CASE Two!Lock
  BY <1>1 DEF Two!Lock, Two!OpenLock, Two!TryLock, Two!LockTimeout, Two!GiveUpLock
<1>2. CASE Two!Finish
  BY <1>2 DEF Two!Finish, Two!Unlock
<1>3. CASE Two!DeviceLost
  BY <1>3 DEF Two!DeviceLost, Two!Dropped
<1>4. CASE Two!World
  BY <1>4 DEF Two!World, Two!OtherLock, Two!Quit
<1>5. CASE UNCHANGED <<lockfile, holder, tries, posted, conn>> /\ TwoGoes
  BY <1>5 DEF TwoGoes
<1> QED
  BY <1>1, <1>2, <1>3, <1>4, <1>5, TwoKeeps

LEMMA TwoLockTyped == Two!LockTypeOK /\ Two!Next => Two!LockTypeOK'
<1> SUFFICES ASSUME Two!LockTypeOK, Two!Next PROVE Two!LockTypeOK'
  OBVIOUS
<1> DEFINE Notes == {"willStart", "lockRequest", "didStart", "didFinish"}
<1> LockAttempts \in Nat \ {0}
  BY BackupsAssumption
<1>1. conn \in {"open", "lost"} /\ holder \in {"none", "tool", "other"} /\ tries \in 0..LockAttempts /\ posted \subseteq Notes
  BY DEF Two!LockTypeOK
<1>2. quit \in BOOLEAN /\ lockfile \in BOOLEAN
  BY DEF Two!LockTypeOK
<1>3. \A S \in SUBSET Notes : Two!Post(S) => posted' \subseteq Notes
  BY <1>1 DEF Two!Post
<1>4. Two!Lock => Two!LockTypeOK'
  <2>1. ASSUME Two!OpenLock PROVE Two!LockTypeOK'
    <3>1. UNCHANGED <<quit, conn, holder, tries>> /\ lockfile' \in BOOLEAN
      BY <2>1 DEF Two!OpenLock
    <3>2. posted' \subseteq Notes
      BY <2>1, <1>3 DEF Two!OpenLock
    <3> QED
      BY <1>1, <1>2, <3>1, <3>2 DEF Two!LockTypeOK
  <2>2. ASSUME Two!TryLock PROVE Two!LockTypeOK'
    <3>1. UNCHANGED <<quit, conn>> /\ lockfile' \in BOOLEAN
      BY <2>2, <1>2 DEF Two!TryLock, Two!GiveUpLock
    <3>2. holder' \in {"none", "tool", "other"} /\ tries' \in 0..LockAttempts
      BY <2>2, <1>1 DEF Two!TryLock
    <3>3. posted' \subseteq Notes
      BY <2>2, <1>1, <1>3 DEF Two!TryLock
    <3> QED
      BY <1>1, <1>2, <3>1, <3>2, <3>3 DEF Two!LockTypeOK
  <2>3. ASSUME Two!LockTimeout PROVE Two!LockTypeOK'
    <3>1. UNCHANGED <<quit, conn, holder, posted>> /\ lockfile' \in BOOLEAN
      BY <2>3 DEF Two!LockTimeout, Two!GiveUpLock
    <3>2. tries' \in 0..LockAttempts
      BY <2>3 DEF Two!LockTimeout
    <3> QED
      BY <1>1, <1>2, <3>1, <3>2 DEF Two!LockTypeOK
  <2> QED
    BY <2>1, <2>2, <2>3 DEF Two!Lock
<1>5. Two!Finish => Two!LockTypeOK'
  <2> SUFFICES ASSUME Two!Finish PROVE Two!LockTypeOK'
    OBVIOUS
  <2>1. /\ UNCHANGED <<quit, conn, tries>> /\ lockfile' \in BOOLEAN
        /\ holder' \in {"none", "tool", "other"} /\ (Two!Post({"didFinish"}) \/ posted' = posted)
    BY <1>1, <1>2 DEF Two!Finish, Two!Unlock
  <2> QED
    BY <1>1, <1>2, <1>3, <2>1 DEF Two!LockTypeOK
<1>6. Two!DeviceLost \/ Two!World => Two!LockTypeOK'
  <2> SUFFICES ASSUME Two!DeviceLost \/ Two!World PROVE Two!LockTypeOK'
    OBVIOUS
  <2>1. quit' \in BOOLEAN /\ lockfile' \in BOOLEAN
    BY <1>2 DEF Two!DeviceLost, Two!World, Two!OtherLock, Two!Quit, Two!lockVars
  <2>2. conn' \in {"open", "lost"} /\ holder' \in {"none", "tool", "other"}
    BY <1>1 DEF Two!DeviceLost, Two!World, Two!OtherLock, Two!Quit, Two!Dropped, Two!lockVars
  <2>3. tries' \in 0..LockAttempts /\ posted' \subseteq Notes
    BY <1>1 DEF Two!DeviceLost, Two!World, Two!OtherLock, Two!Quit, Two!lockVars
  <2> QED
    BY <2>1, <2>2, <2>3 DEF Two!LockTypeOK
<1>7. ASSUME ~Two!Lock, ~Two!Finish, ~Two!DeviceLost, ~Two!World PROVE Two!LockTypeOK'
  <2>1. UNCHANGED <<lockfile, holder, tries, posted, conn>> /\ (quit' = quit \/ quit' = TRUE)
    BY <1>7, TwoKeeps
  <2>2. quit' \in BOOLEAN /\ lockfile' \in BOOLEAN
    BY <1>2, <2>1
  <2> QED
    BY <1>1, <2>1, <2>2 DEF Two!LockTypeOK
<1> QED
  BY <1>4, <1>5, <1>6, <1>7

\* What is known of an item by its kind.
LEMMA ItemFacts ==
  ASSUME NEW x \in StreamItem
  PROVE  /\ x.kind \in {"zero", "cut", "rest", "dname", "fname", "end", "hunk", "error"}
         /\ x.kind \notin Two!Messages
         /\ x.kind \in {"dname", "fname", "end", "hunk", "error"} => x.name \in Files
         /\ x.kind = "hunk" => x.from \in Nat /\ x.size \in 1..HunkMax
         /\ x.kind = "error" => x.size = 1
<1>1. CASE x \in [kind : {"zero", "cut", "rest"}]
  BY <1>1 DEF Two!Messages
<1>2. CASE x \in [kind : {"dname", "fname", "end"}, name : Files]
  BY <1>2 DEF Two!Messages
<1>3. CASE x \in [kind : {"hunk"}, name : Files, from : Nat, size : 1..HunkMax]
  BY <1>3 DEF Two!Messages
<1>4. CASE x \in [kind : {"error"}, name : Files, size : {1}]
  BY <1>4 DEF Two!Messages
<1> QED
  BY <1>1, <1>2, <1>3, <1>4 DEF StreamItem

LEMMA MessageFacts ==
  ASSUME NEW x \in StreamItem \union MessageItem
  PROVE  /\ x.kind \in {"move", "copy"} => x.src \in Files /\ x.dst \in Files
         /\ x.kind = "remove" => x.set \subseteq Files
         /\ x.kind = "download" => x.files \in Seq(Files)
         /\ x.kind = "process" => x.result \in {"none", "ok", "error"}
<1>1. CASE x \in StreamItem
  BY <1>1, ItemFacts
<1>2. CASE x \in [kind : {"space", "purge", "list", "mkdir", "badList", "unknown", "disconnect"}]
  BY <1>2
<1>3. CASE x \in [kind : {"move", "copy"}, src : Files, dst : Files]
  BY <1>3
<1>4. CASE x \in [kind : {"remove"}, set : SUBSET Files]
  BY <1>4
<1>5. CASE x \in [kind : {"download"}, files : Seq(Files)]
  BY <1>5
<1>6. CASE x \in [kind : {"process"}, result : {"none", "ok", "error"}]
  BY <1>6
<1>7. CASE x \in Upload1
  BY <1>7 DEF Upload1
<1> QED
  BY <1>1, <1>2, <1>3, <1>4, <1>5, <1>6, <1>7 DEF MessageItem

\* What the device sends behind the first item.
LEMMA StreamNext ==
  ASSUME NEW q, NEW c \in {"open", "lost"}, Stream(q, c)
  PROVE  /\ q \in Seq(StreamItem) /\ q # <<>> /\ Head(q) \in StreamItem /\ Tail(q) \in Seq(StreamItem)
         /\ Head(q).kind = "cut" => c = "lost"
         /\ \/ CutOff(Tail(q), c)
            \/ Head(q).kind = "zero" /\ Tail(q) = <<>>
            \/ Stream(Tail(q), c) /\ Follows(Head(q), Head(Tail(q))) /\ Head(Tail(q)).kind # "cut"
<1> DEFINE t == Tail(q)
<1>1. q \in Seq(StreamItem) /\ q # <<>>
  BY DEF Stream
<1>2. /\ Len(q) \in Nat \ {0} /\ Head(q) = q[1] /\ Head(q) \in StreamItem
      /\ t \in Seq(StreamItem) /\ Len(t) = Len(q) - 1
      /\ \A i \in 1..Len(t) : t[i] = q[i + 1]
  BY <1>1, HeadTailFacts
<1>3. Head(q).kind = "cut" => c = "lost"
  BY <1>2 DEF Stream
<1>4. CASE t = <<>>
  <2>1. Len(q) = 1
    BY <1>2, <1>4
  <2>2. c = "open" => Head(q).kind = "zero"
    BY <1>2, <2>1 DEF Stream
  <2> QED
    BY <1>1, <1>2, <1>3, <1>4, <2>2 DEF CutOff
<1>5. CASE t # <<>>
  <2>1. Len(t) \in Nat \ {0} /\ Head(t) = t[1] /\ Head(t) = q[2]
    BY <1>2, <1>5
  <2>2. \A i \in 1..Len(t) - 1 : Follows(t[i], t[i + 1])
    <3> SUFFICES ASSUME NEW i \in 1..Len(t) - 1 PROVE Follows(t[i], t[i + 1])
      OBVIOUS
    <3>1. t[i] = q[i + 1] /\ t[i + 1] = q[i + 2] /\ i + 1 \in 1..Len(q) - 1 /\ (i + 1) + 1 = i + 2
      BY <1>2, <2>1
    <3> HIDE DEF t
    <3> QED
      BY <3>1 DEF Stream
  <2>3. \A i \in 1..Len(t) : t[i].kind = "cut" => c = "lost"
    BY <1>2, <2>1 DEF Stream
  <2>4. c = "open" => t[Len(t)].kind = "zero"
    <3>1. t[Len(t)] = q[Len(q)]
      BY <1>2, <2>1
    <3> QED
      BY <3>1 DEF Stream
  <2>5. Stream(t, c)
    BY <1>2, <1>5, <2>2, <2>3, <2>4 DEF Stream
  <2>6. Follows(Head(q), Head(t))
    <3>1. 1 \in 1..Len(q) - 1 /\ 1 + 1 = 2
      BY <1>2, <2>1
    <3>2. Follows(q[1], q[1 + 1])
      BY <3>1 DEF Stream
    <3>3. Follows(q[1], q[2])
      BY <3>1, <3>2
    <3>4. Head(q) = q[1] /\ Head(t) = q[2]
      BY <1>2, <2>1
    <3> HIDE DEF t
    <3> QED
      BY <3>3, <3>4
  <2>7. Head(t).kind = "cut" => CutOff(t, c)
    <3>1. 1 \in 1..Len(t)
      BY <2>1
    <3>2. Head(t).kind = "cut" => c = "lost"
      BY <2>1, <2>3, <3>1
    <3> QED
      BY <3>2 DEF CutOff
  <2> QED
    BY <1>1, <1>2, <1>3, <2>5, <2>6, <2>7
<1> QED
  BY <1>4, <1>5

\* A stream that begins with a name goes on with what the protocol has.
LEMMA StreamGoes ==
  ASSUME NEW q, Stream(q, "open"), Naming(Head(q))
  PROVE  \A i \in 1..Len(q) : q[i].kind # "rest"
<1>1. Len(q) \in Nat \ {0} /\ Head(q) = q[1] /\ \A i \in 1..Len(q) - 1 : Follows(q[i], q[i + 1])
  BY HeadTailFacts DEF Stream
<1>2. \A x, y : Follows(x, y) => y.kind # "rest"
  BY DEF Follows, Naming, First, NextAt, Record
<1>3. ASSUME NEW i \in 1..Len(q) PROVE q[i].kind # "rest"
  <2>1. CASE i = 1
    BY <1>1, <2>1 DEF Naming
  <2>2. CASE i # 1
    <3>1. i - 1 \in 1..Len(q) - 1 /\ (i - 1) + 1 = i
      BY <1>1, <2>2
    <3> QED
      BY <1>1, <1>2, <3>1
  <2> QED
    BY <2>1, <2>2
<1> QED
  BY <1>3

\* What is left of a queue when the connection ends: a beginning of it, and perhaps a part of
\* the item behind it.
Arrived(q, r) ==
  /\ Len(r) <= Len(q)
  /\ \A i \in 1..Len(r) : r[i] = q[i] \/ (i = Len(r) /\ r[i] = Two!Item("cut"))

LEMMA CutFacts == Two!Item("cut") \in StreamItem /\ Two!Item("cut").kind = "cut"
BY DEF Two!Item, StreamItem

LEMMA PrefixArrives ==
  ASSUME NEW S, StreamItem \subseteq S, NEW q \in Seq(S), NEW k \in 0..Len(q), NEW r,
         r = SubSeq(q, 1, k) \/ (k < Len(q) /\ r = Append(SubSeq(q, 1, k), Two!Item("cut")))
  PROVE  r \in Seq(S) /\ Arrived(q, r)
<1> DEFINE x == Two!Item("cut")
<1>1. x \in S
  BY CutFacts
<1>2. /\ SubSeq(q, 1, k) \in Seq(S) /\ Len(SubSeq(q, 1, k)) = k
      /\ \A i \in 1..k : SubSeq(q, 1, k)[i] = q[i]
  OBVIOUS
<1>3. CASE r = SubSeq(q, 1, k)
  BY <1>2, <1>3 DEF Arrived
<1>4. CASE k < Len(q) /\ r = Append(SubSeq(q, 1, k), x)
  <2> HIDE DEF x
  <2> DEFINE p == SubSeq(q, 1, k)
  <2>1. p \in Seq(S) /\ Len(p) = k /\ \A i \in 1..k : p[i] = q[i]
    BY <1>2
  <2> HIDE DEF p
  <2>2. /\ r = Append(p, x) /\ r \in Seq(S) /\ Len(r) = k + 1 /\ r[k + 1] = x
        /\ \A i \in 1..k : r[i] = p[i]
    BY <2>1, <1>1, <1>4, AppendFacts DEF p
  <2>3. \A i \in 1..k + 1 : i \in 1..k \/ i = k + 1
    OBVIOUS
  <2>4. \A i \in 1..Len(r) : r[i] = q[i] \/ (i = Len(r) /\ r[i] = x)
    BY <2>1, <2>2, <2>3
  <2> QED
    BY <2>2, <2>4, <1>4 DEF Arrived, x
<1> QED
  BY <1>3, <1>4

LEMMA ArrivedTail ==
  ASSUME NEW S, NEW q \in Seq(S), NEW r \in Seq(S), q # <<>>, r # <<>>, Arrived(q, r)
  PROVE  Head(r) = Two!Item("cut") \/ (Head(r) = Head(q) /\ Arrived(Tail(q), Tail(r)))
<1> DEFINE a == Tail(q) b == Tail(r)
<1>1. Len(q) \in Nat \ {0} /\ Head(q) = q[1] /\ Len(a) = Len(q) - 1 /\ \A i \in 1..Len(a) : a[i] = q[i + 1]
  BY HeadTailFacts
<1>2. Len(r) \in Nat \ {0} /\ Head(r) = r[1] /\ Len(b) = Len(r) - 1 /\ \A i \in 1..Len(b) : b[i] = r[i + 1]
  BY HeadTailFacts
<1> HIDE DEF a, b
<1>3. r[1] = q[1] \/ r[1] = Two!Item("cut")
  BY <1>2 DEF Arrived
<1>4. Len(b) <= Len(a)
  BY <1>1, <1>2 DEF Arrived
<1>5. ASSUME NEW i \in 1..Len(b) PROVE b[i] = a[i] \/ (i = Len(b) /\ b[i] = Two!Item("cut"))
  <2>1. i \in 1..Len(a) /\ i + 1 \in 1..Len(r) /\ (i + 1 = Len(r) => i = Len(b))
    BY <1>1, <1>2, <1>4
  <2>2. b[i] = r[i + 1] /\ a[i] = q[i + 1]
    BY <1>1, <1>2, <2>1
  <2> QED
    BY <2>1, <2>2 DEF Arrived
<1>6. Arrived(a, b)
  BY <1>4, <1>5 DEF Arrived
<1> QED
  BY <1>1, <1>2, <1>3, <1>6 DEF a, b

LEMMA StreamArrives ==
  ASSUME NEW q, Stream(q, "open"), NEW r \in Seq(StreamItem), Arrived(q, r)
  PROVE  CutOff(r, "lost") \/ (Stream(r, "lost") /\ Head(r) = Head(q))
<1>1. CASE r = <<>>
  BY <1>1 DEF CutOff
<1>2. CASE r # <<>>
  <2>1. /\ Len(r) \in Nat \ {0} /\ Head(r) = r[1] /\ Len(q) \in Nat \ {0} /\ Head(q) = q[1] /\ Len(r) <= Len(q)
    BY <1>2, HeadTailFacts DEF Stream, Arrived
  <2>2. \A i \in 1..Len(r) : r[i] = q[i] \/ r[i].kind = "cut"
    BY CutFacts DEF Arrived
  <2>3. CASE r[1].kind = "cut"
    BY <2>1, <2>3 DEF CutOff
  <2>4. CASE r[1].kind # "cut"
    <3>1. ASSUME NEW i \in 1..Len(r) - 1 PROVE Follows(r[i], r[i + 1])
      <4>1. i \in 1..Len(r) /\ i + 1 \in 1..Len(r) /\ i \in 1..Len(q) - 1 /\ i # Len(r)
        BY <2>1
      <4>2. r[i] = q[i]
        BY <4>1 DEF Arrived
      <4>3. CASE r[i + 1].kind = "cut"
        BY <4>3 DEF Follows
      <4>4. CASE r[i + 1].kind # "cut"
        <5>1. r[i + 1] = q[i + 1]
          BY <2>2, <4>1, <4>4
        <5>2. Follows(q[i], q[i + 1])
          BY <4>1 DEF Stream
        <5> QED
          BY <4>2, <5>1, <5>2
      <4> QED
        BY <4>3, <4>4
    <3>2. Stream(r, "lost")
      BY <3>1, <1>2 DEF Stream
    <3>3. r[1] = q[1]
      BY <2>1, <2>2, <2>4
    <3> QED
      BY <2>1, <3>2, <3>3
  <2> QED
    BY <2>3, <2>4
<1> QED
  BY <1>1, <1>2

LEMMA SizeFacts == \A f \in Files : SizeOnDevice[f] \in Nat
BY BackupsAssumption DEF SizeOnDevice

\* A size that is divided into pieces, rounded up.
LEMMA PiecesFacts ==
  ASSUME NEW n \in Nat, NEW h \in Nat \ {0}
  PROVE  /\ (n + h - 1) \div h \in Nat /\ n <= ((n + h - 1) \div h) * h /\ ((n + h - 1) \div h) * h < n + h
OBVIOUS

LEMMA TimesFacts ==
  ASSUME NEW h \in Nat \ {0}, NEW a \in Nat, NEW b \in Nat, a < b
  PROVE  a * h \in Nat /\ a * h + h = (a + 1) * h /\ a * h + h <= b * h
<1> DEFINE d == b - a - 1
<1>1. b = a + 1 + d /\ d \in Nat
  OBVIOUS
<1>2. b * h = (a + 1 + d) * h /\ (a + 1 + d) * h = a * h + h + d * h
  BY <1>1
<1>3. d * h >= 0 /\ a * h \in Nat
  BY <1>1
<1> QED
  BY <1>2, <1>3

\* The hunks of a file lie side by side, from its beginning to its end.
LEMMA HunksFacts ==
  ASSUME NEW f \in Files
  PROVE  /\ Two!Hunks(f) \in Seq(StreamItem)
         /\ \A k \in 1..Len(Two!Hunks(f)) : LET x == Two!Hunks(f)[k] IN
              /\ x.kind = "hunk" /\ x.name = f /\ x.from \in Nat /\ x.size \in 1..HunkMax
              /\ x.from + x.size <= SizeOnDevice[f] /\ (k = 1 => x.from = 0)
              /\ k = Len(Two!Hunks(f)) => x.from + x.size = SizeOnDevice[f]
              /\ k < Len(Two!Hunks(f)) => Two!Hunks(f)[k + 1].from = x.from + x.size
         /\ Two!Hunks(f) = <<>> => SizeOnDevice[f] = 0
<1> DEFINE n == SizeOnDevice[f] h == HunkMax c == (n + h - 1) \div h
           q == Two!Hunks(f)
           At(k) == (k - 1) * h
           Long(k) == Two!Smaller(n - At(k), h)
<1>1. n \in Nat /\ h \in Nat \ {0}
  BY SizeFacts, BackupsAssumption
<1>2. c \in Nat /\ n <= c * h /\ c * h < n + h
  BY <1>1, PiecesFacts
<1>3. q = [k \in 1..c |-> Two!Hunk(f, At(k))]
  BY DEF Two!Hunks
<1>4. \A k \in 1..c : Two!Hunk(f, At(k)) = [kind |-> "hunk", name |-> f, from |-> At(k), size |-> Long(k)]
  BY DEF Two!Hunk
<1> HIDE DEF n, h, c, q
<1>5. ASSUME NEW k \in 1..c PROVE At(k) \in Nat /\ At(k) < n
  <2>1. k - 1 \in Nat /\ k - 1 < c
    BY <1>2
  <2>2. At(k) \in Nat /\ At(k) + h <= c * h
    BY <1>1, <1>2, <2>1, TimesFacts
  <2>3. c * h \in Nat
    BY <1>1, <1>2
  <2> HIDE DEF At
  <2> QED
    BY <1>1, <1>2, <2>2, <2>3
<1>6. ASSUME NEW k \in 1..c, k < c PROVE k + 1 \in 1..c /\ At(k + 1) = At(k) + h /\ Long(k) = h
  <2>1. k + 1 \in 1..c /\ k - 1 \in Nat /\ k \in Nat /\ k - 1 < k /\ (k - 1) + 1 = k /\ (k + 1) - 1 = k
    BY <1>2, <1>6
  <2>2. (k - 1) * h + h = k * h
    BY <1>1, <2>1, TimesFacts
  <2>3. At(k + 1) = At(k) + h
    BY <2>1, <2>2
  <2>4. At(k + 1) < n /\ At(k) \in Nat
    BY <1>5, <2>1
  <2> HIDE DEF At
  <2>5. Long(k) = h
    BY <1>1, <2>3, <2>4 DEF Two!Smaller
  <2> QED
    BY <2>1, <2>3, <2>5
<1>7. ASSUME NEW k \in 1..c PROVE Long(k) \in 1..h /\ At(k) + Long(k) <= n
  <2>1. At(k) \in Nat /\ At(k) < n
    BY <1>5
  <2> HIDE DEF At
  <2> QED
    BY <1>1, <2>1 DEF Two!Smaller
<1>8. c # 0 => At(c) + Long(c) = n
  <2> SUFFICES ASSUME c # 0 PROVE At(c) + Long(c) = n
    OBVIOUS
  <2>1. c \in 1..c /\ c - 1 \in Nat /\ c - 1 < c /\ (c - 1) + 1 = c
    BY <1>2
  <2>2. (c - 1) * h + h = c * h
    BY <1>1, <1>2, <2>1, TimesFacts
  <2>3. At(c) \in Nat /\ At(c) < n /\ At(c) + h = c * h
    BY <1>5, <2>1, <2>2
  <2>4. n <= At(c) + h
    BY <1>2, <2>3
  <2> HIDE DEF At
  <2> QED
    BY <1>1, <2>3, <2>4 DEF Two!Smaller
<1>9. At(1) = 0
  BY <1>1
<1>10. c = 0 => n = 0
  BY <1>1, <1>2
<1> HIDE DEF At, Long
<1>11. q = [k \in 1..c |-> [kind |-> "hunk", name |-> f, from |-> At(k), size |-> Long(k)]]
  BY <1>3, <1>4
<1>12. \A k \in 1..c : [kind |-> "hunk", name |-> f, from |-> At(k), size |-> Long(k)] \in StreamItem
  BY <1>5, <1>7 DEF StreamItem, h
<1>13. q \in Seq(StreamItem) /\ Len(q) = c
  BY <1>2, <1>11, <1>12
<1>14. \A k \in 1..c : q[k].kind = "hunk" /\ q[k].name = f /\ q[k].from = At(k) /\ q[k].size = Long(k)
  BY <1>11
<1>15. q = <<>> => n = 0
  BY <1>10, <1>13
<1>16. ASSUME NEW k \in 1..Len(q)
       PROVE  /\ q[k].kind = "hunk" /\ q[k].name = f /\ q[k].from \in Nat /\ q[k].size \in 1..h
              /\ q[k].from + q[k].size <= n /\ (k = 1 => q[k].from = 0)
              /\ k = Len(q) => q[k].from + q[k].size = n
              /\ k < Len(q) => q[k + 1].from = q[k].from + q[k].size
  <2>1. k \in 1..c
    BY <1>13
  <2>2. q[k].kind = "hunk" /\ q[k].name = f /\ q[k].from = At(k) /\ q[k].size = Long(k)
    BY <1>14, <2>1
  <2>3. At(k) \in Nat /\ Long(k) \in 1..h /\ At(k) + Long(k) <= n
    BY <1>5, <1>7, <2>1
  <2>4. (k = 1 => q[k].from = 0) /\ (k = Len(q) => q[k].from + q[k].size = n)
    BY <1>8, <1>9, <1>13, <2>1, <2>2
  <2>5. ASSUME k < Len(q) PROVE q[k + 1].from = q[k].from + q[k].size
    <3>1. k < c /\ k + 1 \in 1..c
      BY <1>13, <2>1, <2>5, <1>6
    <3>2. At(k + 1) = At(k) + h /\ Long(k) = h /\ q[k + 1].from = At(k + 1)
      BY <1>6, <1>14, <2>1, <3>1
    <3> QED
      BY <2>2, <3>2
  <2> QED
    BY <2>2, <2>3, <2>4, <2>5
<1> QED
  BY <1>13, <1>15, <1>16 DEF q, n, h

\* The items of some files: what they announce, and what of them the device cannot read.
Part(q, names, unread) ==
  /\ q \in Seq(StreamItem)
  /\ \A i \in 1..Len(q) - 1 : Follows(q[i], q[i + 1])
  /\ q # <<>> => q[1].kind = "dname" /\ q[Len(q)].kind \in {"end", "error"}
  /\ \A i \in 1..Len(q) : /\ q[i].kind # "cut"
                          /\ q[i].kind = "fname" => q[i].name \in names
                          /\ q[i].kind = "error" => q[i].name \in unread
  /\ \A f \in names : Announced(q, f)

LEMMA JoinParts ==
  ASSUME NEW p, NEW q, NEW P, NEW Q, NEW B, NEW C, Part(p, P, B), Part(q, Q, C), p # <<>>, q # <<>>
  PROVE  p \o q # <<>> /\ Part(p \o q, P \union Q, B \union C)
<1> DEFINE r == p \o q
<1>1. p \in Seq(StreamItem) /\ q \in Seq(StreamItem) /\ Len(p) \in Nat \ {0} /\ Len(q) \in Nat \ {0}
  BY DEF Part
<1>2. /\ r \in Seq(StreamItem) /\ Len(r) = Len(p) + Len(q)
      /\ \A i \in 1..Len(p) + Len(q) : r[i] = IF i <= Len(p) THEN p[i] ELSE q[i - Len(p)]
  BY <1>1, ConcatProperties
<1> HIDE DEF r
<1>3. \A i \in 1..Len(r) : i \in 1..Len(p) \/ i - Len(p) \in 1..Len(q)
  BY <1>1, <1>2
<1>4. /\ \A i \in 1..Len(p) : r[i] = p[i] /\ i \in 1..Len(r)
      /\ \A i \in 1..Len(q) : r[i + Len(p)] = q[i] /\ i + Len(p) \in 1..Len(r)
  <2>1. /\ \A i \in 1..Len(p) : i \in 1..Len(p) + Len(q) /\ i <= Len(p)
        /\ \A i \in 1..Len(q) : /\ i + Len(p) \in 1..Len(p) + Len(q) /\ ~(i + Len(p) <= Len(p))
                                /\ (i + Len(p)) - Len(p) = i
    BY <1>1
  <2> QED
    BY <1>2, <2>1
<1>5. ASSUME NEW i \in 1..Len(r) - 1 PROVE Follows(r[i], r[i + 1])
  <2>1. CASE i < Len(p)
    <3>1. r[i] = p[i] /\ r[i + 1] = p[i + 1] /\ i \in 1..Len(p) - 1
      BY <1>1, <1>4, <2>1
    <3> QED
      BY <3>1 DEF Part
  <2>2. CASE i = Len(p)
    <3>1. r[i] = p[Len(p)] /\ r[i + 1] = q[1]
      <4>1. i + 1 \in 1..Len(p) + Len(q) /\ ~(i + 1 <= Len(p)) /\ (i + 1) - Len(p) = 1
        BY <1>1, <2>2
      <4> QED
        BY <1>1, <1>2, <1>4, <2>2, <4>1
    <3>2. p[Len(p)].kind \in {"end", "error"} /\ q[1].kind = "dname"
      BY DEF Part
    <3> QED
      BY <3>1, <3>2 DEF Follows, Naming
  <2>3. CASE i > Len(p)
    <3> DEFINE j == i - Len(p)
    <3>1. j \in 1..Len(q) - 1 /\ (i + 1) - Len(p) = j + 1 /\ i \in 1..Len(p) + Len(q) /\ i + 1 \in 1..Len(p) + Len(q)
      BY <1>1, <1>2, <2>3
    <3>2. r[i] = q[j] /\ r[i + 1] = q[j + 1]
      BY <1>1, <1>2, <2>3, <3>1
    <3>3. Follows(q[j], q[j + 1])
      BY <3>1 DEF Part
    <3> HIDE DEF j
    <3> QED
      BY <3>2, <3>3
  <2> QED
    BY <1>1, <2>1, <2>2, <2>3
<1>6. r # <<>> /\ r[1].kind = "dname" /\ r[Len(r)].kind \in {"end", "error"}
  <2>1. r[1] = p[1] /\ r[Len(r)] = q[Len(q)]
    BY <1>1, <1>2
  <2> QED
    BY <1>1, <1>2, <2>1 DEF Part
<1>7. ASSUME NEW i \in 1..Len(r)
      PROVE  /\ r[i].kind # "cut"
             /\ r[i].kind = "fname" => r[i].name \in P \union Q
             /\ r[i].kind = "error" => r[i].name \in B \union C
  <2>1. CASE i \in 1..Len(p)
    BY <1>4, <2>1 DEF Part
  <2>2. CASE i - Len(p) \in 1..Len(q)
    <3>1. r[i] = q[i - Len(p)]
      BY <1>1, <1>2, <2>2
    <3> QED
      BY <2>2, <3>1 DEF Part
  <2> QED
    BY <1>3, <2>1, <2>2
<1>8. ASSUME NEW f \in P \union Q PROVE Announced(r, f)
  <2>1. CASE f \in P
    <3>1. PICK i \in 1..Len(p) : p[i].kind = "fname" /\ p[i].name = f
      BY <2>1 DEF Part, Announced
    <3> QED
      BY <1>4, <3>1 DEF Announced
  <2>2. CASE f \in Q
    <3>1. PICK i \in 1..Len(q) : q[i].kind = "fname" /\ q[i].name = f
      BY <2>2 DEF Part, Announced
    <3>2. r[i + Len(p)] = q[i] /\ i + Len(p) \in 1..Len(r)
      BY <1>4
    <3> QED
      BY <3>1, <3>2 DEF Announced
  <2> QED
    BY <2>1, <2>2
<1>9. Part(r, P \union Q, B \union C)
  BY <1>2, <1>5, <1>6, <1>7, <1>8 DEF Part
<1> QED
  BY <1>6, <1>9 DEF r

\* A file: its names, its hunks and its end, or its names and an error.
LEMMA FileFacts ==
  ASSUME NEW u \in [file : Files, fails : BOOLEAN]
  PROVE  /\ Two!FileItems(u) # <<>>
         /\ Part(Two!FileItems(u), {u.file}, IF u.fails THEN {u.file} ELSE {})
<1> DEFINE f == u.file
           d == Two!Named("dname", f) n == Two!Named("fname", f) e == Two!Named("end", f)
           x == Two!Failure(f) h == Two!Hunks(f)
           names == <<d, n>> data2 == Two!FileData(u)
           q == names \o data2
           unread == IF u.fails THEN {f} ELSE {}
<1>1. /\ f \in Files /\ d \in StreamItem /\ n \in StreamItem /\ e \in StreamItem /\ x \in StreamItem
      /\ d.kind = "dname" /\ n.kind = "fname" /\ e.kind = "end" /\ x.kind = "error"
      /\ d.name = f /\ n.name = f /\ e.name = f /\ x.name = f
  BY DEF Two!Named, Two!Failure, StreamItem
<1>2. Two!FileItems(u) = q
  BY DEF Two!FileItems
<1>3. /\ h \in Seq(StreamItem) /\ Len(h) \in Nat
      /\ \A k \in 1..Len(h) :
              /\ h[k].kind = "hunk" /\ h[k].name = f /\ h[k].from \in Nat /\ h[k].size \in 1..HunkMax
              /\ h[k].from + h[k].size <= SizeOnDevice[f] /\ (k = 1 => h[k].from = 0)
              /\ k = Len(h) => h[k].from + h[k].size = SizeOnDevice[f]
              /\ k < Len(h) => h[k + 1].from = h[k].from + h[k].size
      /\ h = <<>> => SizeOnDevice[f] = 0
  BY <1>1, HunksFacts
<1>4. data2 = IF u.fails THEN <<x>> ELSE Append(h, e)
  BY DEF Two!FileData
<1> HIDE DEF f, d, n, e, x, h
<1> DEFINE Item(i) == IF u.fails THEN x ELSE IF i <= Len(h) THEN h[i] ELSE e
           len == IF u.fails THEN 1 ELSE Len(h) + 1
<1>5. data2 \in Seq(StreamItem) /\ Len(data2) = len /\ len \in Nat \ {0} /\ \A i \in 1..len : data2[i] = Item(i)
  <2>1. CASE u.fails
    BY <1>1, <1>4, <2>1
  <2>2. CASE ~u.fails
    <3>1. /\ Append(h, e) \in Seq(StreamItem) /\ Len(Append(h, e)) = Len(h) + 1
          /\ \A i \in 1..Len(h) : Append(h, e)[i] = h[i]
          /\ Append(h, e)[Len(h) + 1] = e
      BY <1>1, <1>3, AppendFacts
    <3> QED
      BY <1>3, <1>4, <2>2, <3>1
  <2> QED
    BY <2>1, <2>2
<1>6. Len(names) = 2 /\ names \in Seq(StreamItem) /\ names[1] = d /\ names[2] = n
  BY <1>1
<1> HIDE DEF names, data2
<1>7. /\ q \in Seq(StreamItem) /\ Len(q) = 2 + len /\ q[1] = d /\ q[2] = n
      /\ \A i \in 1..len : q[2 + i] = Item(i)
  <2>1. /\ q \in Seq(StreamItem) /\ Len(q) = Len(names) + Len(data2)
        /\ \A i \in 1..Len(names) + Len(data2) : q[i] = IF i <= Len(names) THEN names[i] ELSE data2[i - Len(names)]
    <3>1. names \in Seq(StreamItem) /\ data2 \in Seq(StreamItem)
      BY <1>5, <1>6
    <3> QED
      BY ONLY <3>1, ConcatProperties DEF q
  <2> HIDE DEF q, Item, len
  <2>2. \A i \in 1..2 + len : q[i] = IF i <= 2 THEN names[i] ELSE data2[i - 2]
    BY <1>5, <1>6, <2>1
  <2>3. q[1] = d /\ q[2] = n
    BY <1>5, <1>6, <2>2
  <2>4. \A i \in 1..len : 2 + i \in 1..2 + len /\ ~(2 + i <= 2) /\ (2 + i) - 2 = i
    BY <1>5
  <2> QED
    BY <1>5, <1>6, <2>1, <2>2, <2>3, <2>4
<1> HIDE DEF q
<1>8. Len(q) \in Nat \ {0}
  BY <1>5, <1>7
<1>9. \A i \in 1..Len(q) : i = 1 \/ i = 2 \/ \E k \in 1..len : i = 2 + k
  <2> SUFFICES ASSUME NEW i \in 1..Len(q), i # 1, i # 2 PROVE \E k \in 1..len : i = 2 + k
    OBVIOUS
  <2>1. i - 2 \in 1..len /\ i = 2 + (i - 2)
    BY <1>5, <1>7
  <2> QED
    BY <2>1
<1>10. First(Item(1), f)
  BY <1>1, <1>3, <1>5 DEF First, Record
<1>11. \A k \in 1..len - 1 : Follows(Item(k), Item(k + 1))
  <2> SUFFICES ASSUME NEW k \in 1..len - 1 PROVE Follows(Item(k), Item(k + 1))
    OBVIOUS
  <2>1. ~u.fails /\ k \in 1..Len(h) /\ Item(k) = h[k]
    BY <1>3
  <2>2. CASE k < Len(h)
    <3>1. k + 1 \in 1..Len(h) /\ Item(k + 1) = h[k + 1]
      BY <1>3, <2>1, <2>2
    <3>2. /\ h[k].kind = "hunk" /\ h[k].name = f /\ h[k + 1].kind = "hunk" /\ h[k + 1].name = f
          /\ h[k + 1].from = h[k].from + h[k].size /\ h[k + 1].from + h[k + 1].size <= SizeOnDevice[f]
      BY <1>3, <2>1, <2>2, <3>1
    <3> HIDE DEF Item
    <3> QED
      BY <2>1, <3>1, <3>2 DEF Follows, NextAt, Record
  <2>3. CASE k = Len(h)
    <3>1. Item(k + 1) = e
      BY <1>3, <2>1, <2>3
    <3>2. h[k].kind = "hunk" /\ h[k].name = f /\ h[k].from + h[k].size = SizeOnDevice[f]
      BY <1>3, <2>1, <2>3
    <3> HIDE DEF Item
    <3> QED
      BY <1>1, <2>1, <3>1, <3>2 DEF Follows, NextAt, Record
  <2> QED
    BY <1>3, <2>1, <2>2, <2>3
<1>12. \A k \in 1..len : /\ Item(k).kind \notin {"cut", "fname"}
                         /\ Item(k).kind = "error" => u.fails /\ Item(k).name = f
  BY <1>1, <1>3
<1>13. Item(len).kind \in {"end", "error"}
  BY <1>1, <1>3
<1> HIDE DEF Item
<1>14. ASSUME NEW i \in 1..Len(q) - 1 PROVE Follows(q[i], q[i + 1])
  <2>1. CASE i = 1
    BY <1>1, <1>7, <2>1 DEF Follows
  <2>2. CASE i = 2
    <3>1. 1 \in 1..len /\ q[2 + 1] = Item(1) /\ i + 1 = 2 + 1
      BY <1>5, <1>7, <2>2
    <3>2. q[i] = n /\ q[i + 1] = Item(1)
      BY <1>7, <2>2, <3>1
    <3> QED
      BY <1>1, <1>10, <3>2 DEF Follows
  <2>3. CASE i \notin {1, 2}
    <3> DEFINE k == i - 2
    <3>1. k \in 1..len - 1 /\ k \in 1..len /\ k + 1 \in 1..len /\ i = 2 + k /\ i + 1 = 2 + (k + 1)
      BY <1>5, <1>7, <2>3
    <3> HIDE DEF k
    <3>2. q[i] = Item(k) /\ q[i + 1] = Item(k + 1)
      BY <1>7, <3>1
    <3> QED
      BY <1>11, <3>1, <3>2
  <2> QED
    BY <2>1, <2>2, <2>3
<1>15. q # <<>> /\ q[1].kind = "dname" /\ q[Len(q)].kind \in {"end", "error"}
  BY <1>1, <1>5, <1>7, <1>8, <1>13
<1>16. ASSUME NEW i \in 1..Len(q)
       PROVE  /\ q[i].kind # "cut"
              /\ q[i].kind = "fname" => q[i].name \in {f}
              /\ q[i].kind = "error" => q[i].name \in unread
  BY <1>1, <1>7, <1>9, <1>12
<1>17. Announced(q, f)
  <2>1. 2 \in 1..Len(q)
    BY <1>5, <1>7
  <2> QED
    BY <1>1, <1>7, <2>1 DEF Announced
<1>18. Part(q, {f}, unread)
  BY <1>7, <1>14, <1>15, <1>16, <1>17 DEF Part
<1> QED
  BY <1>2, <1>15, <1>18 DEF f

\* An upload is a message and a stream, which announces its files.
LEMMA UploadFacts ==
  ASSUME NEW us \in Two!UpTo2([file : Files, fails : BOOLEAN]),
         \A i, j \in DOMAIN us : us[i].file = us[j].file => i = j
  PROVE  LET w == Two!Upload(us)
             ok2 == {us[i].file : i \in {j \in DOMAIN us : ~us[j].fails}}
         IN  /\ w \in Seq(StreamItem \union MessageItem) /\ w # <<>> /\ Head(w).kind = "upload"
             /\ Tail(w) \in Seq(StreamItem) /\ Names(Tail(w), "open")
             /\ \A i \in 1..Len(w) : w[i].kind = "error" => w[i].name \notin ok2
             /\ \A f \in ok2 : Announced(w, f)
             /\ ok2 \subseteq Files
             /\ \A f : Announced(w, f) => f \in {us[i].file : i \in DOMAIN us}
<1> DEFINE U == [file : Files, fails : BOOLEAN]
           names == {us[i].file : i \in DOMAIN us}
           good == {us[i].file : i \in {j \in DOMAIN us : ~us[j].fails}}
           bad == {us[i].file : i \in {j \in DOMAIN us : us[j].fails}}
           q == Two!FilesItems(us) m == Two!Item("upload") z == Two!Item("zero")
           w == Two!Upload(us)
<1>1. us = <<>> \/ (\E a \in U : us = <<a>>) \/ (\E a, b \in U : us = <<a, b>>)
  BY DEF Two!UpTo2
<1>2. Part(q, names, bad) /\ good \subseteq names /\ names \subseteq Files /\ (us # <<>> => q # <<>>)
  <2>1. CASE us = <<>>
    <3>1. q = <<>> /\ names = {} /\ good = {}
      BY <2>1 DEF Two!FilesItems
    <3> HIDE DEF q, names, bad, good
    <3> QED
      BY <2>1, <3>1 DEF Part
  <2>2. ASSUME NEW a \in U, us = <<a>>
        PROVE  Part(q, names, bad) /\ good \subseteq names /\ names \subseteq Files /\ (us # <<>> => q # <<>>)
    <3>1. DOMAIN us = {1} /\ us[1] = a
      BY <2>2
    <3>2. names = {a.file} /\ bad = (IF a.fails THEN {a.file} ELSE {}) /\ good \subseteq names
      BY <3>1
    <3>3. q = Two!FileItems(a)
      BY <2>2 DEF Two!FilesItems
    <3>4. q # <<>> /\ Part(q, names, bad)
      BY <3>2, <3>3, FileFacts
    <3>5. names \subseteq Files
      BY <3>2
    <3> QED
      BY <3>2, <3>4, <3>5
  <2>3. ASSUME NEW a \in U, NEW b \in U, us = <<a, b>>
        PROVE  Part(q, names, bad) /\ good \subseteq names /\ names \subseteq Files /\ (us # <<>> => q # <<>>)
    <3> DEFINE B == IF a.fails THEN {a.file} ELSE {}
               C == IF b.fails THEN {b.file} ELSE {}
    <3>1. DOMAIN us = {1, 2} /\ us[1] = a /\ us[2] = b
      BY <2>3
    <3>2. names = {a.file} \union {b.file} /\ bad = B \union C /\ good \subseteq names
      BY <3>1
    <3>3. q = Two!FileItems(a) \o Two!FileItems(b)
      BY <2>3 DEF Two!FilesItems
    <3>4. /\ Two!FileItems(a) # <<>> /\ Part(Two!FileItems(a), {a.file}, B)
          /\ Two!FileItems(b) # <<>> /\ Part(Two!FileItems(b), {b.file}, C)
      BY FileFacts
    <3>5. q # <<>> /\ Part(q, {a.file} \union {b.file}, B \union C)
      BY <3>3, <3>4, JoinParts
    <3>6. names \subseteq Files
      BY <3>2
    <3> QED
      BY <3>2, <3>5, <3>6
  <2> QED
    BY <1>1, <2>1, <2>2, <2>3
<1>3. good \intersect bad = {}
  OBVIOUS
<1>4. /\ m.kind = "upload" /\ m \in MessageItem /\ z.kind = "zero" /\ z \in StreamItem
  BY DEF Two!Item, StreamItem, MessageItem, Upload1
<1>5. w = (<<m>> \o q) \o <<z>>
  BY DEF Two!Upload
<1> HIDE DEF q, m, z, w, names, good, bad
<1>6. q \in Seq(StreamItem) /\ Len(q) \in Nat
  BY <1>2 DEF Part
<1> DEFINE S == StreamItem \union MessageItem
           t == Append(q, z)
<1>7. /\ t \in Seq(StreamItem) /\ Len(t) = Len(q) + 1 /\ t[Len(q) + 1] = z
      /\ \A i \in 1..Len(q) : t[i] = q[i]
  BY <1>4, <1>6, AppendFacts
<1>8. w = <<m>> \o t
  <2>1. <<m>> \in Seq(S) /\ q \in Seq(S) /\ <<z>> \in Seq(S)
    BY <1>4, <1>6
  <2>2. w = <<m>> \o (q \o <<z>>)
    BY <1>5, <2>1, ConcatAssociative
  <2>3. q \o <<z>> = t
    BY <1>4, <1>6
  <2> QED
    BY <2>2, <2>3
<1> HIDE DEF t
<1>9. /\ w \in Seq(S) /\ Len(w) = Len(t) + 1 /\ w[1] = m /\ \A i \in 1..Len(t) : w[i + 1] = t[i]
  <2>1. <<m>> \in Seq(S) /\ t \in Seq(S) /\ Len(<<m>>) = 1 /\ <<m>>[1] = m
    BY <1>4, <1>7
  <2>2. /\ w \in Seq(S) /\ Len(w) = 1 + Len(t)
        /\ \A i \in 1..1 + Len(t) : w[i] = IF i <= 1 THEN <<m>>[i] ELSE t[i - 1]
    BY <1>8, <2>1, ConcatProperties
  <2> QED
    BY <1>6, <1>7, <2>1, <2>2
<1>10. w # <<>> /\ Head(w) = m /\ Tail(w) = t
  <2>1. w # <<>> /\ Head(w) = m
    BY <1>6, <1>7, <1>9
  <2>2. /\ Tail(w) \in Seq(S) /\ Len(Tail(w)) = Len(t) /\ \A i \in 1..Len(t) : Tail(w)[i] = t[i]
    BY <1>6, <1>7, <1>9, <2>1, HeadTailFacts
  <2>3. t \in Seq(S)
    BY <1>7
  <2>4. Tail(w) = t
    BY <2>2, <2>3, SeqEqual
  <2> QED
    BY <2>1, <2>4
<1>11. \A i \in 1..Len(t) : i \in 1..Len(q) \/ i = Len(q) + 1
  BY <1>6, <1>7
<1>12. Stream(t, "open") /\ Naming(Head(t))
  <2>1. ASSUME NEW i \in 1..Len(t) - 1 PROVE Follows(t[i], t[i + 1])
    <3>1. CASE i < Len(q)
      <4>1. i \in 1..Len(q) - 1 /\ t[i] = q[i] /\ t[i + 1] = q[i + 1]
        BY <1>6, <1>7, <3>1
      <4> QED
        BY <1>2, <4>1 DEF Part
    <3>2. CASE i = Len(q)
      <4>1. t[i] = q[Len(q)] /\ t[i + 1] = z /\ q # <<>>
        BY <1>6, <1>7, <3>2
      <4>2. q[Len(q)].kind \in {"end", "error"}
        BY <1>2, <4>1 DEF Part
      <4> QED
        BY <1>4, <4>1, <4>2 DEF Follows, Naming
    <3> QED
      BY <1>6, <1>7, <3>1, <3>2
  <2>2. \A i \in 1..Len(t) : t[i].kind # "cut"
    BY <1>2, <1>4, <1>7, <1>11 DEF Part
  <2>3. t # <<>> /\ t[Len(t)].kind = "zero" /\ Head(t) = t[1]
    BY <1>4, <1>6, <1>7
  <2>4. Naming(t[1])
    <3>1. CASE q = <<>>
      BY <1>4, <1>6, <1>7, <3>1 DEF Naming
    <3>2. CASE q # <<>>
      <4>1. t[1] = q[1]
        BY <1>6, <1>7, <3>2
      <4> QED
        BY <1>2, <3>2, <4>1 DEF Part, Naming
    <3> QED
      BY <3>1, <3>2
  <2> QED
    BY <1>7, <2>1, <2>2, <2>3, <2>4 DEF Stream
<1>13. \A i \in 1..Len(w) : i = 1 \/ i - 1 \in 1..Len(q) \/ i = Len(q) + 2
  BY <1>6, <1>7, <1>9
<1>14. \A i \in 1..Len(q) : w[i + 1] = q[i] /\ i + 1 \in 1..Len(w)
  BY <1>6, <1>7, <1>9
<1>15. w[Len(q) + 2] = z
  <2>1. Len(q) + 1 \in 1..Len(t) /\ (Len(q) + 1) + 1 = Len(q) + 2
    BY <1>6, <1>7
  <2> QED
    BY <1>7, <1>9, <2>1
<1>16. \A i \in 1..Len(w) : w[i].kind \in {"error", "fname"} => i - 1 \in 1..Len(q) /\ w[i] = q[i - 1]
  <2> SUFFICES ASSUME NEW i \in 1..Len(w), w[i].kind \in {"error", "fname"}
               PROVE  i - 1 \in 1..Len(q) /\ w[i] = q[i - 1]
    OBVIOUS
  <2>1. i # 1 /\ i # Len(q) + 2
    BY <1>4, <1>9, <1>15
  <2>2. i - 1 \in 1..Len(q) /\ (i - 1) + 1 = i
    BY <1>13, <2>1
  <2> QED
    BY <1>14, <2>2
<1>17. \A i \in 1..Len(w) : w[i].kind = "error" => w[i].name \notin good
  BY <1>2, <1>3, <1>16 DEF Part
<1>18. \A f \in good : Announced(w, f)
  <2> SUFFICES ASSUME NEW f \in good PROVE Announced(w, f)
    OBVIOUS
  <2>1. PICK i \in 1..Len(q) : q[i].kind = "fname" /\ q[i].name = f
    BY <1>2 DEF Part, Announced
  <2>2. w[i + 1] = q[i] /\ i + 1 \in 1..Len(w)
    BY <1>14
  <2> QED
    BY <2>1, <2>2 DEF Announced
<1>19. \A f : Announced(w, f) => f \in names
  BY <1>2, <1>16 DEF Part, Announced
<1>20. Names(Tail(w), "open") /\ Tail(w) \in Seq(StreamItem) /\ good \subseteq Files
  BY <1>2, <1>7, <1>10, <1>12 DEF Names
<1> QED
  BY <1>4, <1>9, <1>10, <1>17, <1>18, <1>19, <1>20 DEF w, names, good

TwoRest == TwoTypes /\ ListenInv /\ SendInv /\ UpInv /\ SavedInv /\ Two!InStep

LEMMA TwoStarts == Two!Init => TwoInv
<1> SUFFICES ASSUME Two!Init PROVE TwoInv
  OBVIOUS
<1> USE DEF Two!Init, Two!LockInit
<1>1. LockKept(TwoWork)
  BY BackupsAssumption DEF LockKept, TwoWork, TwoUp, BeforeLock
<1>2. Two!LockTypeOK
  <2>1. lockfile \in BOOLEAN /\ quit \in BOOLEAN
    OBVIOUS
  <2>2. /\ holder = "none" /\ tries \in 0..LockAttempts /\ conn = "open"
        /\ posted \subseteq {"willStart", "lockRequest", "didStart", "didFinish"}
    BY BackupsAssumption
  <2> QED
    BY ONLY <2>1, <2>2 DEF Two!LockTypeOK
<1>3. TwoPhase
  BY DEF TwoPhase, TwoStart
<1>4. TwoSets
  <2>1. disk \in [Files -> Nat \union {Two!Absent}]
    <3>1. SizeOnDevice \in [Files -> Nat]
      BY SizeFacts DEF SizeOnDevice
    <3> QED
      BY <3>1
  <2>2. /\ inbox = <<>> /\ nlen = 0 /\ pending = 0 /\ status = 0 /\ asks \in 0..MaxAsks /\ name \in Files
        /\ batch = {} /\ saved = {} /\ pc = "args" /\ HunkMax \in Nat
    BY BackupsAssumption
  <2> QED
    BY ONLY <2>1, <2>2 DEF TwoSets
<1>5. TwoFlags
  BY DEF TwoFlags
<1>6. ListenInv /\ SendInv /\ UpInv /\ Two!InStep
  BY DEF ListenInv, SendInv, UpInv, TwoUp, Two!InStep
<1>7. SavedInv
  BY DEF SavedInv, SavedFull, Two!BackupTrue, Two!Finished
<1>8. RestInv
  BY DEF RestInv
<1> QED
  BY <1>1, <1>2, <1>3, <1>4, <1>5, <1>6, <1>7, <1>8 DEF TwoInv, TwoTypes

\* Steps that leave alone what comes from the device and what lies in the directory.
TwoApart ==
  UNCHANGED <<conn, disk, inbox, nlen, name, pending, todo, sent, total, status, asks, batch, saved, refused,
              unanswered, local, garbled, stalled, encrypts>>

\* Up to the request.
LEMMA TwoBegins ==
  ASSUME TwoInv, Two!Args \/ Two!Connect \/ Two!Hello \/ Two!Lock \/ Two!Checkpoint
  PROVE  TwoRest'
<1>1. /\ pc \in TwoStart /\ TwoApart /\ quit' = quit /\ result' = result
      /\ outcome' = outcome \/ (outcome' = "failed" /\ pc' \in {"free", "done"})
      /\ pc' \in TwoStart \union {"loop", "unlock", "free", "done"}
      /\ dev' = dev \/ (conn = "open" /\ dev' = "idle" /\ pc' \notin TwoStart)
      /\ (pc' = "loop" /\ conn = "open") => dev' = "idle"
      /\ cmd' \in {cmd, "leave"}
  <2> USE DEF TwoStart, TwoApart, Two!lockVars, Two!ioVars, Two!devVars, Two!histVars
  <2>1. CASE Two!Args \/ Two!Connect \/ Two!Hello
    BY <2>1 DEF Two!Args, Two!Connect, Two!Hello
  <2>2. CASE Two!Lock
    BY <2>2 DEF Two!Lock, Two!OpenLock, Two!TryLock, Two!LockTimeout, Two!GiveUpLock
  <2>3. CASE Two!Checkpoint
    <3>1. /\ pc \in {"checkpoint", "request"} /\ pc' \in {"loop", "unlock"} /\ TwoApart /\ quit' = quit
          /\ result' = result /\ outcome' = outcome /\ cmd' \in {cmd, "leave"}
      BY <2>3 DEF Two!Checkpoint, Two!RequestBackup, Two!RequestRestore, Two!RequestPlain, Two!RequestPassword,
                  Two!Leave
    <3>2. dev' = dev \/ (conn = "open" /\ dev' = "idle")
      BY <2>3 DEF Two!Checkpoint, Two!RequestBackup, Two!RequestRestore, Two!RequestPlain, Two!RequestPassword,
                  Two!Request
    <3>3. (pc' = "loop" /\ conn = "open") => dev' = "idle"
      BY <2>3 DEF Two!Checkpoint, Two!RequestBackup, Two!RequestRestore, Two!RequestPlain, Two!RequestPassword,
                  Two!Request, Two!Leave
    <3> QED
      BY <3>1, <3>2, <3>3
  <2> QED
    BY <2>1, <2>2, <2>3
<1>2. /\ TwoPhase /\ TwoSets /\ TwoFlags /\ SavedInv /\ Two!InStep /\ conn \in {"open", "lost"}
      /\ inbox = <<>> /\ dev = "quiet" /\ result = "none" /\ outcome = "none" /\ saved = {}
  BY <1>1 DEF TwoInv, TwoTypes, TwoPhase, Two!LockTypeOK, SavedInv, TwoStart, TwoEnd
<1>3. TwoPhase'
  BY <1>1, <1>2 DEF TwoPhase, TwoStart, TwoEnd, TwoApart
<1>4. TwoSets'
  BY <1>1, <1>2 DEF TwoSets, TwoApart, TwoStart, TwoUp
<1>5. TwoFlags'
  <2>1. UNCHANGED <<encrypts, refused, unanswered, local, garbled, stalled>>
    BY <1>1 DEF TwoApart
  <2>2. apps' \in BOOLEAN
    <3>1. apps \in BOOLEAN
      BY <1>2 DEF TwoFlags
    <3>2. apps' = apps \/ \E skip \in BOOLEAN : apps' = (apps \/ ~skip)
      BY DEF Two!Args, Two!Connect, Two!Hello, Two!Lock, Two!Checkpoint, Two!RequestBackup,
             Two!RequestRestore, Two!RequestPlain, Two!RequestPassword
    <3>3. (\E skip \in BOOLEAN : apps' = (apps \/ ~skip)) => apps' \in BOOLEAN
      OBVIOUS
    <3> QED
      BY <3>1, <3>2, <3>3
  <2> QED
    BY <1>2, <2>1, <2>2 DEF TwoFlags
<1>6. ListenInv'
  BY <1>1, <1>2 DEF ListenInv, Listening, TwoApart, TwoStart
<1>7. SendInv' /\ UpInv'
  BY <1>1 DEF SendInv, UpInv, TwoUp, TwoStart
<1>8. SavedInv'
  BY <1>1, <1>2 DEF SavedInv, SavedFull, Two!BackupTrue, Two!Finished, TwoApart, TwoStart
<1>9. Two!InStep'
  BY <1>1, <1>2 DEF Two!InStep, TwoApart
<1> QED
  BY <1>3, <1>4, <1>5, <1>6, <1>7, <1>8, <1>9 DEF TwoRest, TwoTypes

\* What is known at the loop, and what a message is.
LEMMA TwoWaits ==
  ASSUME TwoInv, pc = "loop"
  PROVE  /\ TwoPhase /\ TwoSets /\ TwoFlags /\ Listening /\ SavedFull /\ Two!InStep /\ conn \in {"open", "lost"}
         /\ result = "none" /\ outcome = "none" /\ nlen = 0 /\ pending = 0 /\ status = 0 /\ HunkMax \in Nat \ {0}
         /\ quit \in BOOLEAN
BY BackupsAssumption
   DEF TwoInv, TwoTypes, TwoPhase, TwoSets, SavedInv, ListenInv, TwoUp, TwoEnd, Two!LockTypeOK

LEMMA TwoHears ==
  ASSUME TwoInv, NEW kind \in Two!Messages, Two!Message(kind)
  PROVE  /\ pc = "loop" /\ inbox # <<>> /\ Head(inbox).kind = kind /\ inbox' = Tail(inbox)
         /\ Head(inbox) \in StreamItem \union MessageItem
         /\ kind = "upload" => UploadAhead
         /\ kind # "upload" => Alone(Head(inbox)) /\ inbox' = <<>>
<1>1. pc = "loop" /\ inbox # <<>> /\ Head(inbox).kind = kind /\ inbox' = Tail(inbox)
  BY DEF Two!Message, Two!Took
<1>2. inbox \in Seq(StreamItem \union MessageItem) /\ Listening
  BY <1>1, TwoWaits DEF TwoSets
<1>3. Head(inbox) \in StreamItem \union MessageItem /\ Len(inbox) \in Nat
  BY <1>1, <1>2
<1>4. Len(inbox) = 1 => inbox' = <<>>
  BY <1>1, <1>2
<1>8. kind # "rest" /\ (inbox = <<Two!Rest>> => Head(inbox).kind = "rest")
  BY DEF Two!Messages, Two!Rest, Two!Item
<1>5. (Len(inbox) = 1 /\ Alone(Head(inbox))) \/ UploadAhead
  BY <1>1, <1>2, <1>8 DEF Listening
<1>6. Alone(Head(inbox)) => kind # "upload"
  BY <1>1 DEF Alone
<1>7. UploadAhead => kind = "upload"
  BY <1>1 DEF UploadAhead
<1> QED
  BY <1>1, <1>3, <1>4, <1>5, <1>6, <1>7

\* The answers that come at once, and the end of the operation.
LEMMA TwoPlain ==
  ASSUME TwoInv, Two!HandlePlain
  PROVE  TwoRest'
<1>1. /\ pc = "loop" /\ inbox' = <<>> /\ dev = "wait" /\ pc' = "out"
      /\ \/ (conn = "open" => dev' = "idle") /\ (conn # "open" => dev' = dev) /\ unanswered' = unanswered
         \/ unanswered' = TRUE /\ dev' = dev
  <2>1. ASSUME NEW kind \in {"space", "list", "mkdir", "purge"}, Two!Message(kind), Two!Answer(dev),
               unanswered' = unanswered
        PROVE  /\ pc = "loop" /\ inbox' = <<>> /\ dev = "wait" /\ pc' = "out" /\ unanswered' = unanswered
               /\ (conn = "open" => dev' = "idle") /\ (conn # "open" => dev' = dev)
    <3>1. pc = "loop" /\ inbox' = <<>> /\ Alone(Head(inbox)) /\ Head(inbox).kind = kind
      BY <2>1, TwoHears DEF Two!Messages
    <3>2. dev = "wait"
      BY <3>1 DEF Alone
    <3> QED
      BY <2>1, <3>1, <3>2 DEF Two!Answer, Two!Send, Two!Takes
  <2>2. ASSUME NEW kind \in {"badList", "unknown"}, Two!Message(kind), pc' = "out", unanswered' = TRUE, dev' = dev
        PROVE  pc = "loop" /\ inbox' = <<>> /\ dev = "wait"
    <3>1. pc = "loop" /\ inbox' = <<>> /\ Alone(Head(inbox)) /\ Head(inbox).kind = kind
      BY <2>2, TwoHears DEF Two!Messages
    <3> QED
      BY <2>2, <3>1 DEF Alone
  <2> QED
    BY <2>1, <2>2 DEF Two!HandlePlain
<1>2. UNCHANGED <<cmd, conn, encrypts, apps, quit, disk, nlen, name, pending, todo, sent, total, status, result,
                  outcome, asks, batch, saved, refused, local, garbled, stalled>>
  BY DEF Two!HandlePlain, Two!Kept
<1>3. /\ TwoPhase /\ TwoSets /\ TwoFlags /\ SavedFull /\ Two!InStep /\ conn \in {"open", "lost"}
      /\ result = "none" /\ outcome = "none"
  BY <1>1, TwoWaits
<1>4. TwoPhase'
  BY <1>1, <1>2, <1>3 DEF TwoPhase, TwoStart, TwoEnd
<1>5. TwoSets'
  BY <1>1, <1>2, <1>3 DEF TwoSets, TwoUp
<1>6. TwoFlags'
  <2>1. unanswered' \in BOOLEAN
    BY <1>1, <1>3 DEF TwoFlags
  <2> QED
    BY <1>2, <1>3, <2>1 DEF TwoFlags
<1>7. ListenInv'
  BY <1>1, <1>2, <1>3 DEF ListenInv, Listening
<1>8. SendInv' /\ UpInv'
  BY <1>1 DEF SendInv, UpInv, TwoUp
<1>9. SavedInv'
  BY <1>1, <1>2, <1>3 DEF SavedInv, SavedFull, Two!BackupTrue, Two!Finished, TwoStart
<1>10. Two!InStep'
  BY <1>1, <1>2, <1>3 DEF Two!InStep
<1> QED
  BY <1>4, <1>5, <1>6, <1>7, <1>8, <1>9, <1>10 DEF TwoRest, TwoTypes

LEMMA TwoFiles ==
  ASSUME TwoInv, Two!HandleFiles
  PROVE  TwoRest'
<1>1. /\ pc = "loop" /\ inbox' = <<>> /\ dev = "wait" /\ saved' \subseteq saved
      /\ disk' \in [Files -> Nat \union {Two!Absent}] /\ \A f \in saved' : disk'[f] = disk[f]
  <2>1. ASSUME Two!Message("move")
        PROVE  /\ pc = "loop" /\ inbox' = <<>> /\ dev = "wait"
               /\ Head(inbox).src \in Files /\ Head(inbox).dst \in Files
    BY <2>1, TwoHears, MessageFacts DEF Two!Messages, Alone
  <2>2. ASSUME Two!Message("copy")
        PROVE  /\ pc = "loop" /\ inbox' = <<>> /\ dev = "wait"
               /\ Head(inbox).src \in Files /\ Head(inbox).dst \in Files
    BY <2>2, TwoHears, MessageFacts DEF Two!Messages, Alone
  <2>3. ASSUME Two!Message("remove")
        PROVE  pc = "loop" /\ inbox' = <<>> /\ dev = "wait" /\ Head(inbox).set \subseteq Files
    BY <2>3, TwoHears, MessageFacts DEF Two!Messages, Alone
  <2>4. disk \in [Files -> Nat \union {Two!Absent}] /\ saved \subseteq Files
    BY <2>1, <2>2, <2>3, TwoWaits DEF TwoSets, Two!HandleFiles
  <2>5. CASE /\ Two!Message("move")
             /\ disk' = Two!Renamed(Head(inbox).src, Head(inbox).dst)
             /\ saved' = saved \ {Head(inbox).src, Head(inbox).dst}
    BY <2>1, <2>4, <2>5 DEF Two!Renamed
  <2>6. CASE /\ Two!Message("copy")
             /\ disk' = Two!Copied(Head(inbox).src, Head(inbox).dst) /\ saved' = saved \ {Head(inbox).dst}
    BY <2>2, <2>4, <2>6 DEF Two!Copied
  <2>7. CASE /\ Two!Message("remove")
             /\ disk' = Two!Removed(Head(inbox).set) /\ saved' = saved \ Head(inbox).set
    BY <2>3, <2>4, <2>7 DEF Two!Removed
  <2> QED
    BY <2>5, <2>6, <2>7 DEF Two!HandleFiles
<1>2. /\ UNCHANGED <<cmd, conn, encrypts, apps, quit, nlen, name, pending, todo, sent, total, status, result,
                     outcome, asks, batch, refused, unanswered, local, garbled, stalled>>
      /\ pc' = "out" /\ (conn = "open" => dev' = "idle") /\ (conn # "open" => dev' = dev)
  BY <1>1 DEF Two!HandleFiles, Two!Kept, Two!Answer, Two!Send, Two!Takes
<1>3. /\ TwoPhase /\ TwoSets /\ TwoFlags /\ SavedFull /\ Two!InStep /\ conn \in {"open", "lost"}
      /\ result = "none" /\ outcome = "none"
  BY <1>1, TwoWaits
<1>4. TwoPhase'
  BY <1>1, <1>2, <1>3 DEF TwoPhase, TwoStart, TwoEnd
<1>5. TwoSets'
  BY <1>1, <1>2, <1>3 DEF TwoSets, TwoUp
<1>6. TwoFlags'
  BY <1>2, <1>3 DEF TwoFlags
<1>7. ListenInv'
  BY <1>1, <1>2, <1>3 DEF ListenInv, Listening
<1>8. SendInv' /\ UpInv'
  BY <1>2 DEF SendInv, UpInv, TwoUp
<1>9. SavedInv'
  BY <1>1, <1>2, <1>3 DEF SavedInv, SavedFull, Two!BackupTrue, Two!Finished, TwoStart
<1>10. Two!InStep'
  BY <1>1, <1>2, <1>3 DEF Two!InStep
<1> QED
  BY <1>4, <1>5, <1>6, <1>7, <1>8, <1>9, <1>10 DEF TwoRest, TwoTypes

LEMMA RestAlone ==
  ASSUME RestInv, Two!Astray, NEW S, inbox \in Seq(S)
  PROVE  inbox = <<Two!Rest>> /\ Head(inbox).kind = "rest"
<1>1. inbox # <<>> /\ Head(inbox) = Two!Rest /\ Two!Rest.kind = "rest"
  BY DEF Two!Astray, Two!Rest, Two!Item
<1>2. 1 \in 1..Len(inbox) /\ Head(inbox) = inbox[1]
  BY <1>1, HeadTailFacts
<1> QED
  BY <1>1, <1>2 DEF RestInv, Strayed

LEMMA TwoStops ==
  ASSUME TwoInv, Two!HandleEnd \/ Two!ReceiveNothing
  PROVE  TwoRest'
<1>1. /\ pc = "loop" /\ inbox' \in Seq(StreamItem \union MessageItem)
      /\ pc' = "report" \/ (pc' = "out" /\ (quit' = TRUE \/ Listening'))
      /\ result' \in {"none", "ok", "error"} /\ (pc' = "out" => result' = result)
      /\ quit' \in {quit, TRUE} /\ (garbled' # garbled => quit' = TRUE /\ garbled' \in BOOLEAN)
      /\ UNCHANGED <<cmd, conn, encrypts, apps, disk, nlen, name, pending, status, outcome, dev, asks, batch, saved,
                     refused, unanswered, local, stalled>>
  <2>1. CASE Two!HandleEnd
    <3>1. pc = "loop" /\ inbox' = <<>> /\ pc' = "report"
      BY <2>1, TwoHears DEF Two!HandleEnd, Two!Messages
    <3>2. result' \in {"none", "ok", "error"}
      <4>1. Two!Message("process") => Head(inbox).result \in {"none", "ok", "error"}
        BY TwoHears, MessageFacts DEF Two!Messages
      <4>2. result \in {"none", "ok", "error"}
        BY DEF TwoInv, TwoTypes, TwoPhase
      <4> QED
        BY <2>1, <4>1, <4>2 DEF Two!HandleEnd
    <3> QED
      BY <2>1, <3>1, <3>2 DEF Two!HandleEnd, Two!Kept, Two!devVars, Two!histVars
  <2>2. CASE Two!ReceiveNothing
    <3>1. pc = "loop" /\ pc' = "out" /\ inbox \in Seq(StreamItem \union MessageItem)
      BY <2>2, TwoWaits DEF Two!ReceiveNothing, TwoSets
    <3>2. inbox' \in Seq(StreamItem \union MessageItem)
      BY <2>2, <3>1 DEF Two!ReceiveNothing, Two!Took, Two!Astray
    <3>3. quit' = TRUE \/ (Listening' /\ quit' = quit /\ garbled' = garbled)
      <4>1. CASE Two!Astray /\ Two!Took /\ UNCHANGED <<quit, garbled>>
        <5>1. inbox = <<Two!Rest>> /\ Head(inbox).kind = "rest"
          BY <3>1, <4>1, RestAlone DEF TwoInv
        <5>2. inbox' = <<>> /\ conn' = conn /\ dev' = dev /\ unanswered' = unanswered
          BY <2>2, <4>1, <5>1 DEF Two!ReceiveNothing, Two!Took, Two!Kept, Two!devVars
        <5>3. Listening
          BY <3>1, TwoWaits
        <5>4. ~Alone(Head(inbox)) /\ ~UploadAhead
          BY <5>1 DEF Alone, UploadAhead
        <5>5. conn = "lost" \/ dev \in {"idle", "confused"} \/ (unanswered /\ dev = "wait")
          BY <5>1, <5>3, <5>4 DEF Listening
        <5> QED
          BY <4>1, <5>2, <5>5 DEF Listening
      <4>2. CASE ~(Two!Astray /\ Two!Took /\ UNCHANGED <<quit, garbled>>)
        BY <2>2, <3>1, <4>2, TwoWaits DEF Two!ReceiveNothing
      <4> QED
        BY <4>1, <4>2
    <3>4. garbled' \in BOOLEAN
      <4>1. garbled \in BOOLEAN
        BY DEF TwoInv, TwoTypes, TwoFlags
      <4>2. garbled' = garbled \/ garbled' = (garbled \/ Head(inbox).kind # "cut")
        BY <2>2 DEF Two!ReceiveNothing
      <4> QED
        BY <4>1, <4>2
    <3>5. result \in {"none", "ok", "error"}
      BY DEF TwoInv, TwoTypes, TwoPhase
    <3> QED
      BY <2>2, <3>1, <3>2, <3>3, <3>4, <3>5 DEF Two!ReceiveNothing, Two!Kept, Two!devVars
  <2> QED
    BY <2>1, <2>2
<1>3. /\ TwoPhase /\ TwoSets /\ TwoFlags /\ SavedFull /\ Two!InStep /\ conn \in {"open", "lost"}
      /\ result = "none" /\ outcome = "none"
  BY <1>1, TwoWaits
<1>4. TwoPhase'
  BY <1>1, <1>3 DEF TwoPhase, TwoStart, TwoEnd
<1>5. TwoSets'
  BY <1>1, <1>3 DEF TwoSets, TwoUp
<1>6. TwoFlags'
  <2>1. garbled' \in BOOLEAN
    BY <1>1, <1>3 DEF TwoFlags
  <2> QED
    BY <1>1, <1>3, <2>1 DEF TwoFlags
<1>7. ListenInv'
  BY <1>1 DEF ListenInv
<1>8. SendInv' /\ UpInv'
  BY <1>1 DEF SendInv, UpInv, TwoUp
<1>9. SavedInv'
  BY <1>1, <1>3 DEF SavedInv, SavedFull, Two!BackupTrue, Two!Finished, TwoStart
<1>10. Two!InStep'
  <2>1. CASE garbled' = garbled
    <3>1. quit => quit'
      BY <1>1
    <3> QED
      BY <1>1, <1>3, <2>1, <3>1 DEF Two!InStep
  <2>2. CASE garbled' # garbled
    BY <1>1, <1>3, <2>2 DEF Two!InStep
  <2> QED
    BY <2>1, <2>2
<1> QED
  BY <1>4, <1>5, <1>6, <1>7, <1>8, <1>9, <1>10 DEF TwoRest, TwoTypes

\* files_out
LEMMA TwoTurns ==
  ASSUME TwoInv, Two!FilesOut
  PROVE  TwoRest'
<1>1. /\ pc = "out" /\ pc' = (IF quit THEN "report" ELSE "loop") /\ quit \in BOOLEAN
      /\ UNCHANGED <<cmd, conn, encrypts, apps, quit, disk, inbox, nlen, name, pending, todo, sent, total, status,
                     result, outcome, dev, asks, batch, saved, refused, unanswered, local, garbled, stalled>>
  BY DEF Two!FilesOut, Two!Kept, Two!ioVars, Two!devVars, Two!histVars, TwoInv, Two!LockTypeOK
<1>2. TwoPhase /\ TwoSets /\ TwoFlags /\ SavedInv /\ Two!InStep /\ ListenInv
  BY DEF TwoInv, TwoTypes
<1>3. pc' \in {"report", "loop"}
  BY <1>1
<1>4. TwoPhase'
  BY <1>1, <1>2, <1>3 DEF TwoPhase, TwoStart, TwoEnd
<1>5. TwoSets'
  BY <1>1, <1>2, <1>3 DEF TwoSets, TwoUp
<1>6. TwoFlags'
  BY <1>1, <1>2 DEF TwoFlags
<1>7. ListenInv'
  <2>1. CASE quit
    BY <1>1, <2>1 DEF ListenInv
  <2>2. CASE ~quit
    <3>1. Listening
      BY <1>1, <1>2, <2>2 DEF ListenInv
    <3>2. BatchInv => BatchInv'
      BY <1>1 DEF BatchInv, Announced
    <3>3. UploadAhead => UploadAhead'
      BY <1>1, <3>2 DEF UploadAhead, Announced
    <3>4. Alone(Head(inbox)) => Alone(Head(inbox))'
      BY <1>1 DEF Alone
    <3> QED
      BY <1>1, <3>1, <3>3, <3>4 DEF ListenInv, Listening
  <2> QED
    BY <1>1, <2>1, <2>2
<1>8. SendInv' /\ UpInv'
  BY <1>3 DEF SendInv, UpInv, TwoUp
<1>9. SavedInv'
  BY <1>1, <1>2 DEF SavedInv, SavedFull, Two!BackupTrue, Two!Finished, TwoStart, TwoEnd
<1>10. Two!InStep'
  BY <1>1, <1>2 DEF Two!InStep
<1> QED
  BY <1>4, <1>5, <1>6, <1>7, <1>8, <1>9, <1>10 DEF TwoRest, TwoTypes

\* A download: the tool and the device are at the same place of the stream.
LEMMA TwoDownloads ==
  ASSUME TwoInv, Two!HandleSendFiles
  PROVE  TwoRest'
<1>1. /\ pc = "loop" /\ inbox' = <<>> /\ dev = "path" /\ pc' = "path" /\ todo' \in Seq(Files)
      /\ UNCHANGED <<cmd, conn, encrypts, apps, quit, disk, nlen, name, pending, status, result, outcome, dev, asks,
                     batch, saved, refused, unanswered, local, garbled, stalled>>
  <2>1. pc = "loop" /\ inbox' = <<>> /\ dev = "path" /\ Head(inbox).files \in Seq(Files)
    BY TwoHears, MessageFacts DEF Two!HandleSendFiles, Two!Messages, Alone
  <2> QED
    BY <2>1 DEF Two!HandleSendFiles, Two!Kept, Two!SendVars
<1>2. /\ TwoPhase /\ TwoSets /\ TwoFlags /\ SavedFull /\ Two!InStep /\ result = "none" /\ outcome = "none"
  BY <1>1, TwoWaits
<1>3. TwoPhase'
  BY <1>1, <1>2 DEF TwoPhase, TwoStart, TwoEnd
<1>4. TwoSets'
  BY <1>1, <1>2 DEF TwoSets, TwoUp
<1>5. TwoFlags'
  BY <1>1, <1>2 DEF TwoFlags
<1>6. ListenInv' /\ UpInv'
  BY <1>1 DEF ListenInv, UpInv, TwoUp
<1>7. SendInv'
  BY <1>1 DEF SendInv
<1>8. SavedInv'
  BY <1>1, <1>2 DEF SavedInv, SavedFull, Two!BackupTrue, Two!Finished, TwoStart
<1>9. Two!InStep'
  BY <1>1, <1>2 DEF Two!InStep
<1> QED
  BY <1>3, <1>4, <1>5, <1>6, <1>7, <1>8, <1>9 DEF TwoRest, TwoTypes

\* A step of a download that keeps in step with the device, or goes on after a change.
Downloads ==
  /\ pc \in {"path", "hunk"} /\ pc' \in {"path", "hunk", "out"}
  /\ conn = "open" => dev' \in {CASE pc' = "path" -> "path" [] pc' = "hunk" -> "file" [] OTHER -> "idle",
                                "confused"}
  /\ conn # "open" => dev' = dev
  /\ dev' = "confused" => dev = "confused" \/ local
  /\ todo' \in Seq(Files)
  /\ pc' = "hunk" => /\ todo' # <<>> /\ sent' \in Nat /\ total' \in Nat /\ sent' < total'
                     /\ ~local => disk[Head(todo')] = total'

LEMMA TwoDownloading ==
  ASSUME TwoInv, Downloads,
         UNCHANGED <<cmd, conn, encrypts, apps, quit, inbox, disk, nlen, name, pending, status, result, outcome, asks,
                     batch, saved, refused, unanswered, local, garbled, stalled>>
  PROVE  TwoRest'
<1>1. /\ TwoPhase /\ TwoSets /\ TwoFlags /\ SavedInv /\ Two!InStep /\ SendInv /\ conn \in {"open", "lost"}
      /\ pc \in {"path", "hunk"} /\ pc' \in {"path", "hunk", "out"}
  BY DEF TwoInv, TwoTypes, Downloads, Two!LockTypeOK
<1>2. dev' \in {"quiet", "idle", "wait", "path", "file", "ended", "confused"}
  BY <1>1 DEF Downloads, TwoPhase
<1>3. TwoPhase'
  BY <1>1, <1>2 DEF TwoPhase, TwoStart, TwoEnd
<1>4. TwoSets'
  BY <1>1 DEF TwoSets, TwoUp
<1>5. TwoFlags'
  BY <1>1 DEF TwoFlags
<1>6. inbox' = <<>>
  BY <1>1 DEF SendInv
<1>7. ListenInv'
  <2>1. pc' = "out" => (conn' = "lost" \/ dev' \in {"idle", "confused"})
    BY <1>1 DEF Downloads
  <2> QED
    BY <1>1, <1>6, <2>1 DEF ListenInv, Listening
<1>8. SendInv'
  <2>1. conn' = "open" => (pc' = "path" => dev' \in {"path", "confused"}) /\ (pc' = "hunk" => dev' \in {"file", "confused"})
    BY DEF Downloads
  <2> QED
    BY <1>1, <1>6, <2>1 DEF SendInv, Downloads
<1>9. UpInv'
  BY <1>1 DEF UpInv, TwoUp
<1>10. SavedInv'
  BY <1>1 DEF SavedInv, SavedFull, Two!BackupTrue, Two!Finished, TwoStart, TwoEnd, TwoPhase
<1>11. Two!InStep'
  BY <1>1 DEF Two!InStep, Downloads
<1> QED
  BY <1>3, <1>4, <1>5, <1>7, <1>8, <1>9, <1>10, <1>11 DEF TwoRest, TwoTypes

\* How a file ends.
LEMMA FileEnds ==
  ASSUME NEW d, NEW broken \in BOOLEAN, Two!FileSent(d, broken), todo \in Seq(Files), todo # <<>>,
         conn = "open" => d \in {"path", "confused"}
  PROVE  /\ pc' \in {"path", "out"} /\ todo' \in Seq(Files)
         /\ conn = "open" => dev' \in {IF pc' = "path" THEN "path" ELSE "idle", "confused"}
         /\ conn # "open" => dev' = dev
         /\ dev' = "confused" => dev = "confused" \/ d = "confused"
<1>1. CASE broken \/ Len(todo) = 1
  <2>1. pc' = "out" /\ todo' = <<>> /\ dev' = IF conn = "open" THEN Two!Takes(Two!Takes(d, "zero"), "status") ELSE dev
    BY <1>1 DEF Two!FileSent, Two!Answer, Two!Send
  <2>2. conn = "open" => d \in {"path", "confused"}
    OBVIOUS
  <2>3. /\ Two!Takes(Two!Takes("path", "zero"), "status") = "idle"
        /\ Two!Takes(Two!Takes("confused", "zero"), "status") = "confused"
    BY DEF Two!Takes
  <2>4. todo' \in Seq(Files)
    BY <2>1
  <2> QED
    BY <2>1, <2>2, <2>3, <2>4
<1>2. CASE ~(broken \/ Len(todo) = 1)
  BY <1>2 DEF Two!FileSent, Two!Send
<1> QED
  BY <1>1, <1>2

LEMMA TwoSends ==
  ASSUME TwoInv, Two!SendPath \/ Two!SendHunk
  PROVE  TwoRest'
<1>1. /\ pc \in {"path", "hunk"} /\ inbox = <<>> /\ todo \in Seq(Files) /\ conn \in {"open", "lost"} /\ local \in BOOLEAN
      /\ conn = "open" => dev \in {IF pc = "path" THEN "path" ELSE "file", "confused"}
      /\ dev = "confused" => local
      /\ disk \in [Files -> Nat \union {Two!Absent}] /\ HunkMax \in Nat \ {0}
      /\ pc = "hunk" => /\ todo # <<>> /\ sent \in Nat /\ total \in Nat /\ sent < total
                        /\ ~local => disk[Head(todo)] = total
  <2>1. pc \in {"path", "hunk"}
    BY DEF Two!SendPath, Two!SendHunk
  <2> QED
    BY <2>1, BackupsAssumption
    DEF TwoInv, TwoTypes, SendInv, Two!InStep, TwoSets, TwoFlags, Two!LockTypeOK
<1>2. UNCHANGED <<cmd, conn, encrypts, apps, quit, inbox, disk, nlen, name, pending, status, result, outcome, asks,
                  batch, saved, refused, unanswered, local, garbled, stalled>>
  BY DEF Two!SendPath, Two!SendHunk, Two!Kept, Two!SendVars
<1>3. todo # <<>> => Head(todo) \in Files /\ disk[Head(todo)] \in Nat \union {-1}
  BY <1>1 DEF Two!Absent
<1>4. CASE Two!SendPath
  <2>1. pc = "path"
    BY <1>4 DEF Two!SendPath
  <2>2. CASE todo = <<>>
    <3>1. /\ pc' = "out" /\ todo' = todo
          /\ dev' = IF conn = "open" THEN Two!Takes(Two!Takes(dev, "zero"), "status") ELSE dev
      BY <1>4, <2>2 DEF Two!SendPath, Two!Answer, Two!Send
    <3>2. /\ Two!Takes(Two!Takes("path", "zero"), "status") = "idle"
          /\ Two!Takes(Two!Takes("confused", "zero"), "status") = "confused"
      BY DEF Two!Takes
    <3>3. Downloads
      BY <1>1, <2>1, <3>1, <3>2 DEF Downloads
    <3> QED
      BY <1>2, <3>3, TwoDownloading
  <2>3. ASSUME todo # <<>>, NEW e, NEW broken \in BOOLEAN, Two!FileSent(e, broken),
               conn = "open" => e \in {"path", "confused"},
               conn = "open" /\ e = "confused" => dev = "confused"
        PROVE  Downloads
    <3>1. /\ pc' \in {"path", "out"} /\ todo' \in Seq(Files)
          /\ conn = "open" => dev' \in {IF pc' = "path" THEN "path" ELSE "idle", "confused"}
          /\ conn # "open" => dev' = dev
          /\ dev' = "confused" => dev = "confused" \/ e = "confused"
      BY <1>1, <2>3, FileEnds
    <3>2. conn = "open" => dev' \in {CASE pc' = "path" -> "path" [] pc' = "hunk" -> "file" [] OTHER -> "idle",
                                     "confused"}
      BY <3>1
    <3>3. dev' = "confused" => dev = "confused" \/ local
      BY <1>1, <2>3, <3>1
    <3> QED
      BY <2>1, <3>1, <3>2, <3>3 DEF Downloads
  <2>4. /\ Two!Takes(Two!Takes("path", "path"), "error") = "path" /\ Two!Takes(Two!Takes("path", "path"), "ok") = "path"
        /\ Two!Takes(Two!Takes("confused", "path"), "error") = "confused"
        /\ Two!Takes(Two!Takes("confused", "path"), "ok") = "confused"
        /\ Two!Takes("path", "path") = "file" /\ Two!Takes("confused", "path") = "confused"
    BY DEF Two!Takes
  <2>5. CASE todo # <<>>
    <3>1. \/ conn = "lost" /\ Two!FileSent(dev, TRUE)
          \/ disk[Head(todo)] = Two!Absent /\ Two!FileSent(Two!Takes(Two!Takes(dev, "path"), "error"), TRUE)
          \/ disk[Head(todo)] = 0 /\ Two!FileSent(Two!Takes(Two!Takes(dev, "path"), "ok"), FALSE)
          \/ /\ disk[Head(todo)] > 0 /\ total' = disk[Head(todo)] /\ sent' = 0
             /\ Two!Send(Two!Takes(dev, "path")) /\ pc' = "hunk" /\ todo' = todo
      BY <1>4, <2>5 DEF Two!SendPath
    <3>2. conn = "open" => dev \in {"path", "confused"}
      BY <1>1, <2>1
    <3>3. CASE conn = "lost" /\ Two!FileSent(dev, TRUE)
      <4>1. Downloads
        BY <2>3, <2>5, <3>3
      <4> QED
        BY <1>2, <4>1, TwoDownloading
    <3>4. CASE Two!FileSent(Two!Takes(Two!Takes(dev, "path"), "error"), TRUE)
      <4>1. Downloads
        BY <2>3, <2>4, <2>5, <3>2, <3>4
      <4> QED
        BY <1>2, <4>1, TwoDownloading
    <3>5. CASE Two!FileSent(Two!Takes(Two!Takes(dev, "path"), "ok"), FALSE)
      <4>1. Downloads
        BY <2>3, <2>4, <2>5, <3>2, <3>5
      <4> QED
        BY <1>2, <4>1, TwoDownloading
    <3>7. CASE /\ disk[Head(todo)] > 0 /\ total' = disk[Head(todo)] /\ sent' = 0
               /\ Two!Send(Two!Takes(dev, "path")) /\ pc' = "hunk" /\ todo' = todo
      <4>1. /\ conn = "open" => dev' = Two!Takes(dev, "path")
            /\ conn # "open" => dev' = dev
        BY <3>7 DEF Two!Send
      <4>2. /\ conn = "open" => dev' \in {"file", "confused"} /\ (dev' = "confused" => dev = "confused")
        BY <2>4, <3>2, <4>1
      <4>3. total' \in Nat /\ sent' < total' /\ sent' \in Nat
        BY <1>3, <2>5, <3>7
      <4>4. Downloads
        BY <1>1, <2>1, <2>5, <3>7, <4>1, <4>2, <4>3 DEF Downloads
      <4> QED
        BY <1>2, <4>4, TwoDownloading
    <3> QED
      BY <1>1, <3>1, <3>3, <3>4, <3>5, <3>7
  <2> QED
    BY <2>2, <2>5
<1>5. CASE Two!SendHunk
  <2>1. /\ pc = "hunk" /\ todo # <<>> /\ sent \in Nat /\ total \in Nat /\ sent < total
        /\ ~local => disk[Head(todo)] = total
        /\ conn = "open" => dev \in {"file", "confused"}
    BY <1>1, <1>5 DEF Two!SendHunk
  <2> DEFINE rd == Two!Read sd == Two!Said
  <2>2. rd \in Nat /\ (~local => rd > 0 /\ rd = sd)
    BY <1>1, <1>3, <2>1 DEF Two!Read, Two!Said, Two!Smaller
  <2>3. ASSUME NEW e, NEW broken \in BOOLEAN, Two!FileSent(e, broken),
               conn = "open" => e \in {"path", "confused"},
               conn = "open" /\ e = "confused" => dev = "confused" \/ local
        PROVE  Downloads
    <3>1. /\ pc' \in {"path", "out"} /\ todo' \in Seq(Files)
          /\ conn = "open" => dev' \in {IF pc' = "path" THEN "path" ELSE "idle", "confused"}
          /\ conn # "open" => dev' = dev
          /\ dev' = "confused" => dev = "confused" \/ e = "confused"
      BY <1>1, <2>1, <2>3, FileEnds
    <3>2. conn = "open" => dev' \in {CASE pc' = "path" -> "path" [] pc' = "hunk" -> "file" [] OTHER -> "idle",
                                     "confused"}
      BY <3>1
    <3>3. dev' = "confused" => dev = "confused" \/ local
      BY <1>1, <2>3, <3>1
    <3> QED
      BY <2>1, <3>1, <3>2, <3>3 DEF Downloads
  <2>4. /\ Two!Takes(Two!Takes("file", "header"), "error") = "confused"
        /\ Two!Takes(Two!Takes("confused", "header"), "error") = "confused"
        /\ Two!Takes("file", "hunk") = "file" /\ Two!Takes("file", "badHunk") = "confused"
        /\ Two!Takes("confused", "hunk") = "confused" /\ Two!Takes("confused", "badHunk") = "confused"
        /\ Two!Takes("file", "ok") = "path" /\ Two!Takes("confused", "ok") = "confused"
    BY DEF Two!Takes
  <2> DEFINE d == Two!Takes(dev, IF rd = sd THEN "hunk" ELSE "badHunk")
  <2>5. \/ conn = "lost" /\ Two!FileSent(dev, TRUE)
        \/ conn = "open" /\ rd = 0 /\ Two!FileSent(Two!Takes(Two!Takes(dev, "header"), "error"), TRUE)
        \/ /\ conn = "open" /\ rd > 0
           /\ \/ sent + rd < total /\ sent' = sent + rd /\ Two!Send(d) /\ UNCHANGED <<total, pc, todo>>
              \/ ~(sent + rd < total) /\ Two!FileSent(Two!Takes(d, "ok"), FALSE)
    BY <1>5 DEF Two!SendHunk
  <2> HIDE DEF rd, sd
  <2>6. CASE conn = "lost" /\ Two!FileSent(dev, TRUE)
    <3>1. Downloads
      BY <2>3, <2>6
    <3> QED
      BY <1>2, <3>1, TwoDownloading
  <2>7. CASE conn = "open" /\ rd = 0 /\ Two!FileSent(Two!Takes(Two!Takes(dev, "header"), "error"), TRUE)
    <3>1. local /\ Two!Takes(Two!Takes(dev, "header"), "error") = "confused"
      BY <2>1, <2>2, <2>4, <2>7
    <3>2. Downloads
      BY <2>3, <2>7, <3>1
    <3> QED
      BY <1>2, <3>2, TwoDownloading
  <2>8. CASE conn = "open" /\ rd > 0
    <3>1. d \in {"file", "confused"} /\ (d = "confused" => local)
      BY <1>1, <2>1, <2>2, <2>4, <2>8
    <3>2. Two!Takes(d, "ok") \in {"path", "confused"} /\ (Two!Takes(d, "ok") = "confused" => local)
      BY <2>4, <3>1
    <3> HIDE DEF d
    <3>3. \/ sent + rd < total /\ sent' = sent + rd /\ Two!Send(d) /\ UNCHANGED <<total, pc, todo>>
          \/ ~(sent + rd < total) /\ Two!FileSent(Two!Takes(d, "ok"), FALSE)
      <4>1. conn # "lost" /\ rd # 0
        BY <2>2, <2>8
      <4> QED
        BY <2>5, <4>1, Zenon
    <3>4. CASE sent + rd < total /\ sent' = sent + rd /\ Two!Send(d) /\ UNCHANGED <<total, pc, todo>>
      <4>1. /\ sent' = sent + rd /\ dev' = d /\ total' = total /\ pc' = "hunk" /\ todo' = todo
        BY <2>1, <2>8, <3>4 DEF Two!Send
      <4>2. sent' \in Nat /\ sent' < total'
        BY <2>1, <2>2, <3>4, <4>1
      <4>3. Downloads
        BY <1>1, <2>1, <2>8, <3>1, <4>1, <4>2 DEF Downloads
      <4> QED
        BY <1>2, <4>3, TwoDownloading
    <3>5. CASE Two!FileSent(Two!Takes(d, "ok"), FALSE)
      <4>1. Downloads
        BY <2>3, <2>8, <3>2, <3>5
      <4> QED
        BY <1>2, <4>1, TwoDownloading
    <3> QED
      BY <3>3, <3>4, <3>5
  <2> QED
    BY <2>5, <2>6, <2>7, <2>8
<1> QED
  BY <1>4, <1>5

\* The end of the tool.
LEMMA TwoEnds ==
  ASSUME TwoInv, Two!Report \/ Two!Finish \/ Two!Free
  PROVE  TwoRest'
<1>1. /\ pc \in TwoEnd /\ pc' \in TwoEnd /\ pc \in {"report", "unlock", "free"}
      /\ inbox' \in {inbox, <<>>} /\ dev' \in {dev, "ended"}
      /\ outcome' \in {outcome, "failed"} \/ Two!Report
      /\ UNCHANGED <<cmd, quit, conn, disk, encrypts, nlen, name, pending, status, result, asks, batch, saved,
                     refused, unanswered, local, garbled, stalled>>
  <2> USE DEF TwoEnd, Two!ioVars, Two!devVars, Two!histVars
  <2>1. CASE Two!Report
    BY <2>1 DEF Two!Report
  <2>2. CASE Two!Finish
    BY <2>2 DEF Two!Finish, Two!Unlock
  <2>3. CASE Two!Free
    BY <2>3 DEF Two!Free
  <2> QED
    BY <2>1, <2>2, <2>3
<1>2. TwoPhase /\ TwoSets /\ TwoFlags /\ SavedInv /\ Two!InStep
  BY DEF TwoInv, TwoTypes
<1>3. outcome' \in {"none", "success", "failed", "aborted"}
  BY <1>1, <1>2 DEF TwoPhase, Two!Report
<1>4. TwoPhase'
  BY <1>1, <1>2, <1>3 DEF TwoPhase, TwoStart, TwoEnd
<1>5. TwoSets'
  <2>1. inbox' \in Seq(StreamItem \union MessageItem)
    <3> DEFINE S == StreamItem \union MessageItem
    <3>1. inbox \in Seq(S) /\ <<>> \in Seq(S)
      BY <1>2 DEF TwoSets
    <3> HIDE DEF S
    <3>2. inbox' \in Seq(S)
      BY <1>1, <3>1
    <3> QED
      BY <3>2 DEF S
  <2>2. pc \notin TwoUp /\ pc' \notin TwoUp /\ pc' \notin {"data", "leftover"} /\ pc \notin {"data", "leftover"}
    BY <1>1 DEF TwoUp, TwoEnd
  <2>3. pc' # "data"
    BY <2>2
  <2> QED
    BY <1>1, <1>2, <2>1, <2>2, <2>3 DEF TwoSets
<1>6. TwoFlags'
  <2>1. apps' \in BOOLEAN
    <3>1. apps \in BOOLEAN
      BY <1>2 DEF TwoFlags
    <3>2. apps' = apps \/ apps' = FALSE
      BY DEF Two!Report, Two!Finish, Two!Free
    <3> QED
      BY <3>1, <3>2
  <2> QED
    BY <1>1, <1>2, <2>1 DEF TwoFlags
<1>7. ListenInv' /\ SendInv' /\ UpInv'
  BY <1>1 DEF ListenInv, SendInv, UpInv, TwoUp, TwoEnd
<1>8. SavedInv'
  <2>1. SavedFull' <=> SavedFull
    BY <1>1 DEF SavedFull
  <2>2. Two!BackupTrue'
    <3>1. CASE Two!Report
      <4> SUFFICES ASSUME cmd = "backup", outcome' = "success"
                   PROVE  /\ result = "ok" /\ disk[StatusFile] = SizeOnDevice[StatusFile]
                          /\ ~local /\ ~stalled => \A f \in saved : disk[f] = SizeOnDevice[f]
        BY <1>1 DEF Two!BackupTrue, Two!Finished
      <4>1. Two!Success
        BY <3>1 DEF Two!Report
      <4>2. result = "ok" /\ disk[StatusFile] = SizeOnDevice[StatusFile]
        BY <4>1 DEF Two!Success, Two!Finished
      <4>3. SavedFull
        BY <1>2, <4>2 DEF SavedInv
      <4> QED
        BY <4>2, <4>3 DEF SavedFull
    <3>2. CASE outcome' \in {outcome, "failed"}
      BY <1>1, <1>2, <3>2 DEF SavedInv, Two!BackupTrue, Two!Finished
    <3> QED
      BY <1>1, <3>1, <3>2
  <2> QED
    BY <1>1, <1>2, <2>1, <2>2 DEF SavedInv, TwoStart, TwoEnd
<1>9. Two!InStep'
  BY <1>1, <1>2 DEF Two!InStep
<1> QED
  BY <1>4, <1>5, <1>6, <1>7, <1>8, <1>9 DEF TwoRest, TwoTypes

\* The lock of somebody else, and the signal.
LEMMA TwoWorld ==
  ASSUME TwoInv, Two!World
  PROVE  TwoRest'
<1>1. /\ quit' = quit \/ quit' = TRUE
      /\ UNCHANGED <<pc, cmd, conn, disk, encrypts, apps, inbox, nlen, name, pending, todo, sent, total, status,
                     result, outcome, dev, asks, batch, saved, refused, unanswered, local, garbled, stalled>>
  BY DEF Two!World, Two!OtherLock, Two!Quit, Two!ioVars, Two!devVars, Two!histVars
<1>2. (quit => quit') /\ (~quit' => ~quit)
  BY <1>1
<1>3. /\ TwoPhase /\ TwoSets /\ TwoFlags /\ SavedInv /\ Two!InStep /\ ListenInv /\ SendInv /\ UpInv
  BY DEF TwoInv, TwoTypes
<1>4. TwoPhase' /\ TwoSets' /\ TwoFlags'
  BY <1>1, <1>3 DEF TwoPhase, TwoSets, TwoFlags
<1>5. BatchInv => BatchInv'
  BY <1>1, <1>2 DEF BatchInv, Announced
<1>6. \A f : Announced(inbox, f)' <=> Announced(inbox, f)
  BY <1>1 DEF Announced
<1>7. Names(inbox, conn) => Names(inbox, conn)'
  BY <1>1 DEF Names, CutOff, Stream
<1>8. ListenInv'
  <2>1. UploadAhead => UploadAhead'
    BY <1>1, <1>5, <1>6 DEF UploadAhead
  <2>2. Listening => Listening'
    BY <1>1, <2>1 DEF Listening, Alone
  <2> QED
    BY <1>1, <1>2, <1>3, <2>2 DEF ListenInv
<1>9. SendInv'
  BY <1>1, <1>3 DEF SendInv
<1>10. UpInv'
  <2> SUFFICES ASSUME pc \in TwoUp PROVE UpInv'
    BY <1>1 DEF UpInv
  <2> USE DEF UpInv
  <2>1. inbox' \in Seq(StreamItem) /\ (conn' = "open" => dev' = "wait") /\ (status' = 1 => refused')
    BY <1>1, <1>3
  <2>2. /\ pc' # "leftover" => BatchInv' /\ (\A f \in saved' : ~Announced(inbox, f)')
        /\ pc' \in {"header", "data"} => stalled' \/ name' \notin saved'
    BY <1>1, <1>3, <1>5, <1>6
  <2>3. /\ pc' = "dname" => quit' \/ Strayed' \/ Names(inbox, conn)'
        /\ pc' = "fname" => \/ Strayed' \/ CutOff(inbox', conn')
                            \/ (Stream(inbox', conn') /\ Head(inbox').kind = "fname")
        /\ pc' = "header" => \/ Strayed' \/ CutOff(inbox', conn')
                             \/ (Stream(inbox', conn') /\ First(Head(inbox'), name'))
    BY <1>1, <1>2, <1>3, <1>7 DEF Strayed
  <2>4. pc' = "data" => \/ Strayed' \/ CutOff(inbox', conn')
                        \/ (Stream(inbox', conn') /\ DataNext(disk[name] + pending)')
    BY <1>1, <1>2, <1>3 DEF Strayed, DataNext
  <2>5. /\ pc' = "leftover" => \/ quit' \/ stalled' \/ conn' = "lost" \/ status' = 1
                               \/ /\ inbox' = <<>> /\ nlen' = 0
                                  /\ ~local' => \A f \in batch' : disk'[f] = SizeOnDevice[f]
        /\ (pc' = "leftover" /\ nlen' > 1) =>
             /\ quit' \/ stalled' \/ name' \notin saved'
             /\ quit' \/ stalled' \/ refused' \/ (conn' = "lost" /\ inbox' = <<>>)
    BY <1>1, <1>2, <1>3
  <2> QED
    BY <2>1, <2>2, <2>3, <2>4, <2>5
<1>11. SavedInv'
  <2>1. SavedFull' <=> SavedFull
    BY <1>1 DEF SavedFull
  <2>2. Two!BackupTrue'
    BY <1>1, <1>3 DEF SavedInv, Two!BackupTrue, Two!Finished
  <2> QED
    BY <1>1, <1>2, <1>3, <2>1, <2>2 DEF SavedInv
<1>12. Two!InStep'
  BY <1>1, <1>2, <1>3 DEF Two!InStep
<1> QED
  BY <1>4, <1>8, <1>9, <1>10, <1>11, <1>12 DEF TwoRest, TwoTypes

\* A file that changes while it is sent.
LEMMA TwoChanges ==
  ASSUME TwoInv, Two!LocalChange
  PROVE  TwoRest'
<1>1. /\ pc = "hunk" /\ local' = TRUE
      /\ UNCHANGED <<pc, cmd, quit, conn, encrypts, apps, inbox, nlen, name, pending, todo, sent, total, status,
                     result, outcome, dev, asks, batch, saved, refused, unanswered, garbled, stalled>>
      /\ \E n \in 0..HunkMax + 1 : disk' = [disk EXCEPT ![Head(todo)] = n]
  BY DEF Two!LocalChange, Two!ioVars, Two!devVars
<1>2. TwoPhase /\ TwoSets /\ TwoFlags /\ SavedInv /\ Two!InStep /\ SendInv /\ HunkMax \in Nat
  BY BackupsAssumption DEF TwoInv, TwoTypes
<1>3. disk' \in [Files -> Nat \union {Two!Absent}]
  <2>1. disk \in [Files -> Nat \union {Two!Absent}]
    BY <1>2 DEF TwoSets
  <2>2. 0..HunkMax + 1 \subseteq Nat
    BY <1>2
  <2> QED
    BY <1>1, <2>1, <2>2
<1>4. TwoPhase' /\ TwoFlags'
  BY <1>1, <1>2 DEF TwoPhase, TwoFlags
<1>5. TwoSets'
  BY <1>1, <1>2, <1>3 DEF TwoSets, TwoUp
<1>6. ListenInv' /\ UpInv'
  BY <1>1 DEF ListenInv, UpInv, TwoUp
<1>7. SendInv'
  BY <1>1, <1>2 DEF SendInv
<1>8. SavedInv'
  BY <1>1, <1>2 DEF SavedInv, SavedFull, Two!BackupTrue, Two!Finished, TwoStart, TwoPhase, TwoEnd
<1>9. Two!InStep'
  BY <1>1, <1>2 DEF Two!InStep
<1> QED
  BY <1>4, <1>5, <1>6, <1>7, <1>8, <1>9 DEF TwoRest, TwoTypes

\* When the device asks, the tool listens or comes to its end.
LEMMA TwoAsked ==
  ASSUME TwoInv, conn = "open", dev = "idle", ~Two!Astray
  PROVE  /\ pc \in {"loop", "out"} \union TwoEnd
         /\ (pc = "loop" \/ (pc = "out" /\ ~quit))
              => inbox = <<>> \/ Head(inbox).kind \notin Two!Messages \union {"rest"}
<1>1. pc \notin TwoStart /\ pc \notin {"path", "hunk"} /\ pc \notin TwoUp
  BY DEF TwoInv, TwoTypes, TwoPhase, SendInv, UpInv
<1>2. pc \in TwoStart \union {"loop", "out", "path", "hunk"} \union TwoUp \union TwoEnd
  BY DEF TwoInv, TwoTypes, TwoPhase
<1>3. (pc = "loop" \/ (pc = "out" /\ ~quit)) => Listening
  BY DEF TwoInv, ListenInv
<1> QED
  BY <1>1, <1>2, <1>3 DEF Listening, UploadAhead, Alone, Two!Astray

LEMMA DeviceSends ==
  ASSUME TwoInv, conn = "open", dev = "idle", ~Two!Astray,
         NEW q \in Seq(StreamItem \union MessageItem), q # <<>>, inbox' = inbox \o q,
         dev' \in {"wait", "path", "ended"}, batch' \subseteq Files, saved' \subseteq saved, asks' \in 0..MaxAsks,
         inbox = <<>> => Listening',
         UNCHANGED <<pc, cmd, quit, conn, disk, encrypts, apps, nlen, name, pending, todo, sent, total, status, result,
                     outcome, refused, unanswered, local, garbled, stalled>>
  PROVE  TwoRest'
<1> DEFINE S == StreamItem \union MessageItem
<1>1. /\ TwoPhase /\ TwoSets /\ TwoFlags /\ SavedInv /\ Two!InStep
  BY DEF TwoInv, TwoTypes
<1>2. /\ pc \in {"loop", "out"} \union TwoEnd
      /\ (pc = "loop" \/ (pc = "out" /\ ~quit))
           => inbox = <<>> \/ Head(inbox).kind \notin Two!Messages \union {"rest"}
  BY TwoAsked
<1>3. inbox \in Seq(S) /\ inbox' \in Seq(S) /\ (inbox # <<>> => inbox' # <<>> /\ Head(inbox') = Head(inbox))
  <2>1. inbox \in Seq(S)
    BY <1>1 DEF TwoSets
  <2> HIDE DEF S
  <2>2. /\ inbox' \in Seq(S) /\ Len(inbox') = Len(inbox) + Len(q)
        /\ \A i \in 1..Len(inbox) + Len(q) : inbox'[i] = IF i <= Len(inbox) THEN inbox[i] ELSE q[i - Len(inbox)]
    BY <2>1, ConcatProperties DEF S
  <2>3. ASSUME inbox # <<>> PROVE inbox' # <<>> /\ Head(inbox') = Head(inbox)
    <3>1. Len(inbox) \in Nat \ {0} /\ Len(q) \in Nat /\ Head(inbox) = inbox[1]
      BY <2>1, <2>3, HeadTailFacts
    <3>2. inbox' # <<>> /\ Head(inbox') = inbox'[1]
      BY <2>2, <3>1
    <3> QED
      BY <2>2, <3>1, <3>2
  <2> QED
    BY <2>1, <2>2, <2>3
<1>4. TwoPhase'
  BY <1>1, <1>2 DEF TwoPhase, TwoStart, TwoEnd
<1>5. TwoSets'
  BY <1>1, <1>2, <1>3 DEF TwoSets, TwoUp, TwoEnd
<1>6. TwoFlags'
  BY <1>1 DEF TwoFlags
<1>7. ListenInv'
  BY <1>2, <1>3 DEF ListenInv, Listening
<1>8. SendInv' /\ UpInv'
  BY <1>2 DEF SendInv, UpInv, TwoUp, TwoEnd
<1>9. SavedInv'
  BY <1>1 DEF SavedInv, SavedFull, Two!BackupTrue, Two!Finished
<1>10. Two!InStep'
  BY <1>1 DEF Two!InStep
<1> QED
  BY <1>4, <1>5, <1>6, <1>7, <1>8, <1>9, <1>10 DEF TwoRest, TwoTypes

\* What follows nothing stands alone.
LEMMA JoinNothing ==
  ASSUME NEW S, NEW m \in S, NEW q \in Seq(S)
  PROVE  /\ <<m>> \in Seq(S) /\ <<m>> # <<>> /\ <<>> \o q = q
         /\ Len(<<m>>) = 1 /\ Head(<<m>>) = m
BY ConcatEmptySeq

LEMMA TwoAsks ==
  ASSUME TwoInv, Two!DeviceAsks \/ Two!DeviceEnds
  PROVE  TwoRest'
<1> DEFINE S == StreamItem \union MessageItem
<1>1. /\ conn = "open" /\ dev = "idle" /\ ~Two!Astray /\ asks \in 0..MaxAsks /\ MaxAsks \in Nat /\ batch \subseteq Files
      /\ inbox \in Seq(S)
      /\ UNCHANGED <<pc, cmd, quit, conn, disk, encrypts, apps, nlen, name, pending, todo, sent, total, status, result,
                     outcome, refused, unanswered, local, garbled, stalled>>
  BY BackupsAssumption DEF Two!DeviceAsks, Two!DeviceEnds, Two!histVars, TwoInv, TwoTypes, TwoSets
<1>2. ASSUME NEW m \in MessageItem, NEW d \in {"wait", "path", "ended"}, NEW n \in Nat,
             inbox' = inbox \o <<m>>, dev' = d, asks + n <= MaxAsks, asks' = asks + n, batch' = batch, saved' = saved,
             inbox' = <<m>> => (Alone(m))'
      PROVE  TwoRest'
  <2>1. m \in S
    OBVIOUS
  <2>2. <<m>> \in Seq(S) /\ <<m>> # <<>> /\ Len(<<m>>) = 1 /\ Head(<<m>>) = m /\ (inbox = <<>> => inbox' = <<m>>)
    <3>1. <<m>> \in Seq(S) /\ <<m>> # <<>> /\ Len(<<m>>) = 1 /\ Head(<<m>>) = m
      BY <2>1, JoinNothing
    <3>2. <<>> \o <<m>> = <<m>>
      BY <2>1, <3>1, JoinNothing
    <3> QED
      BY <1>2, <3>1, <3>2
  <2>3. inbox = <<>> => Listening'
    BY <1>2, <2>2 DEF Listening
  <2>4. asks' \in 0..MaxAsks
    BY <1>1, <1>2
  <2> QED
    BY <1>1, <1>2, <2>2, <2>3, <2>4, DeviceSends
<1>3. ASSUME NEW kind \in {"space", "purge", "list", "mkdir", "badList", "unknown"},
             Two!Ask(<<Two!Item(kind)>>, "wait", 1), UNCHANGED <<batch, saved>>
      PROVE  TwoRest'
  <2>1. Two!Item(kind) \in MessageItem /\ Two!Item(kind).kind = kind
    BY DEF Two!Item, MessageItem
  <2>2. (Alone(Two!Item(kind)))'
    BY <1>3, <2>1 DEF Alone, Two!Ask, Two!Item
  <2> QED
    BY <1>2, <1>3, <2>1, <2>2 DEF Two!Ask
<1>4. ASSUME NEW fs \in Two!UpTo2(Files),
             Two!Ask(<<[kind |-> "download", files |-> fs]>>, "path", Len(fs) + 1), UNCHANGED <<batch, saved>>
      PROVE  TwoRest'
  <2> DEFINE m == [kind |-> "download", files |-> fs]
  <2>1. fs \in Seq(Files) /\ Len(fs) + 1 \in Nat
    <3>1. fs = <<>> \/ (\E a \in Files : fs = <<a>>) \/ (\E a, b \in Files : fs = <<a, b>>)
      BY DEF Two!UpTo2
    <3>2. \A a \in Files : <<a>> \in Seq(Files) /\ Len(<<a>>) = 1
      OBVIOUS
    <3>3. \A a, b \in Files : <<a, b>> \in Seq(Files) /\ Len(<<a, b>>) = 2
      OBVIOUS
    <3>4. <<>> \in Seq(Files) /\ Len(<<>>) = 0
      OBVIOUS
    <3>5. fs \in Seq(Files) /\ Len(fs) \in {0, 1, 2}
      BY <3>1, <3>2, <3>3, <3>4, Zenon
    <3> QED
      BY <3>5
  <2>2. m \in MessageItem /\ m.kind = "download"
    BY <2>1 DEF MessageItem
  <2>3. (Alone(m))'
    BY <1>4, <2>2 DEF Alone, Two!Ask
  <2> QED
    BY <1>2, <1>4, <2>1, <2>2, <2>3 DEF Two!Ask
<1>5. ASSUME NEW kind \in {"move", "copy"}, NEW s \in Files, NEW d \in Files,
             Two!Ask(<<[kind |-> kind, src |-> s, dst |-> d]>>, "wait", 1), UNCHANGED <<batch, saved>>
      PROVE  TwoRest'
  <2> DEFINE m == [kind |-> kind, src |-> s, dst |-> d]
  <2>1. m \in MessageItem /\ m.kind = kind
    BY DEF MessageItem
  <2>2. (Alone(m))'
    BY <1>5, <2>1 DEF Alone, Two!Ask
  <2> QED
    BY <1>2, <1>5, <2>1, <2>2 DEF Two!Ask
<1>6. ASSUME NEW fs \in SUBSET Files,
             Two!Ask(<<[kind |-> "remove", set |-> fs]>>, "wait", 1), UNCHANGED <<batch, saved>>
      PROVE  TwoRest'
  <2> DEFINE m == [kind |-> "remove", set |-> fs]
  <2>1. m \in MessageItem /\ m.kind = "remove"
    BY DEF MessageItem
  <2>2. (Alone(m))'
    BY <1>6, <2>1 DEF Alone, Two!Ask
  <2> QED
    BY <1>2, <1>6, <2>1, <2>2 DEF Two!Ask
<1>7. ASSUME NEW us \in Two!UpTo2([file : Files, fails : BOOLEAN]),
             \A i, j \in DOMAIN us : us[i].file = us[j].file => i = j,
             Two!Ask(Two!Upload(us), "wait", Len(us) + 1),
             batch' = {us[i].file : i \in {j \in DOMAIN us : ~us[j].fails}},
             saved' = saved \ {us[i].file : i \in DOMAIN us}
      PROVE  TwoRest'
  <2> DEFINE w == Two!Upload(us)
  <2>1. /\ w \in Seq(S) /\ w # <<>> /\ Head(w).kind = "upload"
        /\ Tail(w) \in Seq(StreamItem) /\ Names(Tail(w), "open")
        /\ \A i \in 1..Len(w) : w[i].kind = "error" => w[i].name \notin batch'
        /\ \A f \in batch' : Announced(w, f)
        /\ batch' \subseteq Files
        /\ \A f \in saved' : ~Announced(w, f)
    BY <1>7, UploadFacts
  <2> HIDE DEF w
  <2>2. inbox' = inbox \o w /\ dev' = "wait" /\ asks + (Len(us) + 1) <= MaxAsks /\ asks' = asks + (Len(us) + 1)
    BY <1>7 DEF Two!Ask, w
  <2>3. Len(us) + 1 \in Nat
    BY DEF Two!UpTo2
  <2>4. inbox = <<>> => inbox' = w
    BY <2>1, <2>2, ConcatEmptySeq
  <2>5. ASSUME inbox = <<>> PROVE Listening'
    <3>1. inbox' = w /\ conn' = "open"
      BY <1>1, <2>4, <2>5
    <3>2. BatchInv'
      BY <2>1, <3>1 DEF BatchInv
    <3>3. \A f \in saved' : ~Announced(inbox', f)
      BY <2>1, <3>1
    <3>4. UploadAhead'
      BY <2>1, <2>2, <3>1, <3>2, <3>3 DEF UploadAhead
    <3> QED
      BY <3>4 DEF Listening
  <2>6. asks' \in 0..MaxAsks
    BY <1>1, <2>2, <2>3
  <2>7. saved' \subseteq saved
    BY <1>7
  <2> QED
    BY <1>1, <2>1, <2>2, <2>5, <2>6, <2>7, DeviceSends
<1>8. ASSUME NEW m \in MessageItem, m.kind \in {"process", "disconnect"}, inbox' = Append(inbox, m), dev' = "ended",
             UNCHANGED <<asks, batch, saved>>
      PROVE  TwoRest'
  <2>1. inbox' = inbox \o <<m>>
    BY <1>1, <1>8
  <2>2. (Alone(m))'
    BY <1>8 DEF Alone
  <2>3. asks + 0 = asks /\ asks <= MaxAsks /\ 0 \in Nat
    BY <1>1
  <2> QED
    BY <1>2, <1>8, <2>1, <2>2, <2>3
<1>9. CASE Two!DeviceEnds
  <2>1. \A r \in {"ok", "error", "none"} : /\ [kind |-> "process", result |-> r] \in MessageItem
                                           /\ [kind |-> "process", result |-> r].kind = "process"
    BY DEF MessageItem
  <2>2. Two!Item("disconnect") \in MessageItem /\ Two!Item("disconnect").kind = "disconnect"
    BY DEF MessageItem, Two!Item
  <2> QED
    BY <1>8, <1>9, <2>1, <2>2 DEF Two!DeviceEnds, Two!histVars
<1>10. CASE Two!DeviceAsks
  BY <1>3, <1>4, <1>5, <1>6, <1>7, <1>10 DEF Two!DeviceAsks
<1> QED
  BY <1>9, <1>10

LEMMA ArrivedFacts ==
  ASSUME NEW S, NEW q \in Seq(S), NEW T, NEW r \in Seq(T), Arrived(q, r)
  PROVE  /\ q = <<>> => r = <<>>
         /\ Len(q) = 1 => Len(r) \in {0, 1}
         /\ \A f : Announced(r, f) => Announced(q, f)
         /\ S = StreamItem => r \in Seq(StreamItem)
<1>1. Len(q) \in Nat /\ Len(r) \in Nat /\ Len(r) <= Len(q)
  BY DEF Arrived
<1>2. \A i \in 1..Len(r) : i \in 1..Len(q) /\ (r[i] = q[i] \/ r[i] = Two!Item("cut"))
  BY <1>1 DEF Arrived
<1>3. \A f : Announced(r, f) => Announced(q, f)
  BY <1>2, CutFacts DEF Announced
<1>4. S = StreamItem => r \in Seq(StreamItem)
  <2> SUFFICES ASSUME S = StreamItem PROVE r \in Seq(StreamItem)
    OBVIOUS
  <2>1. \A i \in 1..Len(r) : r[i] \in StreamItem
    BY <1>2, CutFacts
  <2>2. r = [i \in 1..Len(r) |-> r[i]]
    OBVIOUS
  <2> QED
    BY <1>1, <2>1, <2>2
<1>5. q = <<>> => r = <<>>
  BY <1>1
<1>6. Len(q) = 1 => Len(r) \in {0, 1}
  BY <1>1
<1> QED
  BY <1>3, <1>4, <1>5, <1>6

LEMMA RestStays ==
  ASSUME Strayed, NEW S, inbox' \in Seq(S), Arrived(inbox, inbox')
  PROVE  inbox' = <<>> \/ inbox' = <<Two!Item("cut")>> \/ Strayed'
<1>1. Len(inbox) = 1 /\ inbox[1] = Two!Rest
  BY DEF Strayed
<1>2. Len(inbox') \in {0, 1} /\ (Len(inbox') = 1 => inbox'[1] \in {Two!Rest, Two!Item("cut")})
  <2>1. Len(inbox') \in Nat /\ Len(inbox') <= 1
    BY <1>1 DEF Arrived
  <2>2. Len(inbox') = 1 => inbox'[1] \in {Two!Rest, Two!Item("cut")}
    BY <1>1 DEF Arrived
  <2> QED
    BY <2>1, <2>2
<1>3. Len(inbox') = 0 => inbox' = <<>>
  OBVIOUS
<1>4. Len(inbox') = 1 => inbox' = <<inbox'[1]>>
  OBVIOUS
<1> QED
  BY <1>2, <1>3, <1>4 DEF Strayed

LEMMA NamesArrive ==
  ASSUME NEW q \in Seq(StreamItem), Names(q, "open"), NEW r \in Seq(StreamItem), Arrived(q, r)
  PROVE  Names(r, "lost")
<1>1. Stream(q, "open") /\ Naming(Head(q))
  BY DEF Names, CutOff
<1>2. CutOff(r, "lost") \/ (Stream(r, "lost") /\ Head(r) = Head(q))
  BY <1>1, StreamArrives
<1> QED
  BY <1>1, <1>2 DEF Names

LEMMA TwoLoses ==
  ASSUME TwoInv, Two!DeviceLost
  PROVE  TwoRest'
<1> DEFINE S == StreamItem \union MessageItem
<1>1. /\ conn = "open" /\ conn' = "lost"
      /\ UNCHANGED <<pc, cmd, quit, disk, encrypts, apps, nlen, name, pending, todo, sent, total, status, result, outcome,
                     dev, asks, batch, saved, refused, unanswered, local, garbled, stalled>>
  BY DEF Two!DeviceLost, Two!devVars, Two!histVars
<1>2. /\ TwoPhase /\ TwoSets /\ TwoFlags /\ SavedInv /\ Two!InStep /\ ListenInv /\ SendInv /\ UpInv
  BY DEF TwoInv, TwoTypes
<1>3. inbox \in Seq(S) /\ inbox' \in Seq(S) /\ Arrived(inbox, inbox')
  <2>1. inbox \in Seq(S) /\ StreamItem \subseteq S
    BY <1>2 DEF TwoSets
  <2>2. PICK k \in 0..Len(inbox) :
          \/ inbox' = SubSeq(inbox, 1, k)
          \/ k < Len(inbox) /\ inbox' = Append(SubSeq(inbox, 1, k), Two!Item("cut"))
    BY DEF Two!DeviceLost
  <2> HIDE DEF S
  <2> QED
    BY <2>1, <2>2, PrefixArrives
<1> HIDE DEF S
<1>4. /\ inbox = <<>> => inbox' = <<>>
      /\ Len(inbox) = 1 => Len(inbox') \in {0, 1}
      /\ \A f : Announced(inbox', f) => Announced(inbox, f)
      /\ inbox \in Seq(StreamItem) => inbox' \in Seq(StreamItem)
  BY <1>3, ArrivedFacts
<1>5. TwoPhase' /\ TwoFlags'
  BY <1>1, <1>2, <1>4 DEF TwoPhase, TwoFlags
<1>6. TwoSets'
  BY <1>1, <1>2, <1>3 DEF TwoSets, S
<1>7. BatchInv'
  BY <1>1 DEF BatchInv
<1>8. ListenInv'
  <2> SUFFICES ASSUME Listening PROVE Listening'
    BY <1>1, <1>2 DEF ListenInv
  <2>1. CASE inbox' = <<>>
    BY <1>1, <2>1 DEF Listening
  <2>2. CASE inbox' # <<>>
    <3>1. inbox # <<>>
      BY <1>4, <2>2
    <3>2. Head(inbox') = Two!Item("cut") \/ (Head(inbox') = Head(inbox) /\ Arrived(Tail(inbox), Tail(inbox')))
      BY <1>3, <2>2, <3>1, ArrivedTail
    <3>3. CASE Head(inbox') = Two!Item("cut")
      <4>1. Head(inbox').kind \notin Two!Messages \union {"rest"}
        BY <3>3, CutFacts DEF Two!Messages
      <4> QED
        BY <2>2, <4>1 DEF Listening
    <3>4. CASE Head(inbox') = Head(inbox) /\ Arrived(Tail(inbox), Tail(inbox'))
      <4>1. CASE Head(inbox).kind \notin Two!Messages \union {"rest"}
        BY <2>2, <3>4, <4>1 DEF Listening
      <4>4. CASE Strayed
        <5>1. inbox' = <<Two!Item("cut")>> \/ Strayed'
          BY <1>3, <2>2, <4>4, RestStays
        <5>2. Two!Item("cut").kind \notin Two!Messages \union {"rest"}
          BY CutFacts DEF Two!Messages
        <5> QED
          BY <1>1, <5>1, <5>2 DEF Listening, Strayed
      <4>2. CASE Len(inbox) = 1 /\ Alone(Head(inbox))
        <5>1. Len(inbox') = 1
          <6>1. Len(inbox') \in {0, 1} /\ Len(inbox') # 0
            BY <1>3, <1>4, <2>2, <4>2
          <6> QED
            BY <6>1
        <5>2. Alone(Head(inbox))'
          BY <1>1, <3>4, <4>2 DEF Alone
        <5> QED
          BY <5>1, <5>2 DEF Listening
      <4>3. CASE UploadAhead
        <5>1. Tail(inbox) \in Seq(StreamItem) /\ Names(Tail(inbox), "open")
          BY <1>1, <4>3 DEF UploadAhead
        <5>2. Tail(inbox') \in Seq(S)
          BY <1>3, <2>2, HeadTailFacts
        <5>3. Tail(inbox') \in Seq(StreamItem)
          BY <3>4, <5>1, <5>2, ArrivedFacts
        <5>4. Names(Tail(inbox'), "lost")
          BY <3>4, <5>1, <5>3, NamesArrive
        <5>5. \A f \in saved' : ~Announced(inbox', f)
          BY <1>1, <1>4, <4>3 DEF UploadAhead
        <5>6. UploadAhead'
          BY <1>1, <1>7, <2>2, <3>4, <4>3, <5>3, <5>4, <5>5 DEF UploadAhead
        <5> QED
          BY <5>6 DEF Listening
      <4> QED
        BY <3>1, <4>1, <4>2, <4>3, <4>4 DEF Listening, Strayed
    <3> QED
      BY <3>2, <3>3, <3>4
  <2> QED
    BY <2>1, <2>2
<1>9. SendInv'
  BY <1>1, <1>2, <1>4 DEF SendInv
<1>10. UpInv'
  <2> SUFFICES ASSUME pc \in TwoUp PROVE UpInv'
    BY <1>1 DEF UpInv
  <2>1. inbox \in Seq(StreamItem) /\ inbox' \in Seq(StreamItem)
    BY <1>2, <1>4 DEF UpInv
  <2>2. ~CutOff(inbox, conn)
    BY <1>1 DEF CutOff
  <2>3. Stream(inbox, conn) => CutOff(inbox', conn') \/ (Stream(inbox', conn') /\ Head(inbox') = Head(inbox))
    BY <1>1, <1>3, <2>1, StreamArrives
  <2>4. Names(inbox, conn) => Names(inbox', conn')
    BY <1>1, <1>3, <2>1, NamesArrive
  <2>9. Strayed => Strayed' \/ CutOff(inbox', conn')
    <3>1. Strayed => inbox' = <<>> \/ inbox' = <<Two!Item("cut")>> \/ Strayed'
      BY <1>3, RestStays
    <3>2. CutOff(<<>>, conn') /\ CutOff(<<Two!Item("cut")>>, conn')
      BY <1>1, CutFacts DEF CutOff
    <3> QED
      BY <3>1, <3>2
  <2>5. pc' = "data" => \/ Strayed' \/ CutOff(inbox', conn')
                        \/ (Stream(inbox', conn') /\ DataNext(disk[name] + pending)')
    BY <1>1, <1>2, <2>2, <2>3, <2>9 DEF UpInv, DataNext
  <2>6. pc' # "leftover" => BatchInv' /\ (\A f \in saved' : ~Announced(inbox', f))
    BY <1>1, <1>2, <1>4, <1>7 DEF UpInv
  <2>7. /\ pc' = "dname" => quit' \/ Strayed' \/ Names(inbox', conn')
        /\ pc' = "fname" => \/ Strayed' \/ CutOff(inbox', conn')
                            \/ (Stream(inbox', conn') /\ Head(inbox').kind = "fname")
        /\ pc' = "header" => \/ Strayed' \/ CutOff(inbox', conn')
                             \/ (Stream(inbox', conn') /\ First(Head(inbox'), name'))
    <3>1. CutOff(inbox', conn') => Names(inbox', conn')
      BY DEF Names
    <3> QED
      BY <1>1, <1>2, <2>2, <2>3, <2>4, <2>9, <3>1 DEF UpInv
  <2>8. (pc' = "leftover" /\ nlen' > 1) =>
          /\ quit' \/ stalled' \/ name' \notin saved'
          /\ quit' \/ stalled' \/ refused' \/ (conn' = "lost" /\ inbox' = <<>>)
    BY <1>1, <1>2, <1>4 DEF UpInv
  <2> QED
    BY <1>1, <1>2, <2>1, <2>5, <2>6, <2>7, <2>8 DEF UpInv
<1>11. SavedInv'
  BY <1>1, <1>2 DEF SavedInv, SavedFull, Two!BackupTrue, Two!Finished
<1>12. Two!InStep'
  BY <1>1, <1>2 DEF Two!InStep
<1> QED
  BY <1>5, <1>6, <1>8, <1>9, <1>10, <1>11, <1>12 DEF TwoRest, TwoTypes

\* The head of a queue and what is announced behind it.
LEMMA AnnouncedTail ==
  ASSUME NEW S, NEW q \in Seq(S), q # <<>>
  PROVE  /\ \A f : Announced(Tail(q), f) => Announced(q, f)
         /\ \A f : Announced(q, f) => Announced(Tail(q), f) \/ (Head(q).kind = "fname" /\ Head(q).name = f)
         /\ \A i \in 1..Len(Tail(q)) : \E j \in 1..Len(q) : Tail(q)[i] = q[j]
         /\ Head(q).kind = "fname" => Announced(q, Head(q).name)
<1> DEFINE t == Tail(q)
<1>1. Len(q) \in Nat \ {0} /\ Head(q) = q[1] /\ Len(t) = Len(q) - 1 /\ \A i \in 1..Len(t) : t[i] = q[i + 1]
  BY HeadTailFacts
<1> HIDE DEF t
<1>2. \A i \in 1..Len(t) : t[i] = q[i + 1] /\ i + 1 \in 1..Len(q)
  BY <1>1
<1>3. \A i \in 1..Len(q) : i = 1 \/ (i - 1 \in 1..Len(t) /\ t[i - 1] = q[i])
  <2> SUFFICES ASSUME NEW i \in 1..Len(q), i # 1 PROVE i - 1 \in 1..Len(t) /\ t[i - 1] = q[i]
    OBVIOUS
  <2>1. i - 1 \in 1..Len(t) /\ (i - 1) + 1 = i
    BY <1>1
  <2> QED
    BY <1>2, <2>1
<1>4. \A f : Announced(t, f) => Announced(q, f)
  BY <1>2 DEF Announced
<1>5. \A f : Announced(q, f) => Announced(t, f) \/ (Head(q).kind = "fname" /\ Head(q).name = f)
  BY <1>1, <1>3 DEF Announced
<1>6. \A i \in 1..Len(t) : \E j \in 1..Len(q) : t[i] = q[j]
  BY <1>2
<1>7. Head(q).kind = "fname" => Announced(q, Head(q).name)
  <2>1. 1 \in 1..Len(q)
    BY <1>1
  <2> QED
    BY <1>1, <2>1 DEF Announced
<1> QED
  BY <1>4, <1>5, <1>6, <1>7 DEF t

\* An item that names no file leaves the files of the upload as they are.
LEMMA BatchTail ==
  ASSUME NEW S, inbox \in Seq(S), inbox # <<>>, inbox' = Tail(inbox), Head(inbox).kind # "fname", BatchInv,
         UNCHANGED <<conn, quit, local, stalled, batch, disk>>, pc \notin {"header", "data"}
  PROVE  BatchInv'
<1>1. /\ \A f : Announced(inbox, f) => Announced(inbox', f)
      /\ \A i \in 1..Len(inbox') : \E j \in 1..Len(inbox) : inbox'[i] = inbox[j]
  BY AnnouncedTail
<1> QED
  BY <1>1 DEF BatchInv

LEMMA TwoUploads ==
  ASSUME TwoInv, Two!HandleReceiveFiles
  PROVE  TwoRest'
<1>1. /\ pc = "loop" /\ inbox # <<>> /\ inbox' = Tail(inbox) /\ UploadAhead /\ pc' = "dname" /\ Head(inbox).kind = "upload"
      /\ UNCHANGED <<cmd, conn, encrypts, apps, quit, disk, nlen, status, pending, name, dev, saved, refused, local, garbled, stalled,
                     todo, sent, total, result, outcome, asks, batch, unanswered>>
  BY TwoHears DEF Two!HandleReceiveFiles, Two!Messages, Two!Kept, Two!RecvVars
<1>2. /\ TwoPhase /\ TwoSets /\ TwoFlags /\ SavedFull /\ Two!InStep /\ result = "none" /\ outcome = "none"
      /\ status = 0 /\ nlen = 0 /\ pending = 0
  BY <1>1, TwoWaits
<1>3. inbox' \in Seq(StreamItem) /\ Names(inbox', conn) /\ dev = "wait" /\ BatchInv /\ \A f \in saved : ~Announced(inbox, f)
  BY <1>1 DEF UploadAhead
<1>4. inbox \in Seq(StreamItem \union MessageItem)
  BY <1>2 DEF TwoSets
<1>5. BatchInv'
  BY <1>1, <1>3, <1>4, BatchTail
<1>6. \A f : Announced(inbox', f) => Announced(inbox, f)
  BY <1>1, <1>4, AnnouncedTail
<1>7. TwoPhase'
  BY <1>1, <1>2 DEF TwoPhase, TwoStart, TwoEnd, TwoUp
<1>8. TwoSets'
  <2>1. inbox' \in Seq(StreamItem \union MessageItem)
    BY <1>3
  <2> QED
    BY <1>1, <1>2, <2>1 DEF TwoSets, TwoUp
<1>9. TwoFlags'
  BY <1>1, <1>2 DEF TwoFlags
<1>10. ListenInv' /\ SendInv'
  BY <1>1 DEF ListenInv, SendInv
<1>11. UpInv'
  <2>1. \A f \in saved' : ~Announced(inbox', f)
    BY <1>1, <1>3, <1>6
  <2>2. Names(inbox', conn') /\ inbox' \in Seq(StreamItem) /\ dev' = "wait" /\ status' = 0
    BY <1>1, <1>2, <1>3
  <2> QED
    BY <1>1, <1>5, <2>1, <2>2 DEF UpInv
<1>12. SavedInv'
  BY <1>1, <1>2 DEF SavedInv, SavedFull, Two!BackupTrue, Two!Finished, TwoStart
<1>13. Two!InStep'
  BY <1>1, <1>2 DEF Two!InStep
<1> QED
  BY <1>7, <1>8, <1>9, <1>10, <1>11, <1>12, <1>13 DEF TwoRest, TwoTypes

\* What is known in the middle of an upload.
LEMMA TwoUploading ==
  ASSUME TwoInv, pc \in TwoUp
  PROVE  /\ TwoPhase /\ TwoSets /\ TwoFlags /\ UpInv /\ SavedFull /\ Two!InStep /\ conn \in {"open", "lost"}
         /\ quit \in BOOLEAN /\ local \in BOOLEAN
         /\ result = "none" /\ outcome = "none" /\ inbox \in Seq(StreamItem) /\ HunkMax \in Nat \ {0}
         /\ name \in Files /\ disk \in [Files -> Nat \union {Two!Absent}]
         /\ SizeOnDevice[name] \in Nat
         /\ inbox # <<>> => Head(inbox) \in StreamItem /\ Tail(inbox) \in Seq(StreamItem)
<1>1. pc \notin TwoEnd \union {"out"}
  BY DEF TwoUp, TwoEnd
<1>2. TwoPhase /\ TwoSets /\ TwoFlags /\ UpInv /\ Two!InStep /\ SavedInv
  BY DEF TwoInv, TwoTypes
<1>3. SavedFull /\ result = "none" /\ outcome = "none"
  BY <1>1, <1>2 DEF SavedInv, TwoPhase
<1>4. inbox \in Seq(StreamItem) /\ conn \in {"open", "lost"} /\ quit \in BOOLEAN /\ local \in BOOLEAN
  BY <1>2 DEF UpInv, TwoInv, Two!LockTypeOK, TwoFlags
<1>5. inbox # <<>> => Head(inbox) \in StreamItem /\ Tail(inbox) \in Seq(StreamItem)
  BY <1>4
<1>6. name \in Files /\ disk \in [Files -> Nat \union {Two!Absent}]
  BY <1>2 DEF TwoSets
<1> QED
  BY <1>2, <1>3, <1>4, <1>5, <1>6, SizeFacts, BackupsAssumption

\* A step within an upload: what is left to see is what it makes of the stream.
LEMMA UpGoes ==
  ASSUME TwoInv, pc \in TwoUp, pc' \in TwoUp, TwoSets', UpInv',
         UNCHANGED <<cmd, conn, encrypts, apps, quit, dev, saved, result, outcome, unanswered>>,
         stalled' \in {stalled, TRUE}, garbled' = garbled \/ (garbled' = TRUE /\ stalled),
         local' \in {local, TRUE}, refused' \in {refused, TRUE}, local => local',
         \A f \in saved : (~local' /\ ~stalled') => disk'[f] = disk[f]
  PROVE  TwoRest'
<1>1. /\ TwoPhase /\ TwoSets /\ TwoFlags /\ SavedFull /\ Two!InStep /\ result = "none" /\ outcome = "none"
  BY TwoUploading
<1>2. TwoPhase'
  BY <1>1 DEF TwoPhase, TwoStart, TwoEnd, TwoUp
<1>3. TwoFlags'
  <2>1. local' \in BOOLEAN /\ refused' \in BOOLEAN /\ garbled' \in BOOLEAN /\ stalled' \in BOOLEAN
    BY <1>1 DEF TwoFlags
  <2> QED
    BY <1>1, <2>1 DEF TwoFlags
<1>4. ListenInv' /\ SendInv'
  BY DEF ListenInv, SendInv, TwoUp
<1>5. SavedInv'
  <2>1. SavedFull'
    <3>1. stalled => stalled'
      OBVIOUS
    <3> QED
      BY <1>1, <3>1 DEF SavedFull
  <2>2. Two!BackupTrue'
    BY <1>1 DEF Two!BackupTrue, Two!Finished
  <2> QED
    BY <2>1, <2>2 DEF SavedInv, TwoStart, TwoUp
<1>6. Two!InStep'
  <2>1. (refused => refused') /\ (stalled => stalled')
    <3>1. refused \in BOOLEAN /\ stalled \in BOOLEAN
      BY <1>1 DEF TwoFlags
    <3> QED
      BY <3>1
  <2> QED
    BY <1>1, <2>1 DEF Two!InStep
<1> QED
  BY <1>2, <1>3, <1>4, <1>5, <1>6 DEF TwoRest, TwoTypes

\* Nothing is known of an upload of which the rest may be anything, but that it is one.
LEMMA UpStrays ==
  ASSUME TwoInv, pc \in TwoUp \ {"leftover"}, pc' \in TwoUp, Strayed, TwoSets',
         UNCHANGED <<cmd, conn, encrypts, apps, quit, inbox, dev, saved, stalled, result, outcome, unanswered>>,
         garbled' \in {garbled, TRUE}, local' \in {local, TRUE}, local => local',
         (status' = status /\ refused' = refused) \/ refused' = TRUE
  PROVE  TwoRest'
<1>1. stalled
  <2>1. 1 \in 1..Len(inbox) /\ inbox[1].kind = "rest"
    BY DEF Strayed, Two!Rest, Two!Item
  <2> QED
    BY <2>1 DEF TwoInv, RestInv
<1>2. \A f \in saved : ~Announced(inbox, f)
  BY DEF TwoInv, UpInv
<1>3. BatchInv'
  BY <1>1 DEF BatchInv
<1>4. Strayed' /\ \A f \in saved' : ~Announced(inbox', f)
  BY <1>2 DEF Strayed
<1>5. inbox' \in Seq(StreamItem) /\ (conn' = "open" => dev' = "wait") /\ (status' = 1 => refused')
  BY DEF TwoInv, UpInv
<1>6. UpInv'
  BY <1>1, <1>3, <1>4, <1>5 DEF UpInv
<1>7. garbled' = garbled \/ (garbled' = TRUE /\ stalled)
  BY <1>1
<1> QED
  BY <1>1, <1>6, <1>7, UpGoes

LEMMA TwoNames ==
  ASSUME TwoInv, Two!RecvName
  PROVE  TwoRest'
<1>1. /\ pc \in {"dname", "fname"}
      /\ UNCHANGED <<cmd, conn, encrypts, apps, quit, disk, pending, status, dev, saved, refused, local, stalled,
                     todo, sent, total, result, outcome, asks, batch, unanswered>>
  BY DEF Two!RecvName, Two!Kept, Two!RecvVars
<1>2. pc \in TwoUp
  BY <1>1 DEF TwoUp
<1>3. /\ TwoSets /\ UpInv /\ TwoFlags /\ conn \in {"open", "lost"} /\ quit \in BOOLEAN
      /\ inbox \in Seq(StreamItem) /\ HunkMax \in Nat \ {0} /\ name \in Files
      /\ inbox # <<>> => Head(inbox) \in StreamItem /\ Tail(inbox) \in Seq(StreamItem)
  BY <1>2, TwoUploading
<1>4. /\ BatchInv /\ (\A f \in saved : ~Announced(inbox, f)) /\ (conn = "open" => dev = "wait") /\ (status = 1 => refused)
      /\ pending = 0
  BY <1>1, <1>2, <1>3 DEF UpInv, TwoSets
<1>5. ASSUME pc' = "leftover", nlen' = 0 \/ (nlen' = nlen /\ quit), inbox' \in Seq(StreamItem), name' = name,
             garbled' = garbled,
             \/ quit \/ stalled \/ conn = "lost"
             \/ inbox' = <<>> /\ nlen' = 0 /\ (~local => \A f \in batch : disk[f] = SizeOnDevice[f])
      PROVE  TwoRest'
  <2>1. inbox' \in Seq(StreamItem \union MessageItem)
    BY <1>5
  <2>2. nlen' \in 0..HunkMax + 1
    BY <1>3, <1>5 DEF TwoSets
  <2>3. TwoSets'
    BY <1>1, <1>3, <1>4, <1>5, <2>1, <2>2 DEF TwoSets, TwoUp
  <2>4. UpInv'
    <3>1. nlen' > 1 => quit
      BY <1>5
    <3> QED
      BY <1>1, <1>4, <1>5, <3>1 DEF UpInv
  <2> QED
    BY <1>1, <1>2, <1>5, <2>3, <2>4, UpGoes DEF TwoUp
<1>6. ASSUME \/ pc = "dname" /\ quit /\ pc' = "leftover" /\ UNCHANGED <<inbox, name, nlen, garbled>>
             \/ quit /\ Two!NoName /\ UNCHANGED <<inbox, garbled>>
      PROVE  TwoRest'
  BY <1>3, <1>5, <1>6 DEF Two!NoName
<1>7. CASE Strayed
  <2>1. Two!Astray /\ ~Two!Cut
    BY <1>7 DEF Strayed, Two!Astray, Two!Cut, Two!Rest, Two!Item
  <2>2. ASSUME NEW f \in Files, Two!ToHeader(f)
        PROVE  name' \in Files /\ pc' \in {"fname", "header"} /\ nlen' = nlen
    BY <1>1, <1>3, <2>2 DEF Two!ToHeader
  <2>3. ASSUME Two!NoName PROVE name' \in Files /\ pc' = "leftover" /\ nlen' = 0
    BY <1>3, <2>3 DEF Two!NoName
  <2>4. /\ inbox' = inbox /\ garbled' \in {garbled, TRUE} /\ name' \in Files /\ nlen' \in {nlen, 0}
        /\ pc' \in {"fname", "header", "leftover"}
    BY <1>3, <2>1, <2>2, <2>3 DEF Two!RecvName
  <2>5. nlen' \in 0..HunkMax + 1 /\ pending \in 0..nlen'
    BY <1>3, <1>4, <2>4 DEF TwoSets
  <2>6. TwoSets'
    BY <1>1, <1>3, <1>4, <2>4, <2>5 DEF TwoSets, TwoUp
  <2> QED
    BY <1>1, <1>7, <2>4, <2>6, UpStrays DEF TwoUp
<1> DEFINE Reads == ~(pc = "dname" /\ quit) /\ inbox # <<>> /\ ~Two!Astray /\ Two!Took /\ UNCHANGED garbled
<1>8. ASSUME Reads, Two!NoName, Head(inbox).kind \in {"zero", "cut"}, ~Strayed PROVE TwoRest'
  <2>1. inbox' = Tail(inbox) /\ pc' = "leftover" /\ nlen' = 0 /\ name' = name
    BY <1>8 DEF Two!NoName, Two!Took
  <2>2. ASSUME conn = "open", ~quit, ~stalled PROVE inbox' = <<>> /\ (~local => \A f \in batch : disk[f] = SizeOnDevice[f])
    <3>1. Stream(inbox, conn)
      BY <1>1, <1>2, <1>3, <1>8, <2>2 DEF UpInv, Names, CutOff
    <3>2. Head(inbox).kind = "zero"
      BY <1>8, <2>2, <3>1, StreamNext
    <3>3. inbox' = <<>>
      <4>1. \/ CutOff(Tail(inbox), conn)
            \/ Head(inbox).kind = "zero" /\ Tail(inbox) = <<>>
            \/ Stream(Tail(inbox), conn) /\ Follows(Head(inbox), Head(Tail(inbox))) /\ Head(Tail(inbox)).kind # "cut"
        BY <1>3, <3>1, StreamNext
      <4> QED
        BY <2>1, <2>2, <3>2, <4>1 DEF CutOff, Follows
    <3>4. \A f : ~Announced(inbox, f)
      <4>1. \A f : ~Announced(<<>>, f)
        BY DEF Announced
      <4>2. \A f : Announced(inbox, f) => Announced(Tail(inbox), f) \/ Head(inbox).kind = "fname"
        BY <1>3, <1>8, AnnouncedTail
      <4>3. Tail(inbox) = <<>>
        BY <2>1, <3>3
      <4> QED
        BY <3>2, <4>1, <4>2, <4>3
    <3>5. ~local => \A f \in batch : disk[f] = SizeOnDevice[f]
      BY <1>1, <1>4, <2>2, <3>4 DEF BatchInv
    <3> QED
      BY <3>3, <3>5
  <2> QED
    BY <1>3, <1>5, <1>8, <2>1, <2>2
<1>9. ASSUME Reads, Two!ToHeader(Head(inbox).name), Head(inbox).kind \notin {"zero", "cut"}, ~Strayed
      PROVE  TwoRest'
  <2>1. /\ inbox' = Tail(inbox) /\ nlen' = nlen /\ inbox' \in Seq(StreamItem)
        /\ pc = "dname" => pc' = "fname" /\ name' = name
        /\ pc = "fname" => pc' = "header" /\ name' = Head(inbox).name
    BY <1>1, <1>3, <1>9 DEF Two!ToHeader, Two!Took
  <2>2. /\ Stream(inbox, conn)
        /\ pc = "dname" => Head(inbox).kind = "dname"
        /\ pc = "fname" => Head(inbox).kind = "fname"
    BY <1>1, <1>2, <1>3, <1>9 DEF UpInv, Names, CutOff, Naming
  <2>3. \/ CutOff(inbox', conn)
        \/ Stream(inbox', conn) /\ Follows(Head(inbox), Head(inbox')) /\ Head(inbox').kind # "cut"
    BY <1>3, <1>9, <2>1, <2>2, StreamNext
  <2>4. name' \in Files
    BY <1>1, <1>3, <1>9, <2>1, <2>2, ItemFacts
  <2>5. inbox' \in Seq(StreamItem \union MessageItem)
    BY <2>1
  <2>6. TwoSets'
    BY <1>1, <1>3, <1>4, <2>1, <2>4, <2>5 DEF TwoSets, TwoUp
  <2>7. /\ \A f : Announced(inbox', f) => Announced(inbox, f)
        /\ \A f : Announced(inbox, f) => Announced(inbox', f) \/ (Head(inbox).kind = "fname" /\ Head(inbox).name = f)
        /\ \A i \in 1..Len(inbox') : \E j \in 1..Len(inbox) : inbox'[i] = inbox[j]
        /\ Head(inbox).kind = "fname" => Announced(inbox, Head(inbox).name)
    BY <1>3, <1>9, <2>1, AnnouncedTail
  <2>8. \A f \in saved' : ~Announced(inbox', f)
    BY <1>1, <1>4, <2>7
  <2>9. CASE pc = "dname"
    <3>1. BatchInv'
      BY <1>1, <1>3, <1>4, <1>9, <2>1, <2>2, <2>9, BatchTail
    <3>2. CutOff(inbox', conn') \/ (Stream(inbox', conn') /\ Head(inbox').kind = "fname")
      BY <1>1, <2>2, <2>3, <2>9 DEF Follows
    <3>3. UpInv'
      BY <1>1, <1>4, <2>1, <2>8, <2>9, <3>1, <3>2 DEF UpInv
    <3> QED
      BY <1>1, <1>2, <1>9, <2>1, <2>6, <2>9, <3>3, UpGoes DEF TwoUp
  <2>10. CASE pc = "fname"
    <3>1. BatchInv'
      <4> SUFFICES ASSUME conn = "open", ~quit, ~stalled
                   PROVE  /\ \A i \in 1..Len(inbox') : inbox'[i].kind = "error" => inbox'[i].name \notin batch
                          /\ ~local => \A f \in batch : disk[f] = SizeOnDevice[f] \/ Announced(inbox', f) \/ f = name'
        BY <1>1, <2>1, <2>10 DEF BatchInv
      <4>1. \A i \in 1..Len(inbox') : inbox'[i].kind = "error" => inbox'[i].name \notin batch
        BY <1>4, <2>7 DEF BatchInv
      <4>2. ~local => \A f \in batch : disk[f] = SizeOnDevice[f] \/ Announced(inbox, f)
        BY <1>4, <2>10 DEF BatchInv
      <4> QED
        BY <2>1, <2>7, <2>10, <4>1, <4>2
    <3>2. CutOff(inbox', conn') \/ (Stream(inbox', conn') /\ First(Head(inbox'), name'))
      BY <1>1, <2>1, <2>2, <2>3, <2>10 DEF Follows
    <3>3. name' \notin saved'
      BY <1>1, <1>4, <2>1, <2>2, <2>7, <2>10
    <3>4. UpInv'
      BY <1>1, <1>4, <2>1, <2>8, <2>10, <3>1, <3>2, <3>3 DEF UpInv
    <3> QED
      BY <1>1, <1>2, <1>9, <2>1, <2>6, <2>10, <3>4, UpGoes DEF TwoUp
  <2> QED
    BY <1>1, <2>9, <2>10
<1>10. Two!Astray => Strayed
  BY <1>3, RestAlone DEF TwoInv, Strayed
<1> QED
  <2>1. ASSUME Reads, ~Strayed,
               IF Two!Cut \/ Head(inbox).kind = "zero" THEN Two!NoName ELSE Two!ToHeader(Head(inbox).name)
        PROVE  TwoRest'
    BY <1>8, <1>9, <2>1 DEF Two!Cut
  <2> QED
    BY <1>6, <1>7, <1>10, <2>1 DEF Two!RecvName

\* The record that is taken from the stream.
LEMMA RecordFacts ==
  ASSUME NEW x \in StreamItem, x.kind \in {"hunk", "end", "error"}, Two!Record(x), HunkMax \in Nat \ {0}
  PROVE  /\ nlen' \in 0..HunkMax + 1 /\ nlen' = (IF x.kind = "hunk" THEN x.size + 1 ELSE IF x.kind = "end" THEN 1 ELSE 2)
         /\ pending' = (IF x.kind = "hunk" THEN x.size ELSE 0) /\ pending' \in 0..nlen'
         /\ x.kind = "hunk" => nlen' = pending' + 1
BY ItemFacts DEF Two!Record

\* What may be taken for a record.
LEMMA AnyFacts ==
  ASSUME HunkMax \in Nat \ {0}, NEW r \in Two!Anything, Two!Record(r)
  PROVE  /\ nlen' \in 0..HunkMax + 1 /\ pending' \in 0..nlen'
         /\ Two!AfterRecord(r) \in {"data", "dname"} /\ (Two!AfterRecord(r) = "dname" => pending' = 0)
         /\ Two!AfterRecord(r) = "data" => nlen' = pending' + 1
<1>1. CASE r = [kind |-> "hunk", size |-> HunkMax]
  BY <1>1 DEF Two!Record, Two!AfterRecord
<1>2. CASE r = [kind |-> "error", size |-> 1]
  BY <1>2 DEF Two!Record, Two!AfterRecord
<1>3. CASE r = [kind |-> "end", size |-> 0]
  BY <1>3 DEF Two!Record, Two!AfterRecord
<1> QED
  BY <1>1, <1>2, <1>3 DEF Two!Anything

LEMMA TwoHeaders ==
  ASSUME TwoInv, Two!RecvHeader
  PROVE  TwoRest'
<1>1. /\ pc = "header"
      /\ UNCHANGED <<cmd, conn, encrypts, apps, quit, name, dev, saved, local, stalled, todo, sent, total, result,
                     outcome, asks, batch, unanswered>>
  BY DEF Two!RecvHeader, Two!Kept, Two!RecvVars
<1>2. pc \in TwoUp
  BY <1>1 DEF TwoUp
<1>3. /\ TwoSets /\ UpInv /\ TwoFlags /\ conn \in {"open", "lost"} /\ quit \in BOOLEAN
      /\ inbox \in Seq(StreamItem) /\ HunkMax \in Nat \ {0} /\ name \in Files
      /\ disk \in [Files -> Nat \union {Two!Absent}] /\ SizeOnDevice[name] \in Nat
      /\ inbox # <<>> => Head(inbox) \in StreamItem /\ Tail(inbox) \in Seq(StreamItem)
  BY <1>2, TwoUploading
<1>4. /\ BatchInv /\ (\A f \in saved : ~Announced(inbox, f)) /\ (conn = "open" => dev = "wait") /\ (status = 1 => refused)
      /\ pending = 0 /\ (stalled \/ name \notin saved)
      /\ Strayed \/ CutOff(inbox, conn) \/ (Stream(inbox, conn) /\ First(Head(inbox), name))
  BY <1>1, <1>2, <1>3 DEF UpInv, TwoSets
<1>5. CASE inbox = <<>> \/ Two!Cut
  <2>4. ~Two!Whole /\ ~Two!Astray /\ ~Strayed
    BY <1>5 DEF Two!Cut, Two!Whole, Two!Astray, Two!Rest, Two!Item, Strayed
  <2>1. /\ inbox' = <<>> /\ pc' = "leftover" /\ nlen' \in {0, HunkMax + 1} /\ garbled' = garbled
        /\ UNCHANGED <<disk, pending, status, refused>>
    BY <1>5, <2>4 DEF Two!RecvHeader, Two!NoHeader, Two!Cut
  <2>2. conn = "lost"
    <3>1. Stream(inbox, conn) => inbox # <<>>
      BY DEF Stream
    <3>2. (inbox # <<>> /\ Head(inbox).kind = "cut") => ~First(Head(inbox), name)
      BY DEF First, Record
    <3> QED
      BY <1>4, <1>5, <2>4, <3>1, <3>2 DEF CutOff, Two!Cut
  <2>3. <<>> \in Seq(StreamItem) /\ <<>> \in Seq(StreamItem \union MessageItem)
    OBVIOUS
  <2>7. nlen' \in 0..HunkMax + 1
    BY <1>3, <2>1
  <2>5. TwoSets'
    BY <1>1, <1>3, <1>4, <2>1, <2>3, <2>7 DEF TwoSets, TwoUp
  <2>6. UpInv'
    BY <1>1, <1>4, <2>1, <2>2, <2>3 DEF UpInv
  <2> QED
    BY <1>1, <1>2, <2>1, <2>5, <2>6, UpGoes DEF TwoUp
<1>7. CASE Strayed
  <2>1. Two!Astray /\ ~Two!Cut /\ ~Two!Whole /\ inbox # <<>>
    BY <1>7 DEF Strayed, Two!Astray, Two!Cut, Two!Whole, Two!Rest, Two!Item
  <2> DEFINE Any == /\ disk' \in [Files -> Nat \union {Two!Absent}] /\ disk'[name] \in Nat \union {Two!Absent}
                    /\ nlen' \in 0..HunkMax + 1 /\ pending' \in 0..nlen'
                    /\ pc' \in {"data", "dname", "leftover"} /\ (pc' = "dname" => pending' = 0)
                    /\ pc' = "data" => nlen' = pending' + 1 /\ disk'[name] \in Nat
                    /\ status' \in {0, 1} /\ ((status' = status /\ refused' = refused) \/ refused' = TRUE)
  <2>2. ASSUME Two!NoHeader({0, HunkMax + 1}) PROVE Any
    <3>1. nlen' \in 0..HunkMax + 1 /\ 0 \in 0..nlen'
      BY <1>3, <2>2 DEF Two!NoHeader
    <3> QED
      BY <1>3, <1>4, <2>2, <3>1 DEF Two!NoHeader, TwoSets
  <2>3. ASSUME NEW r \in Two!Anything, Two!MakeFile(r) PROVE Any
    <3>1. /\ nlen' \in 0..HunkMax + 1 /\ pending' \in 0..nlen'
          /\ Two!AfterRecord(r) \in {"data", "dname"} /\ (Two!AfterRecord(r) = "dname" => pending' = 0)
          /\ Two!AfterRecord(r) = "data" => nlen' = pending' + 1
      BY <1>3, <2>3, AnyFacts DEF Two!MakeFile
    <3>2. CASE disk' = [disk EXCEPT ![name] = 0] /\ pc' = Two!AfterRecord(r) /\ UNCHANGED <<status, refused>>
      BY <1>3, <3>1, <3>2 DEF TwoSets
    <3>3. CASE disk' = [disk EXCEPT ![name] = Two!Absent] /\ status' = 1 /\ refused' = TRUE /\ pc' = "leftover"
      BY <1>3, <3>1, <3>3
    <3> QED
      BY <2>3, <3>2, <3>3 DEF Two!MakeFile
  <2>4. ASSUME Two!NoRecord, disk' = [disk EXCEPT ![name] = 0], UNCHANGED <<status, refused>> PROVE Any
    BY <1>3, <2>4 DEF Two!NoRecord, TwoSets
  <2>5. inbox' = inbox /\ garbled' = TRUE /\ Any
    BY <2>1, <2>2, <2>3, <2>4 DEF Two!RecvHeader
  <2>6. TwoSets'
    BY <1>1, <1>3, <2>5 DEF TwoSets, TwoUp
  <2> QED
    BY <1>1, <1>7, <2>5, <2>6, UpStrays DEF TwoUp
<1>6. CASE Two!Whole /\ ~Strayed
  <2> DEFINE x == Head(inbox)
  <2>16. inbox # <<>> /\ x.kind # "cut" /\ garbled' = garbled
    BY <1>6 DEF Two!Whole, Two!Cut, Two!RecvHeader
  <2>1. /\ inbox' = Tail(inbox) /\ Two!Record(x)
        /\ \/ /\ disk' = [disk EXCEPT ![name] = 0] /\ pc' = Two!AfterRecord(x)
              /\ UNCHANGED <<status, refused>>
           \/ /\ disk' = [disk EXCEPT ![name] = Two!Absent] /\ status' = 1 /\ refused' = TRUE
              /\ pc' = "leftover"
    BY <1>6 DEF Two!RecvHeader, Two!Took, Two!MakeFile, Two!Whole, Two!Cut
  <2>2. Stream(inbox, conn) /\ First(x, name)
    BY <1>4, <1>6, <2>16 DEF CutOff
  <2>3. /\ x \in StreamItem /\ x.kind \in {"hunk", "end", "error"} /\ x.name = name
        /\ x.kind = "hunk" => x.from = 0 /\ x.size \in 1..HunkMax /\ x.from + x.size <= SizeOnDevice[name]
        /\ x.kind = "end" => SizeOnDevice[name] = 0
        /\ x.kind = "error" => x.size = 1
    BY <1>3, <2>16, <2>2, ItemFacts DEF First, Record
  <2>4. /\ nlen' \in 0..HunkMax + 1 /\ pending' = (IF x.kind = "hunk" THEN x.size ELSE 0) /\ pending' \in 0..nlen'
        /\ x.kind = "hunk" => nlen' = pending' + 1
    BY <1>3, <2>1, <2>3, RecordFacts
  <2>5. \/ CutOff(inbox', conn)
        \/ Stream(inbox', conn) /\ Follows(x, Head(inbox')) /\ Head(inbox').kind # "cut"
    BY <1>3, <2>16, <2>1, <2>2, <2>3, StreamNext
  <2>6. inbox' \in Seq(StreamItem) /\ inbox' \in Seq(StreamItem \union MessageItem)
    <3>1. inbox' \in Seq(StreamItem)
      BY <1>3, <2>16, <2>1
    <3> QED
      BY <3>1
  <2>7. /\ \A f : Announced(inbox', f) => Announced(inbox, f)
        /\ \A f : Announced(inbox, f) => Announced(inbox', f)
        /\ \A i \in 1..Len(inbox') : \E j \in 1..Len(inbox) : inbox'[i] = inbox[j]
    BY <1>3, <2>16, <2>1, <2>3, AnnouncedTail
  <2>8. \A f \in saved' : ~Announced(inbox', f)
    BY <1>1, <1>4, <2>7
  <2>9. (conn = "open" /\ ~quit /\ ~stalled /\ x.kind = "error") => name \notin batch
    <3>1. \E i \in 1..Len(inbox) : inbox[i] = x
      <4>1. x = inbox[1] /\ 1 \in 1..Len(inbox)
        BY <1>3, <2>16, HeadTailFacts
      <4> QED
        BY <4>1
    <3> QED
      BY <1>4, <2>3, <3>1 DEF BatchInv
  <2> HIDE DEF x
  <2>10. CASE /\ disk' = [disk EXCEPT ![name] = 0] /\ pc' = Two!AfterRecord(x)
              /\ UNCHANGED <<status, refused>>
    <3>1. /\ disk' \in [Files -> Nat \union {Two!Absent}] /\ disk'[name] = 0
          /\ \A f \in Files : f # name => disk'[f] = disk[f]
      BY <1>3, <2>10
    <3>2. pc' = (IF x.kind = "hunk" THEN "data" ELSE "dname")
      BY <2>10 DEF Two!AfterRecord
    <3>3. TwoSets'
      BY <1>1, <1>2, <1>3, <1>4, <2>4, <2>6, <2>10, <3>1, <3>2 DEF TwoSets, TwoUp
    <3>4. BatchInv'
      <4> SUFFICES ASSUME conn = "open", ~quit, ~stalled
                   PROVE  /\ \A i \in 1..Len(inbox') : inbox'[i].kind = "error" => inbox'[i].name \notin batch
                          /\ ~local => \A f \in batch : \/ disk'[f] = SizeOnDevice[f] \/ Announced(inbox', f)
                                                        \/ pc' = "data" /\ f = name
        BY <1>1 DEF BatchInv
      <4>1. \A i \in 1..Len(inbox') : inbox'[i].kind = "error" => inbox'[i].name \notin batch
        BY <1>4, <2>7 DEF BatchInv
      <4>2. ASSUME ~local, NEW f \in batch
            PROVE  disk'[f] = SizeOnDevice[f] \/ Announced(inbox', f) \/ (pc' = "data" /\ f = name)
        <5>1. f \in Files
          BY <1>3 DEF TwoSets
        <5>2. CASE f # name
          <6>1. disk[f] = SizeOnDevice[f] \/ Announced(inbox, f)
            BY <1>4, <4>2, <5>2 DEF BatchInv
          <6> QED
            BY <2>7, <3>1, <5>1, <5>2, <6>1
        <5>3. CASE f = name
          BY <2>3, <2>9, <3>1, <3>2, <4>2, <5>3
        <5> QED
          BY <5>2, <5>3
      <4> QED
        BY <4>1, <4>2
    <3>5. x.kind = "hunk" =>
            CutOff(inbox', conn') \/ (Stream(inbox', conn') /\ DataNext(disk[name] + pending)')
      <4> SUFFICES ASSUME x.kind = "hunk", ~CutOff(inbox', conn)
                   PROVE  /\ Stream(inbox', conn)
                          /\ \E n \in 1..SizeOnDevice[name] : NextAt(Head(inbox'), name, n) /\ n = disk'[name] + pending'
        BY <1>1 DEF DataNext
      <4>1. Stream(inbox', conn) /\ NextAt(Head(inbox'), name, x.from + x.size)
        BY <2>3, <2>5 DEF Follows
      <4>2. x.from + x.size = disk'[name] + pending' /\ x.from + x.size \in 1..SizeOnDevice[name]
        BY <1>3, <2>3, <2>4, <3>1
      <4> QED
        BY <4>1, <4>2
    <3>6. x.kind # "hunk" => Names(inbox', conn')
      BY <1>1, <2>3, <2>5 DEF Names, Follows
    <3>7. UpInv'
      BY <1>1, <1>4, <2>6, <2>8, <2>10, <3>2, <3>4, <3>5, <3>6 DEF UpInv
    <3>8. ~stalled => \A f \in saved : disk'[f] = disk[f]
      BY <1>3, <1>4, <3>1 DEF TwoSets
    <3> QED
      BY <1>1, <1>2, <2>10, <2>16, <3>2, <3>3, <3>7, <3>8, UpGoes DEF TwoUp
  <2>11. CASE /\ disk' = [disk EXCEPT ![name] = Two!Absent] /\ status' = 1 /\ refused' = TRUE
              /\ pc' = "leftover"
    <3>1. /\ disk' \in [Files -> Nat \union {Two!Absent}]
          /\ \A f \in Files : f # name => disk'[f] = disk[f]
      BY <1>3, <2>11
    <3>2. TwoSets'
      BY <1>1, <1>3, <1>4, <2>4, <2>6, <2>11, <3>1 DEF TwoSets, TwoUp
    <3>3. UpInv'
      BY <1>1, <1>4, <2>6, <2>11 DEF UpInv
    <3>4. ~stalled => \A f \in saved : disk'[f] = disk[f]
      BY <1>3, <1>4, <3>1 DEF TwoSets
    <3> QED
      BY <1>1, <1>2, <2>11, <2>16, <3>2, <3>3, <3>4, UpGoes DEF TwoUp
  <2> QED
    BY <2>1, <2>10, <2>11
<1>8. Two!Astray => Strayed
  BY <1>3, RestAlone DEF TwoInv, Strayed
<1> QED
  BY <1>5, <1>6, <1>7, <1>8 DEF Two!Whole

LEMMA TwoData ==
  ASSUME TwoInv, Two!RecvData
  PROVE  TwoRest'
<1>1. /\ pc = "data"
      /\ UNCHANGED <<cmd, conn, encrypts, apps, quit, name, status, dev, saved, refused, stalled, todo, sent, total, result,
                     outcome, asks, batch, unanswered>>
  BY DEF Two!RecvData, Two!Kept, Two!RecvVars
<1>2. pc \in TwoUp
  BY <1>1 DEF TwoUp
<1>3. /\ TwoSets /\ UpInv /\ TwoFlags /\ conn \in {"open", "lost"} /\ quit \in BOOLEAN /\ local \in BOOLEAN
      /\ inbox \in Seq(StreamItem) /\ HunkMax \in Nat \ {0} /\ name \in Files
      /\ disk \in [Files -> Nat \union {Two!Absent}] /\ SizeOnDevice[name] \in Nat
      /\ inbox # <<>> => Head(inbox) \in StreamItem /\ Tail(inbox) \in Seq(StreamItem)
  BY <1>2, TwoUploading
<1>4. /\ BatchInv /\ (\A f \in saved : ~Announced(inbox, f)) /\ (conn = "open" => dev = "wait") /\ (status = 1 => refused)
      /\ (stalled \/ name \notin saved) /\ nlen = pending + 1 /\ nlen \in 0..HunkMax + 1 /\ pending \in 0..nlen
      /\ disk[name] \in Nat /\ saved \subseteq Files /\ batch \subseteq Files
      /\ Strayed \/ CutOff(inbox, conn) \/ (Stream(inbox, conn) /\ DataNext(disk[name] + pending))
  BY <1>1, <1>2, <1>3 DEF UpInv, TwoSets
<1>10. Two!Astray => Strayed
  BY <1>3, RestAlone DEF TwoInv, Strayed
<1>11. ASSUME Strayed PROVE TwoRest'
  <2>1. Two!Astray /\ ~Two!Cut /\ ~Two!Whole /\ inbox # <<>>
    BY <1>11 DEF Strayed, Two!Astray, Two!Cut, Two!Whole, Two!Rest, Two!Item
  <2>2. disk' \in [Files -> Nat \union {Two!Absent}] /\ disk'[name] \in Nat
    <3>1. ASSUME NEW n \in 0..pending PROVE Two!Smaller(disk[name] + n, SizeOnDevice[name] + 1) \in Nat
      BY <1>3, <1>4 DEF Two!Smaller
    <3>2. CASE \E n \in 0..pending :
                 disk' = [disk EXCEPT ![name] = Two!Smaller(@ + n, SizeOnDevice[name] + 1)]
      BY <1>3, <3>1, <3>2
    <3>3. CASE disk' = disk
      BY <1>3, <1>4, <3>3
    <3> QED
      BY <2>1, <3>2, <3>3 DEF Two!RecvData
  <2>3. /\ inbox' = inbox /\ garbled' \in {garbled, TRUE} /\ local' \in {local, TRUE} /\ (local => local')
        /\ pc' \in {"data", "dname", "leftover"} /\ pending' \in 0..nlen' /\ nlen' \in 0..HunkMax + 1
        /\ (pc' = "dname" => pending' = 0) /\ (pc' = "data" => nlen' = pending' + 1)
    <3>1. local' \in {local, TRUE} /\ (local => local')
      BY <1>3, <2>1 DEF Two!RecvData
    <3>2. CASE quit
      <4>1. 0 \in 0..nlen
        BY <1>3, <1>4
      <4> QED
        BY <1>4, <3>1, <3>2, <4>1 DEF Two!RecvData
    <3>3. CASE ~quit /\ Two!NoRecord /\ inbox' = inbox /\ garbled' = TRUE
      <4>1. 0 \in 0..HunkMax + 1 /\ 0 \in 0..0
        BY <1>3
      <4>2. nlen' = 0 /\ pending' = 0 /\ pc' = "leftover"
        BY <3>3 DEF Two!NoRecord
      <4> QED
        BY <3>1, <3>3, <4>1, <4>2
    <3>4. ASSUME NEW r \in Two!Anything, Two!ToRecord(r), inbox' = inbox, garbled' = TRUE
          PROVE  /\ pc' \in {"data", "dname"} /\ pending' \in 0..nlen' /\ nlen' \in 0..HunkMax + 1
                 /\ (pc' = "dname" => pending' = 0) /\ (pc' = "data" => nlen' = pending' + 1)
      BY <1>3, <3>4, AnyFacts DEF Two!ToRecord
    <3> QED
      BY <2>1, <3>1, <3>2, <3>3, <3>4 DEF Two!RecvData
  <2>4. TwoSets'
    BY <1>1, <1>3, <2>2, <2>3 DEF TwoSets, TwoUp
  <2> QED
    BY <1>1, <1>2, <1>11, <2>3, <2>4, UpStrays DEF TwoUp
<1> SUFFICES ASSUME ~Strayed PROVE TwoRest'
  BY <1>11
\* what comes of the hunk
<1>5. /\ disk' \in [Files -> Nat \union {Two!Absent}] /\ disk'[name] \in Nat
      /\ \A f \in Files : f # name => disk'[f] = disk[f]
      /\ (conn = "open" /\ ~local') => disk'[name] = disk[name] + pending
      /\ local' \in {local, TRUE} /\ (local => local') /\ (~local' => ~local)
  <2>1. CASE disk' = [disk EXCEPT ![name] = @ + pending] /\ UNCHANGED local
    <3>1. disk[name] + pending \in Nat
      BY <1>4
    <3>2. disk'[name] = disk[name] + pending /\ \A f \in Files : f # name => disk'[f] = disk[f]
      BY <1>3, <2>1
    <3>3. disk' \in [Files -> Nat \union {Two!Absent}]
      BY <1>3, <2>1, <3>1
    <3> QED
      BY <2>1, <3>1, <3>2, <3>3
  <2>2. CASE local' = (local \/ conn = "open") /\ UNCHANGED disk
    <3>1. local' \in {local, TRUE} /\ (local => local') /\ (~local' => ~local) /\ (conn = "open" => local')
      BY <1>3, <2>2
    <3> QED
      BY <1>3, <1>4, <2>2, <3>1
  <2> QED
    BY <1>10, <2>1, <2>2 DEF Two!RecvData
<1>6. /\ ~stalled => \A f \in saved : disk'[f] = disk[f]
      /\ \A f \in batch : f # name => disk'[f] = disk[f]
  BY <1>4, <1>5
<1>7. CASE quit
  <2>1. pending' = 0 /\ pc' = "dname" /\ UNCHANGED <<inbox, nlen, garbled>>
    BY <1>7 DEF Two!RecvData
  <2>2. inbox' \in Seq(StreamItem \union MessageItem)
    BY <1>3, <2>1
  <2>3. pending' \in 0..nlen'
    BY <1>4, <2>1
  <2>4. nlen' = 0 \/ nlen' = nlen
    BY <2>1
  <2> QED
    BY <1>1, <1>2, <1>3, <1>4, <1>5, <1>6, <1>7, <2>1, <2>2, <2>3, UpGoes DEF TwoUp, TwoSets, UpInv, BatchInv
<1>8. CASE ~quit /\ (inbox = <<>> \/ Two!Cut)
  <2>7. ~Two!Whole /\ ~Two!Astray
    BY <1>8 DEF Two!Cut, Two!Whole, Two!Astray, Two!Rest, Two!Item
  <2>1. inbox' = <<>> /\ nlen' = 0 /\ pending' = 0 /\ pc' = "leftover" /\ garbled' = garbled
    BY <1>8, <2>7 DEF Two!RecvData, Two!NoRecord
  <2>2. conn = "lost"
    <3>1. Stream(inbox, conn) => inbox # <<>>
      BY DEF Stream
    <3>2. \A n : (inbox # <<>> /\ Head(inbox).kind = "cut") => ~NextAt(Head(inbox), name, n)
      BY DEF NextAt, Record
    <3> QED
      BY <1>4, <1>8, <3>1, <3>2 DEF CutOff, DataNext, Two!Cut
  <2>3. <<>> \in Seq(StreamItem) /\ <<>> \in Seq(StreamItem \union MessageItem)
    OBVIOUS
  <2>4. nlen' \in 0..HunkMax + 1 /\ pending' \in 0..nlen'
    BY <1>3, <2>1
  <2>5. TwoSets'
    BY <1>1, <1>3, <1>5, <2>1, <2>3, <2>4 DEF TwoSets, TwoUp
  <2>6. UpInv'
    BY <1>1, <1>4, <2>1, <2>2, <2>3 DEF UpInv
  <2> QED
    BY <1>1, <1>2, <1>5, <1>6, <2>1, <2>5, <2>6, UpGoes DEF TwoUp
<1>9. CASE ~quit /\ Two!Whole
  <2> DEFINE x == Head(inbox)
  <2>17. inbox # <<>> /\ x.kind # "cut" /\ garbled' = garbled
    BY <1>9 DEF Two!Whole, Two!Cut, Two!RecvData
  <2>1. inbox' = Tail(inbox) /\ Two!Record(x) /\ pc' = Two!AfterRecord(x)
    BY <1>9 DEF Two!RecvData, Two!Took, Two!ToRecord, Two!Whole, Two!Cut
  <2>2. /\ Stream(inbox, conn)
        /\ \E n \in 1..SizeOnDevice[name] :
             NextAt(x, name, n) /\ ((conn = "open" /\ ~local /\ ~quit /\ ~stalled) => n = disk[name] + pending)
    BY <1>4, <2>17 DEF CutOff, DataNext
  <2>3. /\ \/ CutOff(inbox', conn)
           \/ Stream(inbox', conn) /\ Follows(x, Head(inbox')) /\ Head(inbox').kind # "cut"
    <3>1. NextAt(x, name, 0) \/ x.kind # "zero"
      BY <2>2 DEF NextAt, Record
    <3>2. x.kind # "zero"
      BY <2>2 DEF NextAt, Record
    <3> QED
      BY <1>3, <2>1, <2>2, <3>2, StreamNext
  <2>4. inbox' \in Seq(StreamItem) /\ inbox' \in Seq(StreamItem \union MessageItem)
    <3>1. inbox' \in Seq(StreamItem)
      BY <1>3, <2>1, <2>17
    <3> QED
      BY <3>1
  <2>5. x.kind \in {"hunk", "end"} /\ x \in StreamItem /\ x.name = name
    BY <1>3, <2>2, <2>17 DEF NextAt, Record
  <2>6. /\ \A f : Announced(inbox', f) => Announced(inbox, f)
        /\ \A f : Announced(inbox, f) => Announced(inbox', f)
        /\ \A i \in 1..Len(inbox') : \E j \in 1..Len(inbox) : inbox'[i] = inbox[j]
    BY <1>3, <2>1, <2>5, <2>17, AnnouncedTail
  <2> HIDE DEF x
  <2>7. PICK n \in 1..SizeOnDevice[name] :
          NextAt(x, name, n) /\ ((conn = "open" /\ ~local /\ ~quit /\ ~stalled) => n = disk[name] + pending)
    BY <2>2
  <2>8. /\ x.kind = "hunk" => x.from = n /\ x.size \in 1..HunkMax /\ n + x.size \in 1..SizeOnDevice[name]
        /\ x.kind = "end" => n = SizeOnDevice[name]
    BY <1>3, <2>5, <2>7, ItemFacts DEF NextAt, Record
  <2>9. /\ nlen' \in 0..HunkMax + 1 /\ pending' \in 0..nlen'
        /\ x.kind = "hunk" => pending' = x.size /\ nlen' = pending' + 1
        /\ x.kind = "end" => pending' = 0
    BY <1>3, <2>1, <2>5, RecordFacts
  <2>10. pc' = (IF x.kind = "hunk" THEN "data" ELSE "dname")
    BY <2>1 DEF Two!AfterRecord
  <2>11. TwoSets'
    BY <1>1, <1>2, <1>3, <1>5, <2>4, <2>5, <2>9, <2>10 DEF TwoSets, TwoUp
  <2>12. \A f \in saved' : ~Announced(inbox', f)
    BY <1>1, <1>4, <2>6
  <2>13. BatchInv'
    <3> SUFFICES ASSUME conn = "open", ~quit, ~stalled
                 PROVE  /\ \A i \in 1..Len(inbox') : inbox'[i].kind = "error" => inbox'[i].name \notin batch
                        /\ ~local' => \A f \in batch : \/ disk'[f] = SizeOnDevice[f] \/ Announced(inbox', f)
                                                       \/ pc' = "data" /\ f = name
      BY <1>1 DEF BatchInv
    <3>1. \A i \in 1..Len(inbox') : inbox'[i].kind = "error" => inbox'[i].name \notin batch
      BY <1>4, <2>6 DEF BatchInv
    <3>2. ASSUME ~local', NEW f \in batch
          PROVE  disk'[f] = SizeOnDevice[f] \/ Announced(inbox', f) \/ (pc' = "data" /\ f = name)
      <4>1. CASE f # name
        <5>1. ~local
          BY <1>5, <3>2
        <5>2. disk[f] = SizeOnDevice[f] \/ Announced(inbox, f)
          BY <1>4, <4>1, <5>1 DEF BatchInv
        <5> QED
          BY <1>6, <2>6, <4>1, <5>2
      <4>2. CASE f = name
        BY <1>5, <2>5, <2>7, <2>8, <2>10, <3>2, <4>2
      <4> QED
        BY <4>1, <4>2
    <3> QED
      BY <3>1, <3>2
  <2>14. x.kind = "hunk" =>
           CutOff(inbox', conn') \/ (Stream(inbox', conn') /\ DataNext(disk[name] + pending)')
    <3> SUFFICES ASSUME x.kind = "hunk", ~CutOff(inbox', conn')
                 PROVE  /\ Stream(inbox', conn')
                        /\ \E m \in 1..SizeOnDevice[name'] :
                             /\ NextAt(Head(inbox'), name', m)
                             /\ (conn' = "open" /\ ~local' /\ ~stalled) => m = disk'[name'] + pending'
      BY <1>1 DEF DataNext
    <3>1. Stream(inbox', conn) /\ NextAt(Head(inbox'), name, n + x.size)
      BY <1>1, <2>3, <2>5, <2>8 DEF Follows
    <3>2. ASSUME conn = "open", ~local', ~stalled
          PROVE  n + x.size = disk'[name] + pending'
      BY <1>4, <1>5, <1>9, <2>7, <2>8, <2>9, <3>2
    <3>3. Stream(inbox', conn') /\ NextAt(Head(inbox'), name', n + x.size) /\ n + x.size \in 1..SizeOnDevice[name']
      BY <1>1, <2>8, <3>1
    <3>4. (conn' = "open" /\ ~local' /\ ~stalled) => n + x.size = disk'[name'] + pending'
      BY <1>1, <3>2
    <3> QED
      BY <3>3, <3>4
  <2>15. x.kind # "hunk" => Names(inbox', conn')
    BY <1>1, <2>3, <2>5 DEF Names, Follows
  <2>16. UpInv'
    BY <1>1, <1>4, <2>4, <2>10, <2>12, <2>13, <2>14, <2>15 DEF UpInv
  <2> QED
    BY <1>1, <1>2, <1>5, <1>6, <2>10, <2>11, <2>16, <2>17, UpGoes DEF TwoUp
<1> QED
  BY <1>3, <1>7, <1>8, <1>9, <1>10 DEF Two!Whole

LEMMA TwoLeftover ==
  ASSUME TwoInv, RestInv', Two!Leftover
  PROVE  TwoRest'
<1>1. /\ pc = "leftover" /\ pc' = "out" /\ nlen' = 0 /\ name' = StatusFile /\ pending' = 0 /\ status' = 0 /\ batch' = {}
      /\ Two!Send(Two!Takes(dev, "status"))
      /\ UNCHANGED <<cmd, conn, encrypts, apps, quit, refused, local, stalled, todo, sent, total, result, outcome, asks,
                     unanswered>>
      /\ saved' = (IF conn = "open" /\ status = 0 THEN saved \union batch ELSE saved)
  BY DEF Two!Leftover, Two!Kept, Two!Answer
<1>2. pc \in TwoUp
  BY <1>1 DEF TwoUp
<1>3. /\ TwoPhase /\ TwoSets /\ UpInv /\ TwoFlags /\ SavedFull /\ Two!InStep /\ conn \in {"open", "lost"} /\ quit \in BOOLEAN
      /\ inbox \in Seq(StreamItem) /\ HunkMax \in Nat \ {0} /\ name \in Files
      /\ disk \in [Files -> Nat \union {Two!Absent}] /\ local \in BOOLEAN
      /\ result = "none" /\ outcome = "none"
      /\ inbox # <<>> => Head(inbox) \in StreamItem /\ Tail(inbox) \in Seq(StreamItem)
  BY <1>2, TwoUploading
<1>4. /\ (conn = "open" => dev = "wait") /\ (status = 1 => refused) /\ status \in {0, 1}
      /\ batch \subseteq Files /\ saved \subseteq Files /\ nlen \in 0..HunkMax + 1
      /\ \/ quit \/ stalled \/ conn = "lost" \/ status = 1
         \/ inbox = <<>> /\ nlen = 0 /\ (~local => \A f \in batch : disk[f] = SizeOnDevice[f])
      /\ nlen > 1 => /\ quit \/ stalled \/ name \notin saved
                     /\ quit \/ stalled \/ refused \/ (conn = "lost" /\ inbox = <<>>)
  BY <1>1, <1>2, <1>3 DEF UpInv, TwoSets
<1>5. /\ disk' \in [Files -> Nat \union {Two!Absent}] /\ inbox' \in Seq(StreamItem)
      /\ disk' = disk \/ (nlen > 1 /\ \A f \in Files : f # name => disk'[f] = disk[f])
      /\ garbled' = garbled \/ (garbled' = TRUE /\ nlen > 1 /\ inbox # <<>>)
  <2>1. CASE nlen > 1
    <3>1. disk' = [disk EXCEPT ![name] = Two!Absent]
      BY <1>1, <2>1 DEF Two!Leftover
    <3>2. disk' \in [Files -> Nat \union {Two!Absent}] /\ \A f \in Files : f # name => disk'[f] = disk[f]
      BY <1>3, <3>1
    <3>3. \/ inbox # <<>> /\ inbox' \in {inbox, Tail(inbox)} /\ garbled' = TRUE
          \/ inbox' = inbox /\ garbled' = garbled
      BY <1>1, <2>1 DEF Two!Leftover, Two!Took
    <3> QED
      BY <1>3, <2>1, <3>2, <3>3
  <2>2. CASE ~(nlen > 1)
    BY <1>1, <1>3, <2>2 DEF Two!Leftover
  <2> QED
    BY <2>1, <2>2
<1>6. inbox' \in Seq(StreamItem \union MessageItem)
  BY <1>5
<1>7. (conn = "open" => dev' = "idle") /\ (conn # "open" => dev' = dev)
  BY <1>1, <1>4 DEF Two!Send, Two!Takes
<1>8. TwoPhase'
  <2>1. dev' \in {"quiet", "idle", "wait", "path", "file", "ended", "confused"}
    BY <1>3, <1>7 DEF TwoPhase
  <2> QED
    BY <1>1, <1>3, <2>1 DEF TwoPhase, TwoStart, TwoEnd, TwoUp
<1>9. TwoSets'
  <2>1. saved' \subseteq Files
    BY <1>1, <1>4
  <2>2. StatusFile \in Files /\ nlen' \in 0..HunkMax + 1
    BY <1>1, <1>3, BackupsAssumption
  <2> QED
    BY <1>1, <1>3, <1>5, <1>6, <2>1, <2>2 DEF TwoSets, TwoUp
<1>10. TwoFlags'
  <2>1. garbled' \in BOOLEAN
    BY <1>3, <1>5 DEF TwoFlags
  <2> QED
    BY <1>1, <1>3, <2>1 DEF TwoFlags
<1>11. ListenInv'
  <2>1. CASE inbox' = <<>>
    BY <1>1, <1>3, <1>7, <2>1 DEF ListenInv, Listening
  <2>2. CASE inbox' # <<>>
    <3>1. Head(inbox') \in StreamItem /\ Head(inbox') = inbox'[1] /\ 1 \in 1..Len(inbox')
      BY <1>5, <2>2, HeadTailFacts
    <3>2. Head(inbox').kind = "rest" => inbox' = <<Two!Rest>>
      BY <3>1 DEF RestInv, Strayed
    <3>3. conn' = "lost" \/ dev' = "idle"
      BY <1>1, <1>3, <1>7
    <3> QED
      BY <2>2, <3>1, <3>2, <3>3, ItemFacts DEF ListenInv, Listening
  <2> QED
    BY <2>1, <2>2
<1>12. SendInv' /\ UpInv'
  BY <1>1 DEF SendInv, UpInv, TwoUp
<1>13. SavedInv'
  <2>1. Two!BackupTrue'
    BY <1>1, <1>3 DEF Two!BackupTrue, Two!Finished
  <2>2. ASSUME ~quit PROVE SavedFull'
    <3>1. ASSUME ~local, ~stalled PROVE \A f \in saved' : disk'[f] = SizeOnDevice[f]
      <4>1. \A f \in saved : disk[f] = SizeOnDevice[f] /\ disk'[f] = disk[f]
        BY <1>3, <1>4, <1>5, <2>2, <3>1 DEF SavedFull
      <4>2. CASE conn = "open" /\ status = 0
        <5>1. nlen = 0 /\ (\A f \in batch : disk[f] = SizeOnDevice[f])
          BY <1>4, <2>2, <3>1, <4>2
        <5>2. disk' = disk
          BY <1>5, <5>1
        <5> QED
          BY <1>1, <4>1, <5>1, <5>2
      <4>3. CASE ~(conn = "open" /\ status = 0)
        BY <1>1, <4>1, <4>3
      <4> QED
        BY <4>2, <4>3
    <3>2. local' = local /\ stalled' = stalled
      BY <1>1
    <3> QED
      BY <1>3, <3>1, <3>2 DEF SavedFull
  <2>3. CASE quit
    <3>1. quit'
      BY <1>1, <2>3
    <3> QED
      BY <1>1, <1>3, <2>1, <3>1 DEF SavedInv, TwoStart
  <2>4. CASE ~quit
    BY <1>1, <2>1, <2>2, <2>4 DEF SavedInv, TwoStart
  <2> QED
    BY <2>3, <2>4
<1>14. Two!InStep'
  <2>1. dev' = "confused" => local'
    <3>1. dev = "confused" => local
      BY <1>3 DEF Two!InStep
    <3>2. dev' = dev \/ dev' = "idle"
      BY <1>3, <1>7
    <3>3. local' = local
      BY <1>1
    <3> QED
      BY <3>1, <3>2, <3>3
  <2>2. garbled' => (quit' \/ refused' \/ stalled')
    <3>1. garbled => (quit \/ refused \/ stalled)
      BY <1>3 DEF Two!InStep
    <3>2. (nlen > 1 /\ inbox # <<>>) => (quit \/ refused \/ stalled)
      BY <1>4
    <3>3. quit' = quit /\ refused' = refused /\ stalled' = stalled
      BY <1>1
    <3> QED
      BY <1>5, <3>1, <3>2, <3>3
  <2> QED
    BY <2>1, <2>2 DEF Two!InStep
<1> QED
  BY <1>8, <1>9, <1>10, <1>11, <1>12, <1>13, <1>14 DEF TwoRest, TwoTypes

\* Every step of idevicebackup2 and of the device keeps the invariant.
\* The device is silent for too long.
LEMMA TwoSilent ==
  ASSUME TwoInv, Two!DeviceStalls
  PROVE  TwoRest'
<1>1. /\ pc \in TwoUp /\ pc' = pc /\ Strayed' /\ stalled' = TRUE
      /\ UNCHANGED <<cmd, quit, conn, encrypts, apps, disk, nlen, name, pending, todo, sent, total, status, result, outcome,
                     dev, asks, batch, saved, refused, unanswered, local, garbled>>
  BY DEF Two!DeviceStalls, Two!devVars, TwoUp, Strayed
<1>2. TwoSets /\ UpInv
  BY DEF TwoInv, TwoTypes
<1>3. inbox' \in Seq(StreamItem) /\ inbox' \in Seq(StreamItem \union MessageItem) /\ Len(inbox') = 1
      /\ inbox'[1].kind = "rest"
  <2>1. Two!Rest \in StreamItem /\ Two!Rest.kind = "rest"
    BY DEF Two!Rest, Two!Item, StreamItem
  <2> QED
    BY <1>1, <2>1 DEF Strayed
<1>4. TwoSets'
  BY <1>1, <1>2, <1>3 DEF TwoSets
<1>5. UpInv'
  <2>1. BatchInv' /\ \A f \in saved' : ~Announced(inbox', f)
    BY <1>1, <1>3 DEF BatchInv, Announced
  <2>2. (conn' = "open" => dev' = "wait") /\ (status' = 1 => refused')
    BY <1>1, <1>2 DEF UpInv
  <2> QED
    BY <1>1, <1>3, <2>1, <2>2 DEF UpInv
<1> QED
  BY <1>1, <1>4, <1>5, UpGoes

\* Nothing gets behind the rest of an upload.
LEMMA RestKept ==
  ASSUME RestInv, NEW S, inbox \in Seq(S), stalled' = stalled,
         inbox' = inbox \/ inbox' = <<>> \/ (inbox # <<>> /\ inbox' = Tail(inbox))
  PROVE  RestInv'
<1>1. CASE inbox' = inbox
  BY <1>1 DEF RestInv, Strayed
<1>2. CASE inbox' = <<>>
  BY <1>2 DEF RestInv
<1>3. CASE inbox # <<>> /\ inbox' = Tail(inbox)
  <2>1. \A i \in 1..Len(inbox') : inbox'[i] = inbox[i + 1] /\ i + 1 \in 1..Len(inbox)
    BY <1>3, HeadTailFacts
  <2> SUFFICES ASSUME NEW i \in 1..Len(inbox'), inbox'[i].kind = "rest" PROVE FALSE
    BY DEF RestInv
  <2>2. Strayed /\ i + 1 \in 1..Len(inbox)
    BY <2>1 DEF RestInv
  <2>3. Len(inbox) = 1
    BY <2>2 DEF Strayed
  <2> QED
    BY <2>2, <2>3
<1> QED
  BY <1>1, <1>2, <1>3

LEMMA RestBehind ==
  ASSUME RestInv, ~Two!Astray, NEW S, inbox \in Seq(S), NEW q \in Seq(S), inbox' = inbox \o q,
         \A i \in 1..Len(q) : q[i].kind # "rest"
  PROVE  RestInv'
<1>1. \A i \in 1..Len(inbox) : inbox[i].kind # "rest"
  BY DEF RestInv, Strayed, Two!Astray
<1>2. /\ Len(inbox) \in Nat /\ Len(q) \in Nat /\ Len(inbox') = Len(inbox) + Len(q)
      /\ \A i \in 1..Len(inbox) + Len(q) : inbox'[i] = IF i <= Len(inbox) THEN inbox[i] ELSE q[i - Len(inbox)]
  BY ConcatProperties
<1>3. ASSUME NEW i \in 1..Len(inbox') PROVE inbox'[i].kind # "rest"
  <2>1. CASE i <= Len(inbox)
    BY <1>1, <1>2, <2>1
  <2>2. CASE ~(i <= Len(inbox))
    <3>1. i - Len(inbox) \in 1..Len(q) /\ inbox'[i] = q[i - Len(inbox)]
      BY <1>2, <2>2
    <3> QED
      BY <3>1
  <2> QED
    BY <2>1, <2>2
<1> QED
  BY <1>3 DEF RestInv

LEMMA RestAfter ==
  ASSUME TwoInv, Two!DeviceAsks \/ Two!DeviceEnds
  PROVE  RestInv'
<1> DEFINE S == StreamItem \union MessageItem
<1>1. RestInv /\ ~Two!Astray /\ inbox \in Seq(S)
  BY DEF TwoInv, TwoTypes, TwoSets, Two!DeviceAsks, Two!DeviceEnds
<1>2. ASSUME NEW m \in MessageItem, inbox' = inbox \o <<m>> PROVE RestInv'
  <2>1. m \in S /\ <<m>> \in Seq(S) /\ \A i \in 1..Len(<<m>>) : <<m>>[i] = m
    OBVIOUS
  <2>2. m.kind # "rest"
    BY DEF MessageItem, Upload1
  <2> HIDE DEF S
  <2> QED
    BY <1>1, <1>2, <2>1, <2>2, RestBehind
<1>3. ASSUME NEW us \in Two!UpTo2([file : Files, fails : BOOLEAN]),
             \A i, j \in DOMAIN us : us[i].file = us[j].file => i = j, inbox' = inbox \o Two!Upload(us)
      PROVE  RestInv'
  <2> DEFINE w == Two!Upload(us)
  <2>1. /\ w \in Seq(S) /\ w # <<>> /\ Head(w).kind = "upload"
        /\ Tail(w) \in Seq(StreamItem) /\ Names(Tail(w), "open")
    BY <1>3, UploadFacts
  <2> HIDE DEF w, S
  <2>2. Stream(Tail(w), "open") /\ Naming(Head(Tail(w)))
    BY <2>1 DEF Names, CutOff
  <2>3. \A i \in 1..Len(Tail(w)) : Tail(w)[i].kind # "rest"
    BY <2>2, StreamGoes
  <2>4. Len(w) \in Nat \ {0} /\ Head(w) = w[1] /\ Len(Tail(w)) = Len(w) - 1
        /\ \A i \in 1..Len(Tail(w)) : Tail(w)[i] = w[i + 1]
    BY <2>1, HeadTailFacts
  <2>5. ASSUME NEW i \in 1..Len(w) PROVE w[i].kind # "rest"
    <3>1. CASE i = 1
      BY <2>1, <2>4, <3>1
    <3>2. CASE i # 1
      <4>1. i - 1 \in 1..Len(Tail(w)) /\ (i - 1) + 1 = i
        BY <2>4, <3>2
      <4> QED
        BY <2>3, <2>4, <4>1
    <3> QED
      BY <3>1, <3>2
  <2> QED
    BY <1>1, <1>3, <2>1, <2>5, RestBehind DEF w
<1>4. ASSUME NEW d, NEW n, NEW m \in MessageItem, Two!Ask(<<m>>, d, n) PROVE RestInv'
  BY <1>2, <1>4 DEF Two!Ask
<1>5. CASE Two!DeviceEnds
  <2>1. \A r \in {"ok", "error", "none"} : [kind |-> "process", result |-> r] \in MessageItem
    BY DEF MessageItem
  <2>2. Two!Item("disconnect") \in MessageItem
    BY DEF MessageItem, Two!Item
  <2>3. \A m \in MessageItem : Append(inbox, m) = inbox \o <<m>>
    BY <1>1
  <2> QED
    BY <1>2, <1>5, <2>1, <2>2, <2>3 DEF Two!DeviceEnds
<1>6. CASE Two!DeviceAsks
  <2>1. \A kind \in {"space", "purge", "list", "mkdir", "badList", "unknown"} : Two!Item(kind) \in MessageItem
    BY DEF MessageItem, Two!Item
  <2>2. \A fs \in Two!UpTo2(Files) : [kind |-> "download", files |-> fs] \in MessageItem
    <3> SUFFICES ASSUME NEW fs \in Two!UpTo2(Files) PROVE fs \in Seq(Files)
      BY DEF MessageItem
    <3>1. fs = <<>> \/ (\E a \in Files : fs = <<a>>) \/ (\E a, b \in Files : fs = <<a, b>>)
      BY DEF Two!UpTo2
    <3>2. (\A a \in Files : <<a>> \in Seq(Files)) /\ <<>> \in Seq(Files)
      OBVIOUS
    <3>3. \A a, b \in Files : <<a, b>> \in Seq(Files)
      OBVIOUS
    <3> QED
      BY <3>1, <3>2, <3>3, Zenon
  <2>3. \A kind \in {"move", "copy"}, s, d \in Files : [kind |-> kind, src |-> s, dst |-> d] \in MessageItem
    BY DEF MessageItem
  <2>4. \A fs \in SUBSET Files : [kind |-> "remove", set |-> fs] \in MessageItem
    BY DEF MessageItem
  <2>5. ASSUME NEW us \in Two!UpTo2([file : Files, fails : BOOLEAN]),
               \A i, j \in DOMAIN us : us[i].file = us[j].file => i = j,
               Two!Ask(Two!Upload(us), "wait", Len(us) + 1)
        PROVE  RestInv'
    BY <1>3, <2>5 DEF Two!Ask
  <2>6. CASE \E kind \in {"space", "purge", "list", "mkdir", "badList", "unknown"} : Two!Ask(<<Two!Item(kind)>>, "wait", 1)
    BY <1>4, <2>1, <2>6
  <2>7. CASE \E fs \in Two!UpTo2(Files) : Two!Ask(<<[kind |-> "download", files |-> fs]>>, "path", Len(fs) + 1)
    BY <1>4, <2>2, <2>7
  <2>8. CASE \E kind \in {"move", "copy"}, s, d \in Files : Two!Ask(<<[kind |-> kind, src |-> s, dst |-> d]>>, "wait", 1)
    BY <1>4, <2>3, <2>8
  <2>9. CASE \E fs \in SUBSET Files : Two!Ask(<<[kind |-> "remove", set |-> fs]>>, "wait", 1)
    BY <1>4, <2>4, <2>9
  <2> QED
    BY <1>6, <2>5, <2>6, <2>7, <2>8, <2>9 DEF Two!DeviceAsks
<1> QED
  BY <1>5, <1>6

LEMMA RestLost ==
  ASSUME TwoInv, Two!DeviceLost
  PROVE  RestInv'
<1> DEFINE S == StreamItem \union MessageItem
<1>1. RestInv /\ inbox \in Seq(S) /\ StreamItem \subseteq S /\ stalled' = stalled
  BY DEF TwoInv, TwoTypes, TwoSets, Two!DeviceLost, Two!histVars
<1>2. PICK k \in 0..Len(inbox) :
        \/ inbox' = SubSeq(inbox, 1, k)
        \/ k < Len(inbox) /\ inbox' = Append(SubSeq(inbox, 1, k), Two!Item("cut"))
  BY DEF Two!DeviceLost
<1> HIDE DEF S
<1>3. inbox' \in Seq(S) /\ Arrived(inbox, inbox')
  BY <1>1, <1>2, PrefixArrives
<1>4. CASE Strayed
  <2>1. inbox' = <<>> \/ inbox' = <<Two!Item("cut")>> \/ Strayed'
    BY <1>3, <1>4, RestStays
  <2>2. 1 \in 1..Len(inbox) /\ inbox[1].kind = "rest"
    BY <1>4 DEF Strayed, Two!Rest, Two!Item
  <2>3. stalled'
    BY <1>1, <2>2 DEF RestInv
  <2>4. inbox' = <<Two!Item("cut")>> => RestInv'
    BY CutFacts DEF RestInv
  <2> QED
    BY <2>1, <2>3, <2>4 DEF RestInv
<1>5. CASE ~Strayed
  <2>1. \A i \in 1..Len(inbox') : i \in 1..Len(inbox) /\ (inbox'[i] = inbox[i] \/ inbox'[i] = Two!Item("cut"))
    BY <1>1, <1>3 DEF Arrived
  <2> QED
    BY <1>1, <1>5, <2>1, CutFacts DEF RestInv
<1> QED
  BY <1>4, <1>5

LEMMA TwoRests ==
  ASSUME TwoInv, Two!Next
  PROVE  RestInv'
<1>1. RestInv /\ inbox \in Seq(StreamItem \union MessageItem)
  BY DEF TwoInv, TwoTypes, TwoSets
<1> DEFINE Less == /\ stalled' = stalled
                   /\ inbox' = inbox \/ inbox' = <<>> \/ (inbox # <<>> /\ inbox' = Tail(inbox))
<1> USE DEF Two!Message, Two!Took, Two!ioVars, Two!histVars, Two!SendVars, Two!RecvVars, Two!Astray, Two!Cut, Two!Whole
<1>2. CASE Two!Args \/ Two!Connect \/ Two!Hello \/ Two!Lock \/ Two!Checkpoint
  <2>1. inbox' = inbox /\ stalled' = stalled
    BY <1>2 DEF Two!Args, Two!Connect, Two!Hello, Two!Lock, Two!Checkpoint
  <2> QED
    BY <1>1, <2>1 DEF RestInv, Strayed
<1>3. CASE Two!ReceiveNothing \/ Two!HandlePlain \/ Two!HandleFiles
  <2>1. Less
    BY <1>3 DEF Two!ReceiveNothing, Two!HandlePlain, Two!HandleFiles
  <2> QED
    BY <1>1, <2>1, RestKept
<1>4. CASE Two!HandleEnd \/ Two!FilesOut \/ Two!HandleSendFiles \/ Two!HandleReceiveFiles
  <2>1. Less
    BY <1>4 DEF Two!HandleEnd, Two!FilesOut, Two!HandleSendFiles, Two!HandleReceiveFiles
  <2> QED
    BY <1>1, <2>1, RestKept
<1>5. CASE Two!SendPath \/ Two!SendHunk
  <2>1. Less
    BY <1>5 DEF Two!SendPath, Two!SendHunk
  <2> QED
    BY <1>1, <2>1, RestKept
<1>6. CASE Two!RecvName \/ Two!RecvHeader
  <2>1. Less
    BY <1>6 DEF Two!RecvName, Two!RecvHeader
  <2> QED
    BY <1>1, <2>1, RestKept
<1>7. CASE Two!RecvData \/ Two!Leftover
  <2>1. Less
    BY <1>7 DEF Two!RecvData, Two!Leftover
  <2> QED
    BY <1>1, <2>1, RestKept
<1>8. CASE Two!Report \/ Two!Finish \/ Two!Free
  <2>1. Less
    BY <1>8 DEF Two!Report, Two!Finish, Two!Free
  <2> QED
    BY <1>1, <2>1, RestKept
<1>9. CASE Two!LocalChange \/ Two!World
  <2>1. Less
    BY <1>9 DEF Two!LocalChange, Two!World
  <2> QED
    BY <1>1, <2>1, RestKept
<1>10. CASE Two!DeviceStalls
  BY <1>10 DEF Two!DeviceStalls, RestInv, Strayed
<1> QED
  BY <1>2, <1>3, <1>4, <1>5, <1>6, <1>7, <1>8, <1>9, <1>10, RestAfter, RestLost DEF Two!Next, Two!Tool

LEMMA TwoNext ==
  ASSUME TwoInv, Two!Next
  PROVE  TwoInv'
<1>4. RestInv'
  BY TwoRests
<1>1. LockKept(TwoWork)'
  BY TwoLocks DEF TwoInv
<1>2. Two!LockTypeOK'
  BY TwoLockTyped DEF TwoInv
<1>3. TwoRest'
  <2>1. CASE Two!Tool
    BY <1>4, <2>1, TwoBegins, TwoPlain, TwoFiles, TwoStops, TwoTurns, TwoDownloads, TwoSends, TwoUploads, TwoNames,
       TwoHeaders, TwoData, TwoLeftover, TwoEnds DEF Two!Tool
  <2>2. CASE ~Two!Tool
    BY <2>2, TwoAsks, TwoLoses, TwoSilent, TwoChanges, TwoWorld DEF Two!Next
  <2> QED
    BY <2>1, <2>2
<1> QED
  BY <1>1, <1>2, <1>3, <1>4 DEF TwoInv, TwoRest

\* What the invariant says of the properties of idevicebackup2.
LEMMA TwoHolds ==
  ASSUME TwoInv
  PROVE  Two!TypeOK /\ Two!InStep /\ Two!Answered /\ Two!BackupTrue /\ Two!LockCovers
<1>1. /\ TwoPhase /\ TwoSets /\ TwoFlags /\ Two!LockTypeOK /\ ListenInv /\ SavedInv /\ Two!InStep /\ LockKept(TwoWork)
      /\ HunkMax \in Nat \ {0}
  BY BackupsAssumption DEF TwoInv, TwoTypes
<1>2. Two!TypeOK
  <2>1. pc \in {"args", "connect", "hello", "checkpoint", "open", "lock", "request", "loop", "out", "path", "hunk",
                "dname", "fname", "header", "data", "leftover", "report", "unlock", "free", "done"}
    BY <1>1 DEF TwoPhase, TwoStart, TwoUp, TwoEnd
  <2>2. /\ \A f \in Files : disk[f] \in Nat \union {Two!Absent}
        /\ nlen \in 0..HunkMax + 1 /\ name \in Files /\ pending <= nlen /\ status \in {0, 1}
        /\ asks \in 0..MaxAsks /\ batch \subseteq Files /\ saved \subseteq Files
    BY <1>1 DEF TwoSets
  <2>3. /\ cmd \in Cmds \union {"leave"} /\ result \in {"none", "ok", "error"}
        /\ outcome \in {"none", "success", "failed", "aborted"}
        /\ dev \in {"quiet", "idle", "wait", "path", "file", "ended", "confused"}
    BY <1>1 DEF TwoPhase
  <2>4. encrypts \in BOOLEAN /\ apps \in BOOLEAN
    BY <1>1 DEF TwoFlags
  <2> QED
    BY <1>1, <2>1, <2>2, <2>3, <2>4 DEF Two!TypeOK
<1>3. Two!Answered
  <2> SUFFICES ASSUME pc = "loop", inbox = <<>>, conn = "open", ~unanswered
               PROVE  dev \notin {"wait", "path", "file"}
    BY DEF Two!Answered
  <2>1. Listening
    BY <1>1 DEF ListenInv
  <2>2. Len(inbox) # 1
    OBVIOUS
  <2> QED
    BY <2>1, <2>2 DEF Listening, UploadAhead
<1>4. Two!BackupTrue
  BY <1>1 DEF SavedInv
<1>5. Two!LockCovers
  BY <1>1 DEF LockKept, Two!LockCovers, TwoWork, TwoPhase, TwoStart, TwoUp, TwoEnd, BeforeLock
<1> QED
  BY <1>1, <1>2, <1>3, <1>4, <1>5

-----------------------------------------------------------------------------
(* The composition *)

Parts ==
  /\ which = "debug" => DebugInv
  /\ which = "proxy" => ProxyInv
  /\ which = "syslog" => SyslogInv
  /\ which = "reports" => ReportsInv
  /\ which = "shell" => ShellInv
  /\ which = "devmode" => ModeInv
  /\ which = "backup" => OneInv
  /\ which = "backup2" => TwoInv

\* Each tool begins in its invariant.
LEMMA PartsStart == Init => Parts
<1> SUFFICES ASSUME Init PROVE Parts
  OBVIOUS
<1>1. which = "debug" => DebugInv
  BY DebugStarts DEF Init, InitDebug
<1>2. which = "proxy" => ProxyInv
  BY ProxyStarts DEF Init, InitProxy
<1>3. which = "syslog" => SyslogInv
  BY PrintStarts, OwnerStarts, FollowStarts DEF Init, InitSyslog, SyslogInv
<1>4. which = "reports" => ReportsInv
  BY ReportsStarts DEF Init, InitCrashes
<1>5. which = "shell" => ShellInv
  BY ShellStarts DEF Init, InitShell
<1>6. which = "devmode" => ModeInv
  BY ModeStarts, HeardStarts DEF Init, InitMode, ModeInv
<1>7. which = "backup" => OneInv
  BY OneStarts DEF Init, InitOne
<1>8. which = "backup2" => TwoInv
  BY TwoStarts DEF Init, InitTwo
<1> QED
  BY <1>1, <1>2, <1>3, <1>4, <1>5, <1>6, <1>7, <1>8 DEF Parts

\* What the invariants of the backup tools look at.
LEMMA OneUnchanged ==
  ASSUME UNCHANGED <<cmd, pc, quit, backupVars, oneVars>>, OneInv
  PROVE  OneInv'
<1>1. UNCHANGED <<cmd, pc, quit, conn, lockfile, holder, tries, posted, inbox, apps, dev, outcome, local>>
  BY DEF backupVars
<1>2. /\ UNCHANGED <<phone, data, info, manifest, stat, infoplist, full, hunk, base, acked, left, restored, ok>>
      /\ run' = run /\ stale' = stale
  BY DEF oneVars
<1>3. LockKept(OneWork)' /\ One!LockTypeOK'
  BY <1>1 DEF OneInv, OneTypes, LockKept, One!LockTypeOK
<1>4. OnePhase' /\ OneSets' /\ OneFlags'
  BY <1>1, <1>2 DEF OneInv, OneTypes, OnePhase, OneSets, OneFlags
<1>5. (\A f : Complete(f)' <=> Complete(f)) /\ (\A f : Due(f)' <=> Due(f))
  BY <1>2 DEF Complete, Due
<1>6. ManifestInv'
  BY <1>1, <1>2, <1>5 DEF OneInv, ManifestInv, Current
<1>7. OneSent' <=> OneSent
  BY <1>1, <1>2, <1>5 DEF OneSent, One!FileHunk
<1>8. LoopInv'
  BY <1>1, <1>2, <1>5, <1>7 DEF OneInv, LoopInv, Current, One!Listed
<1>9. StatusInv'
  BY <1>1, <1>2 DEF OneInv, StatusInv, One!Whole, One!StatusTrue, One!StatusSays
<1>10. RestoreInv'
  BY <1>1, <1>2 DEF OneInv, RestoreInv, One!RestoreTrue
<1>11. Len(inbox') <= 2
  BY <1>1 DEF OneInv, OneTypes
<1> QED
  BY <1>3, <1>4, <1>6, <1>8, <1>9, <1>10, <1>11 DEF OneInv, OneTypes

LEMMA TwoUnchanged ==
  ASSUME UNCHANGED <<cmd, pc, quit, todo, sent, backupVars, twoVars>>, TwoInv
  PROVE  TwoInv'
<1>1. UNCHANGED <<cmd, pc, quit, todo, sent, conn, lockfile, holder, tries, posted, inbox, apps, dev, outcome, local>>
  BY DEF backupVars
<1>2. UNCHANGED <<disk, encrypts, nlen, name, pending, total, status, result, asks, batch, saved, refused, unanswered,
                  garbled, stalled>>
  BY DEF twoVars
<1>3. LockKept(TwoWork)' /\ Two!LockTypeOK'
  BY <1>1 DEF TwoInv, LockKept, Two!LockTypeOK
<1>4. TwoPhase' /\ TwoSets' /\ TwoFlags'
  BY <1>1, <1>2 DEF TwoInv, TwoTypes, TwoPhase, TwoSets, TwoFlags
<1>5. BatchInv' <=> BatchInv
  BY <1>1, <1>2 DEF BatchInv
<1>6. UploadAhead' <=> UploadAhead
  BY <1>1, <1>2, <1>5 DEF UploadAhead
<1>7. ListenInv'
  <2>1. Listening' <=> Listening
    BY <1>1, <1>2, <1>6 DEF Listening, Alone
  <2> QED
    BY <1>1, <2>1 DEF TwoInv, ListenInv
<1>8. SendInv'
  BY <1>1, <1>2 DEF TwoInv, SendInv
<1>9. UpInv'
  <2>1. (Strayed' <=> Strayed) /\ \A m : DataNext(m)' <=> DataNext(m)
    BY <1>1, <1>2 DEF Strayed, DataNext
  <2>2. pc' = pc /\ inbox' = inbox /\ conn' = conn /\ dev' = dev /\ status' = status /\ refused' = refused
        /\ saved' = saved /\ stalled' = stalled /\ name' = name /\ quit' = quit /\ disk' = disk
        /\ pending' = pending /\ nlen' = nlen /\ local' = local /\ batch' = batch
    BY <1>1, <1>2
  <2>3. UpInv
    BY DEF TwoInv
  <2> QED
    BY <2>1, <2>2, <2>3, <1>5 DEF UpInv
<1>10. SavedInv'
  BY <1>1, <1>2 DEF TwoInv, SavedInv, SavedFull, Two!BackupTrue, Two!Finished
<1>11. Two!InStep'
  BY <1>1, <1>2 DEF TwoInv, Two!InStep
<1>12. RestInv'
  BY <1>1, <1>2 DEF TwoInv, RestInv, Strayed
<1> QED
  BY <1>3, <1>4, <1>7, <1>8, <1>9, <1>10, <1>11, <1>12 DEF TwoInv, TwoTypes

\* A step of the composition that is none leaves the invariants as they are.
LEMMA PartsStay == UNCHANGED vars /\ Parts => Parts'
<1> SUFFICES ASSUME UNCHANGED vars PROVE Parts => Parts'
  OBVIOUS
<1>1. /\ UNCHANGED <<which, cmd, pc, quit, todo, sent, lost, res, main, freed, cb, network, udid, plugged, events, plugs>>
      /\ UNCHANGED <<subscribed, device, connected>>
  BY DEF vars, noToolVars
<1>2. UNCHANGED <<noack, wire, skew, response, dres, program, wrong, took>>
  BY DEF vars, noToolVars, debugVars
<1>3. UNCHANGED <<list, count, sock, missed, twice>>
  BY DEF vars, noToolVars, proxyVars
<1>4. UNCHANGED <<onExit, logger, capture, filters, triggered, off, printed, failed>>
  BY DEF vars, noToolVars, syslogVars
<1>5. UNCHANGED <<keep, all, extract, wanted, frames, file, read, host, copied, short, late, ret>>
  BY DEF vars, noToolVars, reportsVars
<1>6. /\ UNCHANGED <<curdir, curlen, where, astray, commands, item, dst, pos, succeed, said, silent>>
      /\ UNCHANGED <<unflushed, longer>>
  BY DEF vars, noToolVars, shellVars
<1>7. UNCHANGED <<noclient, done, blind, away>>
  BY DEF vars, noToolVars, modeVars
<1>8. DebugInv => DebugInv'
  BY <1>1, <1>2 DEF DebugInv, Debug!TypeOK, Debug!ExitTrue
<1>9. ProxyInv => ProxyInv'
  BY <1>1, <1>3 DEF ProxyInv, Proxy!TypeOK
<1>10. SyslogInv => SyslogInv'
  <2>1. PrintInv => PrintInv'
    BY <1>1, <1>4 DEF PrintInv
  <2>2. OwnerInv => OwnerInv'
    BY <1>1, <1>4 DEF OwnerInv, Syslog!TypeOK
  <2>3. FollowInv => FollowInv'
    <3>1. \A h : Leads(h)' <=> Leads(h)
      BY <1>1 DEF Leads
    <3>2. \A heard : Sees(heard)' <=> Sees(heard)
      BY <1>1, <1>4 DEF Sees, Starting, Syslog!Wanted
    <3> QED
      BY <1>1, <3>1, <3>2 DEF FollowInv
  <2> QED
    BY <2>1, <2>2, <2>3 DEF SyslogInv
<1>11. ReportsInv => ReportsInv'
  <2>1. (ReportsTypes => ReportsTypes') /\ (CopyInv => CopyInv')
    BY <1>1, <1>5 DEF ReportsTypes, CopyInv
  <2>2. Crashes!NothingGone => Crashes!NothingGone'
    BY <1>1, <1>5 DEF Crashes!NothingGone, Crashes!Inside
  <2> QED
    BY <2>1, <2>2 DEF ReportsInv
<1>12. ShellInv => ShellInv'
  <2>1. Ahead' = Ahead /\ \A i : Finished(i)' <=> Finished(i)
    BY <1>1, <1>6 DEF Ahead, Finished, Shell!Whole, Shell!EndLost, Shell!Begins
  <2>2. (DirInv => DirInv') /\ (ShellTypes => ShellTypes') /\ (TransferInv => TransferInv')
    BY <1>1, <1>6, <2>1 DEF DirInv, Shell!DirKept, ShellTypes, TransferInv
  <2> QED
    BY <2>2 DEF ShellInv
<1>13. ModeInv => ModeInv'
  <2>1. Mode!Wanted' = Mode!Wanted /\ (\A u : Mode!Armed(u)' <=> Mode!Armed(u)) /\ (Restarting' <=> Restarting)
    BY <1>1, <1>7 DEF Mode!Wanted, Mode!Armed, Restarting
  <2>2. (ModeTypes => ModeTypes') /\ (HandleInv => HandleInv')
    BY <1>1, <1>7, <2>1 DEF ModeTypes, HandleInv
  <2>3. (NameInv => NameInv') /\ (AwayInv => AwayInv')
    BY <1>1, <1>7, <2>1 DEF NameInv, AwayInv
  <2>4. DoneInv => DoneInv'
    <3>1. \A action : Did(action)' <=> Did(action)
      BY <1>7, <2>1 DEF Did
    <3> QED
      BY <1>1, <2>1, <3>1 DEF DoneInv
  <2>5. HeardInv => HeardInv'
    <3>1. (\A h : ModeLeads(h)' <=> ModeLeads(h)) /\ \A heard : Named(heard)' <=> Named(heard)
      BY <1>1, <2>1 DEF ModeLeads, Named
    <3> QED
      BY <1>1, <3>1 DEF HeardInv
  <2> QED
    BY <2>2, <2>3, <2>4, <2>5 DEF ModeInv
<1>14. OneInv => OneInv'
  BY <1>1, OneUnchanged DEF vars, noBackupVars
<1>15. TwoInv => TwoInv'
  BY <1>1, TwoUnchanged DEF vars, noBackupVars
<1> QED
  BY <1>1, <1>8, <1>9, <1>10, <1>11, <1>12, <1>13, <1>14, <1>15 DEF Parts

\* A step is one of the tool that runs.
LEMMA PartsSteps == Parts /\ [Next]_vars => Parts'
<1> SUFFICES ASSUME Parts, Next PROVE Parts'
  BY PartsStay
<1>1. /\ which' = which
      /\ which = "debug" => Debug!Next
      /\ which = "proxy" => Proxy!Next
      /\ which = "syslog" => Syslog!Next
      /\ which = "reports" => Crashes!Next
      /\ which = "shell" => Shell!Next
      /\ which = "devmode" => Mode!Next
      /\ which = "backup" => One!Next
      /\ which = "backup2" => Two!Next
  BY DEF Next, NextDebug, NextProxy, NextSyslog, NextCrashes, NextShell, NextMode, NextOne, NextTwo,
         ExceptDebug, ExceptProxy, ExceptSyslog, ExceptCrashes, ExceptShell, ExceptMode, ExceptOne, ExceptTwo
<1>2. which' = "debug" => DebugInv'
  BY <1>1, DebugSteps DEF Parts
<1>3. which' = "proxy" => ProxyInv'
  BY <1>1, ProxySteps DEF Parts
<1>4. which' = "syslog" => SyslogInv'
  BY <1>1, SyslogSteps DEF Parts
<1>5. which' = "reports" => ReportsInv'
  BY <1>1, ReportsSteps DEF Parts
<1>6. which' = "shell" => ShellInv'
  BY <1>1, ShellSteps DEF Parts
<1>7. which' = "devmode" => ModeInv'
  BY <1>1, ModeSteps DEF Parts
<1>8. which' = "backup" => OneInv'
  BY <1>1, OneNext DEF Parts
<1>9. which' = "backup2" => TwoInv'
  BY <1>1, TwoNext DEF Parts
<1> QED
  BY <1>2, <1>3, <1>4, <1>5, <1>6, <1>7, <1>8, <1>9 DEF Parts

\* In every behaviour of the composition the tool that runs keeps its invariant (idevicedebug,
\* idevicedebugserverproxy, idevicesyslog, idevicecrashreport, afcclient, idevicedevmodectl,
\* idevicebackup, idevicebackup2).
THEOREM AlwaysTools == Spec => []Parts
<1>1. Init => Parts
  BY PartsStart
<1>2. Parts /\ [Next]_vars => Parts'
  BY PartsSteps
<1> QED
  BY <1>1, <1>2, PTL DEF Spec

\* What a tool reports is what happened, for any number of reports, files and blocks: the status
\* of the program (debugserver.c:537 and 555), a report that was removed is on the host
\* (idevicecrashreport.c:288), a copy without a message is complete (afcclient.c:971), and the
\* mode was confirmed after the restart (idevicedevmodectl.c:384-428).
THEOREM ReportsTheTruth == Spec => []ReportTrue
<1>1. Parts => ReportTrue
  BY DebugTrue, ReportsTrue, ShellTrue, ModeTrue DEF Parts, ReportTrue
<1> QED
  BY <1>1, AlwaysTools, PTL

\* The device of idevicedebugserverproxy is freed when its handlers have ended, for any number
\* of connections (idevicedebugserverproxy.c:335); the logger of idevicesyslog has one owner
\* (idevicesyslog.c:1263), and a handle of idevicedevmodectl is freed once (line 408).
THEOREM OwnedByOne == Spec => []OneOwner
<1>1. SyslogInv => Syslog!TypeOK /\ Syslog!OneOwner
  BY DEF SyslogInv, OwnerInv, Syslog!OneOwner
<1>2. ProxyInv => Proxy!TypeOK /\ Proxy!HandlersEnded
  BY ProxyEnds DEF ProxyInv
<1>3. Parts => OneOwner
  BY <1>1, <1>2, ModeTrue DEF Parts, OneOwner
<1> QED
  BY <1>3, AlwaysTools, PTL

\* idevicesyslog logs the device that is plugged in, for any number of devices that come and go
\* in any order (idevicesyslog.c:833-852), and nothing behind the message that ends the logging
\* (lines 415-448).
THEOREM LogsTheDevice == Spec => []LogTrue
<1>1. SyslogInv => Syslog!Follows /\ Syslog!OffIsOff
  BY FollowTrue DEF SyslogInv, PrintInv, Syslog!OffIsOff
<1>2. Parts => LogTrue
  BY <1>1 DEF Parts, LogTrue
<1> QED
  BY <1>2, AlwaysTools, PTL

\* idevicebackup2 and the device agree on where in the stream they are, for any number of files
\* of any size in any number of requests, and whatever is lost on the way: the tool takes file
\* data for something else only after it was told to quit or could not open a file
\* (mb2_handle_receive_files), and it never waits for a device that waits for it.
THEOREM StaysInStep == Spec => []InStep
<1>1. Parts => InStep
  BY OneHolds, TwoHolds DEF Parts, InStep
<1> QED
  BY <1>1, AlwaysTools, PTL

\* A backup that is reported as successful is complete, for any number and size of files: what
\* the device was told is saved is there in full (idevicebackup2.c, mb2_handle_receive_files),
\* and Status.plist says success only of a directory that is complete, across runs that are cut
\* short anywhere, unless a full backup over an older one was (idevicebackup.c:836).
THEOREM BackupsComplete == Spec => []BackupTrue
<1>1. Parts => BackupTrue
  BY OneHolds, TwoHolds DEF Parts, BackupTrue
<1> QED
  BY <1>1, AlwaysTools, PTL

\* A restore of idevicebackup that is reported as successful gave the phone every file and
\* application of the manifest, and of a damaged directory nothing that differs from it
\* (mobilebackup_check_file_integrity), for any number of files, applications and runs.
THEOREM RestoresComplete == Spec => []RestoreTrue
<1>1. Parts => RestoreTrue
  BY OneHolds DEF Parts, RestoreTrue
<1> QED
  BY <1>1, AlwaysTools, PTL

\* Both backup tools work under the lock file, if they could open it, and leave it behind on no
\* path, however many attempts at it they have (idevicebackup.c:862-892 and 1547, idevicebackup2.c:1947-1978 and 2637).
THEOREM UnderTheLock == Spec => []LockCovers
<1>1. Parts => LockCovers
  BY OneHolds, TwoHolds DEF Parts, LockCovers
<1> QED
  BY <1>1, AlwaysTools, PTL

=============================================================================
