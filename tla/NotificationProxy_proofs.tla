---------------------- MODULE NotificationProxy_proofs ----------------------
(***************************************************************************)
(* Proofs about NotificationProxy for any number of threads, callbacks and *)
(* messages: locking, the life of the notifier thread, the pointer that    *)
(* set_notify_callback borrows, and who may be called back.                *)
(***************************************************************************)
EXTENDS NotificationProxy, FiniteSetTheorems, SequenceTheorems, TLAPS

\* Sequence facts, stated once.
LEMMA AppendType ==
  ASSUME NEW S, NEW q \in Seq(S), NEW x \in S
  PROVE  Append(q, x) \in Seq(S)
OBVIOUS

LEMMA HeadTailType ==
  ASSUME NEW S, NEW q \in Seq(S), q # <<>>
  PROVE  Head(q) \in S /\ Tail(q) \in Seq(S)
OBVIOUS

\* What the actions do to the sequences keeps their types.
LEMMA SequenceTypes ==
  ASSUME TypeOK
  PROVE  /\ inbox # <<>> => /\ Head(inbox) \in Messages
                            /\ Tail(inbox) \in Seq(Messages)
         /\ \A m \in Messages : Append(inbox, m) \in Seq(Messages)
         /\ \A n \in Names : Append(sent, n) \in Seq(Names)
         /\ \A i \in Regs, n \in Names \union {NoName} :
              Append(delivered, <<i, n>>) \in Seq(Regs \X (Names \union {NoName}))
<1>1. /\ inbox \in Seq(Messages) /\ sent \in Seq(Names)
      /\ delivered \in Seq(Regs \X (Names \union {NoName}))
  BY DEF TypeOK
<1>2. inbox # <<>> => Head(inbox) \in Messages /\ Tail(inbox) \in Seq(Messages)
  BY <1>1, HeadTailType
<1>3. \A m \in Messages : Append(inbox, m) \in Seq(Messages)
  BY <1>1, AppendType
<1>4. \A n \in Names : Append(sent, n) \in Seq(Names)
  BY <1>1, AppendType
<1>5. ASSUME NEW i \in Regs, NEW n \in Names \union {NoName}
      PROVE  Append(delivered, <<i, n>>) \in Seq(Regs \X (Names \union {NoName}))
  <2>1. <<i, n>> \in Regs \X (Names \union {NoName})
    OBVIOUS
  <2> QED
    BY <1>1, <2>1, AppendType
<1> QED
  BY <1>2, <1>3, <1>4, <1>5

\* Every variable keeps its type.
THEOREM TypeCorrect == Spec => []TypeOK
<1> USE ConstAssumption DEF ConstAssumption, TypeOK, Regs, AppPcs, NpPcs, Results
<1>1. Init => TypeOK
  BY DEF Init
<1>2. TypeOK /\ [Next]_vars => TypeOK'
  <2> SUFFICES ASSUME TypeOK, [Next]_vars PROVE TypeOK'
    OBVIOUS
  <2>0. /\ inbox # <<>> => Tail(inbox) \in Seq(Messages)
        /\ \A m \in Messages : Append(inbox, m) \in Seq(Messages)
        /\ \A n \in Names : Append(sent, n) \in Seq(Names)
        /\ \A i \in Regs, n \in Names \union {NoName} :
             Append(delivered, <<i, n>>) \in Seq(Regs \X (Names \union {NoName}))
    BY SequenceTypes
  <2>m. /\ \A n \in Names : n \in Messages
        /\ Junk \in Messages /\ ProxyDeath \in Messages
    BY DEF Messages
  <2> USE DEF connVars, appVars, npVars, histVars, Goto, NpGoto, Call
  <2>1. ASSUME NEW t \in Threads, AppStep(t) PROVE TypeOK'
    <3>1. CASE SendLock(t)
      BY <3>1 DEF SendLock
    <3>2. CASE SendPlist(t)
      <4>1. SendResult \in Results
        BY DEF SendResult
      <4>2. res' \in [Threads -> Results] /\ todo' \in [Threads -> 0..MaxBatch]
        BY <3>2, <4>1 DEF SendPlist
      <4> QED
        BY <3>2, <4>2 DEF SendPlist
    <3>3. CASE SendReturn(t)
      BY <3>3 DEF SendReturn
    <3>4. CASE SetCallbackLock(t)
      BY <3>4 DEF SetCallbackLock
    <3>5. CASE SetCallbackStop(t)
      BY <3>5 DEF SetCallbackStop
    <3>6. CASE SetCallbackJoin(t)
      BY <3>6 DEF SetCallbackJoin
    <3>7. CASE SetCallbackNew(t)
      <4>1. notifier' \in 0..MaxReg
        BY <3>7 DEF SetCallbackNew
      <4>2. npc' \in [Regs -> NpPcs]
        BY <3>7 DEF SetCallbackNew
      <4>3. apc' \in [Threads -> AppPcs] /\ res' \in [Threads -> Results]
        BY <3>7 DEF SetCallbackNew
      <4> QED
        BY <3>7, <4>1, <4>2, <4>3 DEF SetCallbackNew
    <3>8. CASE FreeSendShutdown(t)
      <4>1. inbox' \in Seq(Messages)
        BY <3>8, <2>0, <2>m DEF FreeSendShutdown
      <4> QED
        BY <3>8, <4>1 DEF FreeSendShutdown
    <3>9. CASE FreeNullParent(t)
      BY <3>9 DEF FreeNullParent
    <3>10. CASE FreeJoin(t)
      BY <3>10 DEF FreeJoin
    <3>11. CASE FreeReceive(t)
      BY <3>11, <2>0 DEF FreeReceive
    <3>12. CASE FreeClose(t)
      BY <3>12 DEF FreeClose
    <3> QED
      BY <2>1, <3>1, <3>2, <3>3, <3>4, <3>5, <3>6, <3>7, <3>8, <3>9, <3>10,
         <3>11, <3>12 DEF AppStep
  <2>2. ASSUME NEW t \in Threads, FreeCall(t) PROVE TypeOK'
    BY <2>2 DEF FreeCall
  <2>3. ASSUME NEW t \in Threads, NEW k \in 0..MaxBatch, SendCall(t, k)
        PROVE  TypeOK'
    BY <2>3 DEF SendCall
  <2>4. ASSUME NEW t \in Threads, NEW cb \in BOOLEAN, SetCallbackCall(t, cb)
        PROVE  TypeOK'
    BY <2>4 DEF SetCallbackCall
  <2>5. ASSUME NEW i \in Regs, NotifierStep(i) PROVE TypeOK'
    <3>1. CASE NotifierReceiveEnd(i)
      <4>1. inbox' \in Seq(Messages)
        BY <3>1, <2>0 DEF NotifierReceiveEnd
      <4>2. held' \in [Regs -> Names \union {NoName}]
        BY <3>1 DEF NotifierReceiveEnd
      <4>3. npc' \in [Regs -> NpPcs]
        BY <3>1 DEF NotifierReceiveEnd
      <4> QED
        BY <3>1, <4>1, <4>2, <4>3, SMTT(30) DEF NotifierReceiveEnd
    <3>2. CASE NotifierCallback(i)
      <4>1. delivered' \in Seq(Regs \X (Names \union {NoName}))
        BY <3>2, <2>0 DEF NotifierCallback
      <4> QED
        BY <3>2, <4>1 DEF NotifierCallback
    <3>3. CASE NotifierFail(i)
      <4>1. delivered' \in Seq(Regs \X (Names \union {NoName}))
        BY <3>3, <2>0 DEF NotifierFail
      <4> QED
        BY <3>3, <4>1 DEF NotifierFail
    <3>4. CASE \/ NotifierHead(i) \/ NotifierEnter(i) \/ NotifierSleep(i)
               \/ NotifierPostSend(i)
      BY <3>4 DEF NotifierHead, NotifierEnter, NotifierSleep, NotifierPostSend
    <3>5. CASE NotifierLock(i) \/ NotifierPostLock(i) \/ NotifierReceiveBegin(i)
      BY <3>5 DEF NotifierLock, NotifierPostLock, NotifierReceiveBegin
    <3> QED
      BY <2>5, <3>1, <3>2, <3>3, <3>4, <3>5 DEF NotifierStep
  <2>6. ASSUME NEW n \in Names, DeviceRelay(n) PROVE TypeOK'
    <3>1. inbox' \in Seq(Messages) /\ sent' \in Seq(Names)
      BY <2>6, <2>0, <2>m DEF DeviceRelay
    <3> QED
      BY <2>6, <3>1 DEF DeviceRelay
  <2>t. inbox \in Seq(Messages)
    OBVIOUS
  <2>7. CASE DeviceJunk \/ DeviceLost
    <3>1. inbox' = inbox \/ inbox' = Append(inbox, Junk)
      BY <2>7 DEF DeviceJunk, DeviceLost
    <3>2. inbox' \in Seq(Messages)
      <4> HIDE ConstAssumption DEF TypeOK
      <4> QED
        BY <3>1, <2>0, <2>m, <2>t
    <3> QED
      BY <2>7, <3>2 DEF DeviceJunk, DeviceLost
  <2>8. CASE Finished \/ UNCHANGED vars
    BY <2>8 DEF Finished, vars
  <2> HIDE DEF TypeOK, connVars, appVars, npVars, histVars, Goto, NpGoto, Call
  <2> QED
    BY <2>1, <2>2, <2>3, <2>4, <2>5, <2>6, <2>7, <2>8 DEF Next, AppCall, Device
<1> QED
  BY <1>1, <1>2, PTL DEF Spec

-----------------------------------------------------------------------------
(* The steps of the program, for one proof step per action.                *)

LEMMA DeviceStep ==
  ASSUME Device
  PROVE  UNCHANGED <<mutex, parent, notifier, appVars, npVars>> /\ conn' # "freed"
<1>1. ASSUME NEW n \in Names, DeviceRelay(n)
      PROVE  UNCHANGED <<mutex, parent, notifier, appVars, npVars>> /\ conn' # "freed"
  BY <1>1 DEF DeviceRelay, connVars
<1>2. CASE DeviceJunk
  BY <1>2 DEF DeviceJunk, connVars
<1>3. CASE DeviceLost
  BY <1>3 DEF DeviceLost
<1> QED
  BY <1>1, <1>2, <1>3 DEF Device

LEMMA Disjoint == \A t \in Threads, i \in Regs : t # i
<1>1. \A i \in Regs : i \in Nat
  BY ConstAssumption DEF ConstAssumption, Regs
<1> QED
  BY <1>1, ConstAssumption, Zenon DEF ConstAssumption

\* At most one thread is between np_lock and np_unlock.
LEMMA Exclusive ==
  ASSUME MutexHeld
  PROVE  /\ \A t, u \in Threads : Locked(t) /\ Locked(u) => t = u
         /\ \A i, j \in Regs : NpLocked(i) /\ NpLocked(j) => i = j
         /\ \A t \in Threads, i \in Regs : ~(Locked(t) /\ NpLocked(i))
         /\ mutex = None => /\ \A t \in Threads : ~Locked(t)
                            /\ \A i \in Regs : ~NpLocked(i)
<1>1. \A t, u \in Threads : Locked(t) /\ Locked(u) => t = u
  BY DEF MutexHeld
<1>2. \A i, j \in Regs : NpLocked(i) /\ NpLocked(j) => i = j
  BY DEF MutexHeld
<1>3. ASSUME NEW t \in Threads, NEW i \in Regs, Locked(t), NpLocked(i) PROVE FALSE
  <2>1. mutex = t /\ mutex = i /\ t # i
    BY <1>3, Disjoint DEF MutexHeld
  <2> QED
    BY <2>1
<1>4. ASSUME mutex = None, NEW t \in Threads PROVE ~Locked(t)
  BY <1>4, ConstAssumption DEF MutexHeld, ConstAssumption
<1>5. ASSUME mutex = None, NEW i \in Regs PROVE ~NpLocked(i)
  <2>1. None # i
    BY ConstAssumption DEF ConstAssumption, Regs
  <2> QED
    BY <1>5, <2>1 DEF MutexHeld
<1> QED
  BY <1>1, <1>2, <1>3, <1>4, <1>5

\* A thread that changes the callback is alone: nobody else holds the mutex and
\* nobody frees the client.
LEMMA SetterAlone ==
  ASSUME MutexHeld, FreerAlone, NEW t \in Threads, Locked(t)
  PROVE  \A u \in Threads : u # t => ~Locked(u) /\ apc[u] \notin FreePcs
<1>1. \A u \in Threads : u # t => ~Locked(u)
  BY Exclusive
<1>2. ASSUME NEW u \in Threads, u # t, apc[u] \in FreePcs PROVE FALSE
  <2>1. freer = u /\ freer # None
    BY <1>2, ConstAssumption DEF FreerAlone, ConstAssumption
  <2>2. apc[t] = "idle"
    BY <1>2, <2>1 DEF FreerAlone
  <2> QED
    BY <2>2 DEF Locked
<1> QED
  BY <1>1, <1>2

\* The freer is alone.
LEMMA FreerIsAlone ==
  ASSUME FreerAlone, NEW t \in Threads, apc[t] \in FreePcs
  PROVE  \A u \in Threads : u # t => apc[u] = "idle"
BY ConstAssumption DEF FreerAlone, ConstAssumption

\* Only one thread is between lock and unlock, and no step lets in a second.
LEMMA MutexHeldStep ==
  ASSUME TypeOK, TypeOK', MutexHeld, [Next]_vars
  PROVE  MutexHeld'
<1> USE Exclusive DEF Goto, NpGoto, Call, connVars, appVars, npVars
<1>1. ASSUME NEW t \in Threads, AppStep(t) PROVE MutexHeld'
  <2>1. CASE SendLock(t)
    BY <2>1 DEF SendLock, TypeOK, MutexHeld, Locked, NpLocked
  <2>2. CASE SendPlist(t)
    BY <2>2 DEF SendPlist, TypeOK, MutexHeld, Locked, NpLocked
  <2>3. CASE SendReturn(t)
    BY <2>3 DEF SendReturn, TypeOK, MutexHeld, Locked, NpLocked
  <2>4. CASE SetCallbackLock(t)
    BY <2>4 DEF SetCallbackLock, TypeOK, MutexHeld, Locked, NpLocked
  <2>5. CASE SetCallbackStop(t)
    BY <2>5 DEF SetCallbackStop, TypeOK, MutexHeld, Locked, NpLocked
  <2>6. CASE SetCallbackJoin(t)
    BY <2>6 DEF SetCallbackJoin, TypeOK, MutexHeld, Locked, NpLocked
  <2>7. CASE SetCallbackNew(t)
    BY <2>7 DEF SetCallbackNew, TypeOK, MutexHeld, Locked, NpLocked
  <2>8. CASE FreeSendShutdown(t)
    BY <2>8 DEF FreeSendShutdown, TypeOK, MutexHeld, Locked, NpLocked
  <2>9. CASE FreeNullParent(t)
    BY <2>9 DEF FreeNullParent, TypeOK, MutexHeld, Locked, NpLocked
  <2>10. CASE FreeJoin(t)
    BY <2>10 DEF FreeJoin, TypeOK, MutexHeld, Locked, NpLocked
  <2>11. CASE FreeReceive(t)
    BY <2>11 DEF FreeReceive, TypeOK, MutexHeld, Locked, NpLocked
  <2>12. CASE FreeClose(t)
    BY <2>12 DEF FreeClose, TypeOK, MutexHeld, Locked, NpLocked
  <2> QED
    BY <1>1, <2>1, <2>2, <2>3, <2>4, <2>5, <2>6, <2>7, <2>8, <2>9, <2>10, <2>11, <2>12 DEF AppStep
<1>2. ASSUME NEW t \in Threads, FreeCall(t) PROVE MutexHeld'
  BY <1>2 DEF FreeCall, TypeOK, MutexHeld, Locked, NpLocked
<1>3. ASSUME NEW t \in Threads, NEW k \in 0..MaxBatch, SendCall(t, k) PROVE MutexHeld'
  BY <1>3 DEF SendCall, TypeOK, MutexHeld, Locked, NpLocked
<1>4. ASSUME NEW t \in Threads, NEW cb \in BOOLEAN, SetCallbackCall(t, cb) PROVE MutexHeld'
  BY <1>4 DEF SetCallbackCall, TypeOK, MutexHeld, Locked, NpLocked
<1>5. ASSUME NEW i \in Regs, NotifierStep(i) PROVE MutexHeld'
  <2>1. CASE NotifierHead(i)
    BY <2>1 DEF NotifierHead, TypeOK, MutexHeld, Locked, NpLocked
  <2>2. CASE NotifierEnter(i)
    BY <2>2 DEF NotifierEnter, TypeOK, MutexHeld, Locked, NpLocked
  <2>3. CASE NotifierLock(i)
    BY <2>3 DEF NotifierLock, TypeOK, MutexHeld, Locked, NpLocked
  <2>4. CASE NotifierReceiveBegin(i)
    BY <2>4 DEF NotifierReceiveBegin, TypeOK, MutexHeld, Locked, NpLocked
  <2>5. CASE NotifierReceiveEnd(i)
    BY <2>5 DEF NotifierReceiveEnd, TypeOK, MutexHeld, Locked, NpLocked
  <2>6. CASE NotifierCallback(i)
    BY <2>6 DEF NotifierCallback, TypeOK, MutexHeld, Locked, NpLocked
  <2>7. CASE NotifierPostLock(i)
    BY <2>7 DEF NotifierPostLock, TypeOK, MutexHeld, Locked, NpLocked
  <2>8. CASE NotifierPostSend(i)
    BY <2>8 DEF NotifierPostSend, TypeOK, MutexHeld, Locked, NpLocked
  <2>9. CASE NotifierFail(i)
    BY <2>9 DEF NotifierFail, TypeOK, MutexHeld, Locked, NpLocked
  <2>10. CASE NotifierSleep(i)
    BY <2>10 DEF NotifierSleep, TypeOK, MutexHeld, Locked, NpLocked
  <2> QED
    BY <1>5, <2>1, <2>2, <2>3, <2>4, <2>5, <2>6, <2>7, <2>8, <2>9, <2>10 DEF NotifierStep
<1>6. CASE Device
  BY <1>6, DeviceStep DEF TypeOK, MutexHeld, Locked, NpLocked
<1>7. CASE UNCHANGED vars
  BY <1>7 DEF vars, TypeOK, MutexHeld, Locked, NpLocked
<1> HIDE DEF connVars, appVars, npVars, Goto, NpGoto, Call
<1> QED
  BY <1>1, <1>2, <1>3, <1>4, <1>5, <1>6, <1>7 DEF Next, AppCall, Finished

\* np_client_free runs alone.
LEMMA FreerAloneStep ==
  ASSUME TypeOK, TypeOK', FreerAlone, [Next]_vars
  PROVE  FreerAlone'
<1> USE ConstAssumption DEF Goto, NpGoto, Call, connVars, appVars, npVars
<1>1. ASSUME NEW t \in Threads, AppStep(t) PROVE FreerAlone'
  <2>1. CASE SendLock(t)
    BY <2>1 DEF SendLock, FreerAlone, FreePcs, TypeOK
  <2>2. CASE SendPlist(t)
    BY <2>2 DEF SendPlist, FreerAlone, FreePcs, TypeOK
  <2>3. CASE SendReturn(t)
    BY <2>3 DEF SendReturn, FreerAlone, FreePcs, TypeOK
  <2>4. CASE SetCallbackLock(t)
    BY <2>4 DEF SetCallbackLock, FreerAlone, FreePcs, TypeOK
  <2>5. CASE SetCallbackStop(t)
    BY <2>5, SMTT(30) DEF SetCallbackStop, FreerAlone, FreePcs, TypeOK
  <2>6. CASE SetCallbackJoin(t)
    BY <2>6 DEF SetCallbackJoin, FreerAlone, FreePcs, TypeOK
  <2>7. CASE SetCallbackNew(t)
    BY <2>7 DEF SetCallbackNew, FreerAlone, FreePcs, TypeOK
  <2>8. CASE FreeSendShutdown(t)
    BY <2>8 DEF FreeSendShutdown, FreerAlone, FreePcs, TypeOK
  <2>9. CASE FreeNullParent(t)
    BY <2>9 DEF FreeNullParent, FreerAlone, FreePcs, TypeOK
  <2>10. CASE FreeJoin(t)
    BY <2>10 DEF FreeJoin, FreerAlone, FreePcs, TypeOK
  <2>11. CASE FreeReceive(t)
    BY <2>11 DEF FreeReceive, FreerAlone, FreePcs, TypeOK
  <2>12. CASE FreeClose(t)
    BY <2>12 DEF FreeClose, FreerAlone, FreePcs, TypeOK
  <2> QED
    BY <1>1, <2>1, <2>2, <2>3, <2>4, <2>5, <2>6, <2>7, <2>8, <2>9, <2>10,
      <2>11, <2>12 DEF AppStep
<1>2. ASSUME NEW t \in Threads, FreeCall(t) PROVE FreerAlone'
  BY <1>2 DEF FreeCall, FreerAlone, FreePcs, TypeOK
<1>3. ASSUME NEW t \in Threads, NEW k \in 0..MaxBatch, SendCall(t, k) PROVE FreerAlone'
  BY <1>3 DEF SendCall, FreerAlone, FreePcs, TypeOK
<1>4. ASSUME NEW t \in Threads, NEW cb \in BOOLEAN, SetCallbackCall(t, cb) PROVE FreerAlone'
  BY <1>4 DEF SetCallbackCall, FreerAlone, FreePcs, TypeOK
<1>5. ASSUME NEW i \in Regs, NotifierStep(i) PROVE FreerAlone'
  BY <1>5 DEF NotifierStep, NotifierHead, NotifierEnter, NotifierLock,
    NotifierReceiveBegin, NotifierReceiveEnd, NotifierCallback,
    NotifierPostLock, NotifierPostSend, NotifierFail, NotifierSleep,
    FreerAlone, FreePcs, TypeOK
<1>6. CASE Device
  BY <1>6, DeviceStep DEF FreerAlone, FreePcs, TypeOK
<1>7. CASE UNCHANGED vars
  BY <1>7 DEF vars, FreerAlone, FreePcs, TypeOK
<1> HIDE DEF connVars, appVars, npVars, Goto, NpGoto, Call
<1> QED
  BY <1>1, <1>2, <1>3, <1>4, <1>5, <1>6, <1>7 DEF Next, AppCall, Finished

\* No step leaves a running notifier without a handle.
LEMMA NoOrphanStep ==
  ASSUME TypeOK, TypeOK', NoOrphanNotifier, HandleState, [Next]_vars
  PROVE  NoOrphanNotifier'
<1> USE ConstAssumption DEF Goto, NpGoto, Call, connVars, appVars, npVars
<1>1. ASSUME NEW t \in Threads, AppStep(t) PROVE NoOrphanNotifier'
  <2>1. CASE SetCallbackJoin(t)
    BY <2>1 DEF SetCallbackJoin, NoOrphanNotifier, Alive, TypeOK, Regs,
      HandleState
  <2>2. CASE SetCallbackNew(t)
    BY <2>2 DEF SetCallbackNew, NoOrphanNotifier, Alive, TypeOK, Regs,
      HandleState
  <2>3. CASE FreeJoin(t)
    BY <2>3 DEF FreeJoin, NoOrphanNotifier, Alive, TypeOK, Regs, HandleState
  <2>4. CASE \/ SendLock(t) \/ SendPlist(t) \/ SendReturn(t)
             \/ SetCallbackLock(t) \/ SetCallbackStop(t) \/ FreeSendShutdown(t)
             \/ FreeNullParent(t) \/ FreeReceive(t) \/ FreeClose(t)
    BY <2>4 DEF SendLock, SendPlist, SendReturn, SetCallbackLock,
      SetCallbackStop, FreeSendShutdown, FreeNullParent, FreeReceive,
      FreeClose, NoOrphanNotifier, Alive, TypeOK, Regs, HandleState
  <2> QED
    BY <1>1, <2>1, <2>2, <2>3, <2>4 DEF AppStep
<1>2. ASSUME NEW t \in Threads, FreeCall(t) PROVE NoOrphanNotifier'
  BY <1>2 DEF FreeCall, NoOrphanNotifier, Alive, TypeOK, Regs, HandleState
<1>3. ASSUME NEW t \in Threads, NEW k \in 0..MaxBatch, SendCall(t, k) PROVE NoOrphanNotifier'
  BY <1>3 DEF SendCall, NoOrphanNotifier, Alive, TypeOK, Regs, HandleState
<1>4. ASSUME NEW t \in Threads, NEW cb \in BOOLEAN, SetCallbackCall(t, cb) PROVE NoOrphanNotifier'
  BY <1>4 DEF SetCallbackCall, NoOrphanNotifier, Alive, TypeOK, Regs, HandleState
<1>5. ASSUME NEW i \in Regs, NotifierStep(i) PROVE NoOrphanNotifier'
  BY <1>5 DEF NotifierStep, NotifierHead, NotifierEnter, NotifierLock,
    NotifierReceiveBegin, NotifierReceiveEnd, NotifierCallback,
    NotifierPostLock, NotifierPostSend, NotifierFail, NotifierSleep,
    NoOrphanNotifier, Alive, TypeOK, Regs, HandleState
<1>6. CASE Device
  BY <1>6, DeviceStep DEF NoOrphanNotifier, Alive, TypeOK, Regs, HandleState
<1>7. CASE UNCHANGED vars
  BY <1>7 DEF vars, NoOrphanNotifier, Alive, TypeOK, Regs, HandleState
<1> HIDE DEF connVars, appVars, npVars, Goto, NpGoto, Call
<1> QED
  BY <1>1, <1>2, <1>3, <1>4, <1>5, <1>6, <1>7 DEF Next, AppCall, Finished

\* The handle is set exactly while there is a thread to join.
LEMMA HandleStateStep ==
  ASSUME TypeOK, TypeOK', HandleState, MutexHeld, FreerAlone, [Next]_vars
  PROVE  HandleState'
<1> USE DEF Goto, NpGoto, Call, connVars, appVars, npVars
<1>1. ASSUME NEW t \in Threads, AppStep(t) PROVE HandleState'
  <2>1. CASE SendLock(t)
    BY <2>1 DEF SendLock, HandleState, TypeOK
  <2>2. CASE SendPlist(t)
    BY <2>2 DEF SendPlist, HandleState, TypeOK
  <2>3. CASE SendReturn(t)
    BY <2>3 DEF SendReturn, HandleState, TypeOK
  <2>4. CASE SetCallbackLock(t)
    BY <2>4 DEF SetCallbackLock, HandleState, TypeOK
  <2>5. CASE SetCallbackStop(t)
    BY <2>5 DEF SetCallbackStop, HandleState, TypeOK
  <2>6. CASE SetCallbackJoin(t)
    <3>1. Locked(t)
      BY <2>6 DEF SetCallbackJoin, Locked
    <3>2. \A u \in Threads : u # t => ~Locked(u) /\ apc[u] \notin FreePcs
      BY <3>1, SetterAlone
    <3> QED
      BY <2>6, <3>2 DEF SetCallbackJoin, HandleState, TypeOK, Locked, FreePcs
  <2>7. CASE SetCallbackNew(t)
    <3>1. Locked(t)
      BY <2>7 DEF SetCallbackNew, Locked
    <3>2. \A u \in Threads : u # t => ~Locked(u) /\ apc[u] \notin FreePcs
      BY <3>1, SetterAlone
    <3> QED
      BY <2>7, <3>2 DEF SetCallbackNew, HandleState, TypeOK, Locked, FreePcs
  <2>8. CASE FreeSendShutdown(t)
    BY <2>8 DEF FreeSendShutdown, HandleState, TypeOK
  <2>9. CASE FreeNullParent(t)
    BY <2>9 DEF FreeNullParent, HandleState, TypeOK
  <2>10. CASE FreeJoin(t)
    <3>1. \A u \in Threads : u # t => apc[u] = "idle"
      BY <2>10, FreerIsAlone DEF FreeJoin, FreePcs
    <3> QED
      BY <2>10, <3>1 DEF FreeJoin, HandleState, TypeOK
  <2>11. CASE FreeReceive(t)
    BY <2>11 DEF FreeReceive, HandleState, TypeOK
  <2>12. CASE FreeClose(t)
    BY <2>12 DEF FreeClose, HandleState, TypeOK
  <2> QED
    BY <1>1, <2>1, <2>2, <2>3, <2>4, <2>5, <2>6, <2>7, <2>8, <2>9, <2>10,
      <2>11, <2>12 DEF AppStep
<1>2. ASSUME NEW t \in Threads, FreeCall(t) PROVE HandleState'
  BY <1>2 DEF FreeCall, HandleState, TypeOK
<1>3. ASSUME NEW t \in Threads, NEW k \in 0..MaxBatch, SendCall(t, k) PROVE HandleState'
  BY <1>3 DEF SendCall, HandleState, TypeOK
<1>4. ASSUME NEW t \in Threads, NEW cb \in BOOLEAN, SetCallbackCall(t, cb) PROVE HandleState'
  BY <1>4 DEF SetCallbackCall, HandleState, TypeOK
<1>5. ASSUME NEW i \in Regs, NotifierStep(i) PROVE HandleState'
  BY <1>5 DEF NotifierStep, NotifierHead, NotifierEnter, NotifierLock,
    NotifierReceiveBegin, NotifierReceiveEnd, NotifierCallback,
    NotifierPostLock, NotifierPostSend, NotifierFail, NotifierSleep,
    HandleState, TypeOK
<1>6. CASE Device
  BY <1>6, DeviceStep DEF HandleState, TypeOK
<1>7. CASE UNCHANGED vars
  BY <1>7 DEF vars, HandleState, TypeOK
<1> HIDE DEF connVars, appVars, npVars, Goto, NpGoto, Call
<1> QED
  BY <1>1, <1>2, <1>3, <1>4, <1>5, <1>6, <1>7 DEF Next, AppCall, Finished

\* The pointer put aside is a real one.
LEMMA SavedParentStep ==
  ASSUME TypeOK, TypeOK', SavedParent, ParentGivenBack, MutexHeld, FreerAlone, [Next]_vars
  PROVE  SavedParent'
<1> USE Exclusive DEF Goto, NpGoto, Call, connVars, appVars, npVars
<1>1. ASSUME NEW t \in Threads, AppStep(t) PROVE SavedParent'
  <2>1. CASE SetCallbackStop(t)
    BY <2>1, ZenonT(30) DEF SetCallbackStop, SavedParent, ParentGivenBack, FreerAlone,
      FreePcs, Locked, TypeOK
  <2>2. CASE FreeNullParent(t)
    BY <2>2 DEF FreeNullParent, SavedParent, ParentGivenBack, FreerAlone,
      FreePcs, Locked, TypeOK
  <2>3. CASE \/ SendLock(t) \/ SendPlist(t) \/ SendReturn(t)
             \/ SetCallbackLock(t) \/ SetCallbackJoin(t) \/ SetCallbackNew(t)
             \/ FreeSendShutdown(t) \/ FreeJoin(t) \/ FreeReceive(t)
             \/ FreeClose(t)
    BY <2>3 DEF SendLock, SendPlist, SendReturn, SetCallbackLock,
      SetCallbackJoin, SetCallbackNew, FreeSendShutdown, FreeJoin,
      FreeReceive, FreeClose, SavedParent, ParentGivenBack, FreerAlone,
      FreePcs, Locked, TypeOK
  <2> QED
    BY <1>1, <2>1, <2>2, <2>3 DEF AppStep
<1>2. ASSUME NEW t \in Threads, FreeCall(t) PROVE SavedParent'
  BY <1>2 DEF FreeCall, SavedParent, ParentGivenBack, FreerAlone, FreePcs, Locked, TypeOK
<1>3. ASSUME NEW t \in Threads, NEW k \in 0..MaxBatch, SendCall(t, k) PROVE SavedParent'
  BY <1>3 DEF SendCall, SavedParent, ParentGivenBack, FreerAlone, FreePcs, Locked, TypeOK
<1>4. ASSUME NEW t \in Threads, NEW cb \in BOOLEAN, SetCallbackCall(t, cb) PROVE SavedParent'
  BY <1>4 DEF SetCallbackCall, SavedParent, ParentGivenBack, FreerAlone, FreePcs, Locked, TypeOK
<1>5. ASSUME NEW i \in Regs, NotifierStep(i) PROVE SavedParent'
  BY <1>5 DEF NotifierStep, NotifierHead, NotifierEnter, NotifierLock,
    NotifierReceiveBegin, NotifierReceiveEnd, NotifierCallback,
    NotifierPostLock, NotifierPostSend, NotifierFail, NotifierSleep,
    SavedParent, ParentGivenBack, FreerAlone, FreePcs, Locked, TypeOK
<1>6. CASE Device
  BY <1>6, DeviceStep DEF SavedParent, ParentGivenBack, FreerAlone, FreePcs, Locked, TypeOK
<1>7. CASE UNCHANGED vars
  BY <1>7 DEF vars, SavedParent, ParentGivenBack, FreerAlone, FreePcs, Locked, TypeOK
<1> HIDE DEF connVars, appVars, npVars, Goto, NpGoto, Call
<1> QED
  BY <1>1, <1>2, <1>3, <1>4, <1>5, <1>6, <1>7 DEF Next, AppCall, Finished

\* The stop flag is put back.
LEMMA ParentGivenBackStep ==
  ASSUME TypeOK, TypeOK', ParentGivenBack, SavedParent, FreerAlone, [Next]_vars
  PROVE  ParentGivenBack'
<1> USE ConstAssumption DEF Goto, NpGoto, Call, connVars, appVars, npVars
<1>1. ASSUME NEW t \in Threads, AppStep(t) PROVE ParentGivenBack'
  <2>1. CASE SetCallbackStop(t)
    BY <2>1 DEF SetCallbackStop, ParentGivenBack, SavedParent, FreerAlone,
      FreePcs, TypeOK
  <2>2. CASE SetCallbackJoin(t)
    BY <2>2 DEF SetCallbackJoin, ParentGivenBack, SavedParent, FreerAlone,
      FreePcs, TypeOK
  <2>3. CASE FreeNullParent(t)
    BY <2>3 DEF FreeNullParent, ParentGivenBack, SavedParent, FreerAlone,
      FreePcs, TypeOK
  <2>4. CASE \/ SendLock(t) \/ SendPlist(t) \/ SendReturn(t)
             \/ SetCallbackLock(t) \/ SetCallbackNew(t) \/ FreeSendShutdown(t)
             \/ FreeJoin(t) \/ FreeReceive(t) \/ FreeClose(t)
    BY <2>4 DEF SendLock, SendPlist, SendReturn, SetCallbackLock,
      SetCallbackNew, FreeSendShutdown, FreeJoin, FreeReceive, FreeClose,
      ParentGivenBack, SavedParent, FreerAlone, FreePcs, TypeOK
  <2> QED
    BY <1>1, <2>1, <2>2, <2>3, <2>4 DEF AppStep
<1>2. ASSUME NEW t \in Threads, FreeCall(t) PROVE ParentGivenBack'
  BY <1>2 DEF FreeCall, ParentGivenBack, SavedParent, FreerAlone, FreePcs, TypeOK
<1>3. ASSUME NEW t \in Threads, NEW k \in 0..MaxBatch, SendCall(t, k) PROVE ParentGivenBack'
  BY <1>3 DEF SendCall, ParentGivenBack, SavedParent, FreerAlone, FreePcs, TypeOK
<1>4. ASSUME NEW t \in Threads, NEW cb \in BOOLEAN, SetCallbackCall(t, cb) PROVE ParentGivenBack'
  BY <1>4 DEF SetCallbackCall, ParentGivenBack, SavedParent, FreerAlone, FreePcs, TypeOK
<1>5. ASSUME NEW i \in Regs, NotifierStep(i) PROVE ParentGivenBack'
  BY <1>5 DEF NotifierStep, NotifierHead, NotifierEnter, NotifierLock,
    NotifierReceiveBegin, NotifierReceiveEnd, NotifierCallback,
    NotifierPostLock, NotifierPostSend, NotifierFail, NotifierSleep,
    ParentGivenBack, SavedParent, FreerAlone, FreePcs, TypeOK
<1>6. CASE Device
  BY <1>6, DeviceStep DEF ParentGivenBack, SavedParent, FreerAlone, FreePcs, TypeOK
<1>7. CASE UNCHANGED vars
  BY <1>7 DEF vars, ParentGivenBack, SavedParent, FreerAlone, FreePcs, TypeOK
<1> HIDE DEF connVars, appVars, npVars, Goto, NpGoto, Call
<1> QED
  BY <1>1, <1>2, <1>3, <1>4, <1>5, <1>6, <1>7 DEF Next, AppCall, Finished

\* Only np_client_free frees.
LEMMA FreedByFreerStep ==
  ASSUME TypeOK, TypeOK', FreedByFreer, [Next]_vars
  PROVE  FreedByFreer'
<1> USE DEF Goto, NpGoto, Call, connVars, appVars, npVars
<1>1. ASSUME NEW t \in Threads, AppStep(t) PROVE FreedByFreer'
  <2>1. CASE FreeClose(t)
    BY <2>1 DEF FreeClose, FreedByFreer, TypeOK
  <2>2. CASE \/ SendLock(t) \/ SendPlist(t) \/ SendReturn(t)
             \/ SetCallbackLock(t) \/ SetCallbackStop(t) \/ SetCallbackJoin(t)
             \/ SetCallbackNew(t) \/ FreeSendShutdown(t) \/ FreeNullParent(t)
             \/ FreeJoin(t) \/ FreeReceive(t)
    BY <2>2 DEF SendLock, SendPlist, SendReturn, SetCallbackLock,
      SetCallbackStop, SetCallbackJoin, SetCallbackNew, FreeSendShutdown,
      FreeNullParent, FreeJoin, FreeReceive, FreedByFreer, TypeOK
  <2> QED
    BY <1>1, <2>1, <2>2 DEF AppStep
<1>2. ASSUME NEW t \in Threads, FreeCall(t) PROVE FreedByFreer'
  BY <1>2 DEF FreeCall, FreedByFreer, TypeOK
<1>3. ASSUME NEW t \in Threads, NEW k \in 0..MaxBatch, SendCall(t, k) PROVE FreedByFreer'
  BY <1>3 DEF SendCall, FreedByFreer, TypeOK
<1>4. ASSUME NEW t \in Threads, NEW cb \in BOOLEAN, SetCallbackCall(t, cb) PROVE FreedByFreer'
  BY <1>4 DEF SetCallbackCall, FreedByFreer, TypeOK
<1>5. ASSUME NEW i \in Regs, NotifierStep(i) PROVE FreedByFreer'
  BY <1>5 DEF NotifierStep, NotifierHead, NotifierEnter, NotifierLock,
    NotifierReceiveBegin, NotifierReceiveEnd, NotifierCallback,
    NotifierPostLock, NotifierPostSend, NotifierFail, NotifierSleep,
    FreedByFreer, TypeOK
<1>6. CASE Device
  BY <1>6, DeviceStep DEF FreedByFreer, TypeOK
<1>7. CASE UNCHANGED vars
  BY <1>7 DEF vars, FreedByFreer, TypeOK
<1> HIDE DEF connVars, appVars, npVars, Goto, NpGoto, Call
<1> QED
  BY <1>1, <1>2, <1>3, <1>4, <1>5, <1>6, <1>7 DEF Next, AppCall, Finished

\* What a notifier holds is what it is about to report.
LEMMA HeldStep ==
  ASSUME TypeOK, TypeOK', HeldForCallback, NoOrphanNotifier, HandleState, [Next]_vars
  PROVE  HeldForCallback'
<1> USE DEF Goto, NpGoto, Call, connVars, appVars, npVars
<1>1. ASSUME NEW t \in Threads, AppStep(t) PROVE HeldForCallback'
  <2>1. CASE SetCallbackNew(t)
    <3>1. \A i \in Regs : ~Alive(i)
      BY <2>1, ConstAssumption DEF SetCallbackNew, NoOrphanNotifier, HandleState,
         ConstAssumption, Regs
    <3> QED
      BY <2>1, <3>1 DEF SetCallbackNew, HeldForCallback, Alive, TypeOK
  <2>2. CASE \/ SendLock(t) \/ SendPlist(t) \/ SendReturn(t)
             \/ SetCallbackLock(t) \/ SetCallbackStop(t) \/ SetCallbackJoin(t)
             \/ FreeSendShutdown(t) \/ FreeNullParent(t) \/ FreeJoin(t)
             \/ FreeReceive(t) \/ FreeClose(t)
    BY <2>2 DEF SendLock, SendPlist, SendReturn, SetCallbackLock,
      SetCallbackStop, SetCallbackJoin, FreeSendShutdown, FreeNullParent,
      FreeJoin, FreeReceive, FreeClose, HeldForCallback
  <2> QED
    BY <1>1, <2>1, <2>2 DEF AppStep
<1>2. ASSUME NEW t \in Threads, AppCall(t) PROVE HeldForCallback'
  BY <1>2 DEF AppCall, FreeCall, SendCall, SetCallbackCall, HeldForCallback
<1>3. ASSUME NEW i \in Regs, NotifierStep(i) PROVE HeldForCallback'
  <2>1. CASE NotifierReceiveEnd(i)
    BY <2>1, NamesAssumption DEF NotifierReceiveEnd, HeldForCallback, NamesAssumption, TypeOK
  <2>2. CASE NotifierCallback(i)
    BY <2>2 DEF NotifierCallback, HeldForCallback, TypeOK
  <2>3. CASE \/ NotifierHead(i) \/ NotifierEnter(i) \/ NotifierLock(i)
             \/ NotifierReceiveBegin(i) \/ NotifierPostLock(i)
             \/ NotifierPostSend(i) \/ NotifierFail(i) \/ NotifierSleep(i)
    BY <2>3 DEF NotifierHead, NotifierEnter, NotifierLock, NotifierReceiveBegin,
      NotifierPostLock, NotifierPostSend, NotifierFail, NotifierSleep,
      HeldForCallback, TypeOK
  <2> QED
    BY <1>3, <2>1, <2>2, <2>3 DEF NotifierStep
<1>4. CASE Device
  BY <1>4, DeviceStep DEF HeldForCallback
<1>5. CASE UNCHANGED vars
  BY <1>5 DEF vars, HeldForCallback
<1> HIDE DEF connVars, appVars, npVars, Goto, NpGoto, Call
<1> QED
  BY <1>1, <1>2, <1>3, <1>4, <1>5 DEF Next, Finished

-----------------------------------------------------------------------------
(* The theorems                                                            *)

\* The inductive invariant: holds at the start and through every step.
THEOREM Invariant == Spec => []IInv
<1>1. Init => MutexHeld /\ NoOrphanNotifier /\ FreerAlone /\ HandleState
              /\ SavedParent /\ ParentGivenBack /\ FreedByFreer
              /\ HeldForCallback
  BY ConstAssumption DEF Init, MutexHeld, NoOrphanNotifier, FreerAlone,
     HandleState, SavedParent, ParentGivenBack, FreedByFreer, ConstAssumption,
     HeldForCallback, Locked, NpLocked, Alive, FreePcs
<1>2. TypeOK /\ TypeOK' /\ IInv /\ [Next]_vars => IInv'
  BY MutexHeldStep, NoOrphanStep, FreerAloneStep, HandleStateStep,
     SavedParentStep, ParentGivenBackStep, FreedByFreerStep, HeldStep DEF IInv
<1>3. Init /\ TypeOK => IInv
  BY <1>1 DEF IInv
<1> QED
  BY <1>2, <1>3, TypeCorrect, PTL DEF Spec

\* At most one thread uses the connection between np_lock and np_unlock.
THEOREM MutexCorrect == Spec => []MutexHeld
BY Invariant, PTL DEF IInv

\* A running notifier is always the one client->notifier names.
THEOREM NoOrphanCorrect == Spec => []NoOrphanNotifier
BY Invariant, PTL DEF IInv

\* client->parent is always given back by np_set_notify_callback.
THEOREM ParentCorrect == Spec => []ParentGivenBack
BY Invariant, PTL DEF IInv

\* When the client is freed the notifier has been joined and every call has returned.
LEMMA FreedAlone == IInv => NoUseAfterFree
<1> SUFFICES ASSUME IInv, conn = "freed"
             PROVE  /\ \A i \in Regs : ~Alive(i)
                    /\ \A t \in Threads : apc[t] \in {"idle", "done"}
  BY DEF NoUseAfterFree
<1>1. PICK t \in Threads : apc[t] = "done"
  BY DEF IInv, FreedByFreer
<1>2. notifier = 0
  BY <1>1 DEF IInv, HandleState
<1>3. \A i \in Regs : ~Alive(i)
  BY <1>2, ConstAssumption DEF IInv, NoOrphanNotifier, Regs, ConstAssumption
<1>4. \A u \in Threads : u # t => apc[u] = "idle"
  BY <1>1, FreerIsAlone DEF IInv, FreePcs
<1> QED
  BY <1>1, <1>3, <1>4

\* After np_client_free nobody is inside the client any more.
THEOREM FreeCorrect == Spec => []NoUseAfterFree
BY FreedAlone, Invariant, PTL

\* A callback is made by the registered notifier only.
THEOREM CallbackCorrect == Spec => OnlyRegisteredCalled
<1>1. TypeOK /\ IInv /\ [Next]_vars
        => (delivered' # delivered => Last(delivered')[1] = notifier)
  <2> SUFFICES ASSUME TypeOK, IInv, [Next]_vars, delivered' # delivered
               PROVE  Last(delivered')[1] = notifier
    OBVIOUS
  <2>1. PICK i \in Regs : NotifierCallback(i) \/ NotifierFail(i)
    <3>1. ASSUME NEW t \in Threads, AppStep(t) PROVE delivered' = delivered
      BY <3>1 DEF AppStep, SendLock, SendPlist, SendReturn, SetCallbackLock,
         SetCallbackStop, SetCallbackJoin, SetCallbackNew, FreeSendShutdown,
         FreeNullParent, FreeJoin, FreeReceive, FreeClose, histVars
    <3>2. ASSUME NEW t \in Threads, AppCall(t) PROVE delivered' = delivered
      BY <3>2 DEF AppCall, SendCall, SetCallbackCall, FreeCall, histVars
    <3>3. ASSUME Device PROVE delivered' = delivered
      BY <3>3 DEF Device, DeviceRelay, DeviceJunk, DeviceLost, histVars
    <3>4. ASSUME NEW i \in Regs, NotifierStep(i),
                 ~NotifierCallback(i), ~NotifierFail(i)
          PROVE  delivered' = delivered
      BY <3>4 DEF NotifierStep, NotifierHead, NotifierEnter, NotifierLock,
         NotifierReceiveBegin, NotifierReceiveEnd, NotifierPostLock,
         NotifierPostSend, NotifierSleep, histVars
    <3>5. UNCHANGED vars => delivered' = delivered
      BY DEF vars, histVars
    <3> QED
      BY <3>1, <3>2, <3>3, <3>4, <3>5 DEF Next, Finished
  <2>2. i = notifier
    BY <2>1 DEF NotifierCallback, NotifierFail, IInv, NoOrphanNotifier, Alive
  <2>3. PICK n : delivered' = Append(delivered, <<i, n>>)
    BY <2>1 DEF NotifierCallback, NotifierFail
  <2>4. Last(delivered') = <<i, n>>
    <3>1. delivered \in Seq(Regs \X (Names \union {NoName}))
      BY DEF TypeOK
    <3> QED
      BY <2>3, <3>1 DEF Last
  <2> QED
    BY <2>2, <2>4
<1> QED
  BY <1>1, Invariant, TypeCorrect, PTL DEF Spec, OnlyRegisteredCalled

-----------------------------------------------------------------------------
(* Sequences that carry names: what appending and taking do to them        *)

\* The places of names are finitely many; a name's rank counts those up to it.
LEMMA PlacesFacts ==
  ASSUME NEW S, NEW q \in Seq(S)
  PROVE  /\ IsFiniteSet(Places(q)) /\ Cardinality(Places(q)) \in Nat
         /\ Places(q) \subseteq 1..Len(q)
         /\ \A p \in Places(q) : /\ Rank(q, p) \in 1..Cardinality(Places(q))
                                 /\ IsFiniteSet({k \in Places(q) : k <= p})
<1>1. Len(q) \in Nat /\ Places(q) \subseteq 1..Len(q)
  BY DEF Places
<1>2. IsFiniteSet(Places(q))
  <2>1. IsFiniteSet(1..Len(q))
    BY <1>1, FS_Interval
  <2> QED
    BY <1>1, <2>1, FS_Subset
<1>3. Cardinality(Places(q)) \in Nat
  BY <1>2, FS_CardinalityType
<1>4. ASSUME NEW p \in Places(q)
      PROVE  /\ Rank(q, p) \in 1..Cardinality(Places(q))
             /\ IsFiniteSet({k \in Places(q) : k <= p})
  <2> DEFINE U == {k \in Places(q) : k <= p}
  <2>1. U \in SUBSET Places(q) /\ p \in U
    BY <1>1
  <2> HIDE DEF U
  <2>2. IsFiniteSet(U) /\ Cardinality(U) <= Cardinality(Places(q))
    BY <1>2, <2>1, FS_Subset
  <2>3. Cardinality(U) \in Nat /\ Cardinality(U) # 0
    BY <2>1, <2>2, FS_CardinalityType, FS_EmptySet
  <2>4. Cardinality(U) \in 1..Cardinality(Places(q))
    BY <1>3, <2>2, <2>3
  <2> QED
    BY <2>2, <2>4 DEF U, Rank
<1> QED
  BY <1>1, <1>2, <1>3, <1>4

\* A set moved by one is as large.
LEMMA Moved ==
  ASSUME NEW A \in SUBSET Nat, IsFiniteSet(A), NEW B, B = {k + 1 : k \in A}
  PROVE  IsFiniteSet(B) /\ Cardinality(B) = Cardinality(A)
<1> DEFINE f == [k \in A |-> k + 1]
<1>1. f \in [A -> B] /\ \A k \in A : f[k] = k + 1
  OBVIOUS
<1> HIDE DEF f
<1>b. f \in Bijection(A, B)
  <2>1. \A j, k \in A : f[j] = f[k] => j = k
    BY <1>1
  <2>2. \A y \in B : \E k \in A : f[k] = y
    BY <1>1
  <2>3. f \in Injection(A, B)
    BY <1>1, <2>1 DEF Injection, IsInjective
  <2>4. f \in Surjection(A, B)
    BY <1>1, <2>2 DEF Surjection
  <2> QED
    BY <2>3, <2>4 DEF Bijection
<1>2. ExistsBijection(A, B)
  BY <1>b DEF ExistsBijection
<1> QED
  BY <1>2, FS_Bijection

\* Something else than a name at the end changes nothing.
LEMMA CarriesOther ==
  ASSUME NEW S, NEW q \in Seq(S), NEW x \in S, x \notin Names,
         NEW s, NEW from, NEW to, Carries(q, s, from, to)
  PROVE  Carries(Append(q, x), s, from, to)
<1>1. Len(q) \in Nat /\ Len(Append(q, x)) = Len(q) + 1
      /\ Append(q, x)[Len(q) + 1] = x
      /\ \A p \in 1..Len(q) : Append(q, x)[p] = q[p]
  OBVIOUS
<1>2. Places(Append(q, x)) = Places(q)
  BY <1>1 DEF Places
<1>3. \A p : Rank(Append(q, x), p) = Rank(q, p)
  BY <1>2 DEF Rank
<1>4. \A p \in Places(q) : Append(q, x)[p] = q[p]
  BY <1>1 DEF Places
<1> QED
  BY <1>2, <1>3, <1>4 DEF Carries

\* A name at the end is one more.
LEMMA CarriesName ==
  ASSUME NEW S, NEW q \in Seq(S), NEW x \in S, x \in Names,
         NEW s, NEW from \in Nat, NEW to \in Nat, Carries(q, s, from, to),
         NEW r, \A k \in 1..to : r[k] = s[k], r[to + 1] = x
  PROVE  Carries(Append(q, x), r, from, to + 1)
<1> DEFINE a == Append(q, x)
           n == Len(q) + 1
<1>1. Len(q) \in Nat /\ Len(a) = n /\ a[n] = x /\ \A p \in 1..Len(q) : a[p] = q[p]
  OBVIOUS
<1>2. a \in Seq(S)
  OBVIOUS
<1> HIDE DEF a
<1>3. Places(a) = Places(q) \cup {n} /\ n \notin Places(q)
  BY <1>1 DEF Places
<1>4. Cardinality(Places(a)) = Cardinality(Places(q)) + 1
  BY <1>3, PlacesFacts, FS_AddElement
<1>5. Cardinality(Places(q)) \in Nat /\ from + Cardinality(Places(q)) = to
  BY PlacesFacts DEF Carries
<1>6. ASSUME NEW p \in Places(q) PROVE a[p] = r[from + Rank(a, p)]
  <2>1. p \in 1..Len(q) /\ Rank(q, p) \in 1..Cardinality(Places(q))
    BY <1>6, PlacesFacts
  <2>2. {k \in Places(a) : k <= p} = {k \in Places(q) : k <= p}
    BY <1>1, <1>3, <2>1
  <2>3. Rank(a, p) = Rank(q, p)
    BY <2>2 DEF Rank
  <2>4. from + Rank(q, p) \in 1..to
    BY <1>5, <2>1
  <2>5. q[p] = s[from + Rank(q, p)]
    BY <1>6 DEF Carries
  <2> QED
    BY <1>1, <2>1, <2>3, <2>4, <2>5
<1>7. a[n] = r[from + Rank(a, n)]
  <2>1. {k \in Places(a) : k <= n} = Places(a)
    BY <1>1, <1>3, PlacesFacts
  <2>2. Rank(a, n) = Cardinality(Places(q)) + 1
    BY <1>4, <2>1 DEF Rank
  <2>3. from + Rank(a, n) = to + 1
    BY <1>5, <2>2
  <2> QED
    BY <1>1, <2>3
<1>8. from + Cardinality(Places(a)) = to + 1
  BY <1>4, <1>5
<1> QED
  BY <1>3, <1>6, <1>7, <1>8 DEF Carries, a

\* Taking the first element takes the first name, or no name.
LEMMA CarriesTail ==
  ASSUME NEW S, NEW q \in Seq(S), q # <<>>,
         NEW s, NEW from \in Nat, NEW to \in Nat, Carries(q, s, from, to)
  PROVE  IF Head(q) \in Names
         THEN from < to /\ Head(q) = s[from + 1] /\ Carries(Tail(q), s, from + 1, to)
         ELSE Carries(Tail(q), s, from, to)
<1> DEFINE t == Tail(q)
           P == Places(t)
           Q == Places(q) \ {1}
<1>1. /\ Len(q) \in Nat \ {0} /\ Len(t) = Len(q) - 1 /\ Head(q) = q[1]
      /\ \A p \in 1..Len(t) : t[p] = q[p + 1]
      /\ t \in Seq(S)
  OBVIOUS
<1> HIDE DEF t
<1>2. \A p : p \in P <=> p \in Nat /\ p + 1 \in Q
  <2>1. ASSUME NEW p \in P PROVE p \in Nat /\ p + 1 \in Q
    BY <1>1, <2>1 DEF Places
  <2>2. ASSUME NEW p \in Nat, p + 1 \in Q PROVE p \in P
    BY <1>1, <2>2 DEF Places
  <2> HIDE DEF P, Q
  <2> QED
    BY <2>1, <2>2
<1>q. \A p \in Q : p \in Nat /\ p - 1 \in Nat /\ (p - 1) + 1 = p
  BY <1>1 DEF Places
<1>p. P \in SUBSET Nat /\ Q \in SUBSET Nat
  BY <1>1, <1>q DEF Places
<1> HIDE DEF P, Q
<1>3. P \in SUBSET Nat /\ Q \in SUBSET Nat /\ \A p \in Q : p - 1 \in P /\ (p - 1) + 1 = p
  BY <1>2, <1>q, <1>p
<1>4. IsFiniteSet(P) /\ IsFiniteSet(Places(q)) /\ Cardinality(Places(q)) \in Nat
  BY <1>1, PlacesFacts DEF P
<1>5. Q = {k + 1 : k \in P}
  BY <1>2, <1>3
<1>6. Cardinality(Q) = Cardinality(P) /\ Cardinality(P) \in Nat
  BY <1>3, <1>4, <1>5, Moved, FS_CardinalityType
<1>7. ASSUME NEW p \in P
      PROVE  /\ {k \in Q : k <= p + 1} = {k + 1 : k \in {j \in P : j <= p}}
             /\ Cardinality({k \in Q : k <= p + 1}) = Rank(t, p)
             /\ Rank(t, p) \in Nat
  <2>1. {k \in Q : k <= p + 1} = {k + 1 : k \in {j \in P : j <= p}}
    BY <1>3, <1>5
  <2>2. IsFiniteSet({j \in P : j <= p}) /\ {j \in P : j <= p} \in SUBSET Nat
    BY <1>1, <1>3, PlacesFacts DEF P
  <2>3. Cardinality({k \in Q : k <= p + 1}) = Cardinality({j \in P : j <= p})
    BY <2>1, <2>2, Moved
  <2>4. Rank(t, p) = Cardinality({j \in P : j <= p})
    BY DEF Rank, P
  <2> QED
    BY <2>1, <2>2, <2>3, <2>4, FS_CardinalityType
<1>8. from + Cardinality(Places(q)) = to /\ \A p \in Places(q) : q[p] = s[from + Rank(q, p)]
  BY DEF Carries
<1>9. CASE Head(q) \in Names
  <2>1. 1 \in Places(q)
    BY <1>1, <1>9 DEF Places
  <2>2. Cardinality(Places(q)) = Cardinality(P) + 1
    <3>1. Cardinality(Q) = Cardinality(Places(q)) - 1
      BY <1>4, <2>1, FS_RemoveElement DEF Q
    <3> QED
      BY <1>4, <1>6, <3>1
  <2>3. from < to /\ (from + 1) + Cardinality(P) = to
    BY <1>6, <1>8, <2>2
  <2>4. Rank(q, 1) = 1
    <3>1. {k \in Places(q) : k <= 1} = {1}
      BY <1>1, <2>1 DEF Places
    <3> QED
      BY <3>1, FS_Singleton DEF Rank
  <2>5. Head(q) = s[from + 1]
    BY <1>1, <1>8, <2>1, <2>4
  <2>6. ASSUME NEW p \in P PROVE t[p] = s[(from + 1) + Rank(t, p)]
    <3>1. p \in Nat /\ p + 1 \in Q /\ p + 1 \in Places(q) /\ p \in 1..Len(t)
      BY <1>1, <1>3, <1>5 DEF P, Q, Places
    <3>2. {k \in Places(q) : k <= p + 1} = {k \in Q : k <= p + 1} \cup {1}
      BY <2>1, <3>1 DEF Q
    <3>3. 1 \notin {k \in Q : k <= p + 1}
      BY DEF Q
    <3>4. IsFiniteSet({k \in Q : k <= p + 1})
      <4>1. {k \in Q : k <= p + 1} \in SUBSET Places(q)
        BY DEF Q
      <4> QED
        BY <1>4, <4>1, FS_Subset
    <3>5. Rank(q, p + 1) = Rank(t, p) + 1
      BY <1>7, <3>2, <3>3, <3>4, FS_AddElement DEF Rank
    <3>6. q[p + 1] = s[from + Rank(q, p + 1)]
      BY <1>8, <3>1
    <3>7. from + Rank(q, p + 1) = (from + 1) + Rank(t, p)
      <4>1. Rank(t, p) \in Nat
        BY <1>7
      <4> HIDE DEF t
      <4> QED
        BY <3>5, <4>1
    <3> QED
      BY <1>1, <3>1, <3>6, <3>7
  <2> QED
    BY <1>9, <2>3, <2>5, <2>6 DEF Carries, P, t
<1>10. CASE Head(q) \notin Names
  <2>1. Q = Places(q)
    BY <1>1, <1>10 DEF Places, Q
  <2>2. ASSUME NEW p \in P PROVE t[p] = s[from + Rank(t, p)]
    <3>1. p + 1 \in Places(q) /\ p \in 1..Len(t)
      BY <1>5, <2>1 DEF P, Places
    <3>2. Rank(q, p + 1) = Rank(t, p)
      BY <1>7, <2>1 DEF Rank
    <3>3. q[p + 1] = s[from + Rank(q, p + 1)]
      BY <1>8, <3>1
    <3> QED
      BY <1>1, <3>1, <3>2, <3>3
  <2> QED
    BY <1>6, <1>8, <1>10, <2>1, <2>2 DEF Carries, P, t
<1> QED
  BY <1>9, <1>10

-----------------------------------------------------------------------------
(* What a step does to the callback and to the notifications: one of nine  *)
(* things.                                                                 *)

Freed == conn = "freed"
Pending == InHand \o SubSeq(sent, taken + 1, Len(sent))

\* Nothing, at most another message arrives or is taken
Quiet ==
  /\ UNCHANGED <<notifier, sent, taken, delivered, InHand, Freed>>
  /\ \/ inbox' = inbox
     \/ \E m \in Messages : m \notin Names /\ inbox' = Append(inbox, m)
     \/ inbox # <<>> /\ Head(inbox) \notin Names /\ inbox' = Tail(inbox)

\* A callback is registered or removed, with nothing in hand
Registers ==
  /\ notifier = 0 /\ notifier' \in Regs /\ ~Freed /\ InHand = <<>>
  /\ UNCHANGED <<inbox, sent, taken, delivered, InHand, Freed>>
Removes ==
  /\ notifier # 0 /\ notifier' = 0 /\ ~Freed /\ InHand = <<>>
  /\ UNCHANGED <<inbox, sent, taken, delivered, InHand, Freed>>

\* A name arrives, is taken in hand, is told to the callback
Relays(n) ==
  /\ ~Freed /\ inbox' = Append(inbox, n) /\ sent' = Append(sent, n)
  /\ UNCHANGED <<notifier, taken, delivered, InHand, Freed>>
Takes ==
  /\ inbox # <<>> /\ Head(inbox) \in Names /\ inbox' = Tail(inbox)
  /\ taken' = taken + 1 /\ InHand = <<>> /\ InHand' = <<Head(inbox)>>
  /\ UNCHANGED <<notifier, sent, delivered, Freed>>
Reports(n) ==
  /\ notifier # 0 /\ InHand = <<n>> /\ InHand' = <<>>
  /\ delivered' = Append(delivered, <<notifier, n>>)
  /\ UNCHANGED <<notifier, inbox, sent, taken, Freed>>

\* The error is told
Fails ==
  /\ notifier # 0 /\ delivered' = Append(delivered, <<notifier, NoName>>)
  /\ UNCHANGED <<notifier, inbox, sent, taken, InHand, Freed>>

\* np_client_free throws a name away, and closes
Drops ==
  /\ notifier = 0 /\ ~Freed /\ InHand = <<>> /\ Drained'
  /\ inbox # <<>> /\ Head(inbox) \in Names /\ inbox' = Tail(inbox)
  /\ taken' = taken + 1
  /\ UNCHANGED <<notifier, sent, delivered, InHand, Freed>>
Closes ==
  /\ notifier = 0 /\ Freed'
  /\ UNCHANGED <<notifier, inbox, sent, taken, delivered, InHand>>

Kinds ==
  /\ Drained => Drained'
  /\ \/ Quiet \/ Registers \/ Removes \/ Takes \/ Fails \/ Drops \/ Closes
     \/ \E n \in Names : Relays(n) \/ Reports(n)

\* A notification is in hand only while the registered notifier holds it.
LEMMA HandFacts ==
  ASSUME IInv
  PROVE  /\ notifier = 0 => InHand = <<>>
         /\ \A i \in Regs : Alive(i) => i = notifier /\ notifier # 0 /\ ~Freed
         /\ \A i \in Regs : ~Alive(i) => held[i] = NoName
         /\ notifier # 0 => notifier \in Regs
         /\ notifier # 0 /\ npc[notifier] # "cb" => InHand = <<>>
         /\ \A t \in Threads : apc[t] \notin {"idle", "done"} => ~Freed
<1>1. TypeOK /\ HeldForCallback /\ NoOrphanNotifier /\ NoUseAfterFree
  BY FreedAlone DEF IInv
<1>2. notifier # 0 => notifier \in Regs
  BY <1>1, ConstAssumption DEF TypeOK, ConstAssumption, Regs
<1>3. \A i \in Regs : i # 0
  BY ConstAssumption DEF ConstAssumption, Regs
<1>4. \A i \in Regs : Alive(i) => i = notifier /\ notifier # 0 /\ ~Freed
  BY <1>1, <1>3 DEF NoOrphanNotifier, NoUseAfterFree, Freed
<1>5. \A i \in Regs : ~Alive(i) => held[i] = NoName
  BY <1>1 DEF HeldForCallback, Alive
<1>6. notifier # 0 /\ npc[notifier] # "cb" => InHand = <<>>
  BY <1>1, <1>2 DEF HeldForCallback, InHand
<1>7. \A t \in Threads : apc[t] \notin {"idle", "done"} => ~Freed
  BY <1>1 DEF NoUseAfterFree, Freed
<1> QED
  BY <1>2, <1>4, <1>5, <1>6, <1>7 DEF InHand

\* A step of a thread that stays where it is, or moves on.
LEMMA DrainedStays ==
  ASSUME TypeOK, NEW t \in Threads, NEW pc, apc' = [apc EXCEPT ![t] = pc],
         apc[t] = "free_close" => pc = "done", apc[t] # "done"
  PROVE  Drained => Drained'
BY DEF Drained, TypeOK

\* Every step of an application thread is one of the nine.
LEMMA AppKinds ==
  ASSUME IInv, NEW t \in Threads, AppStep(t)
  PROVE  Kinds
<1> USE DEF connVars, appVars, npVars, histVars, Goto, NpGoto, Call
<1>0. TypeOK
  BY DEF IInv
<1>1. CASE SendLock(t)
  BY <1>0, <1>1, DrainedStays DEF SendLock, Kinds, Quiet, InHand, Freed
<1>2. CASE SendPlist(t)
  BY <1>2 DEF SendPlist, Kinds, Quiet, InHand, Freed, Drained
<1>3. CASE SendReturn(t)
  BY <1>0, <1>3, DrainedStays DEF SendReturn, Kinds, Quiet, InHand, Freed
<1>4. CASE SetCallbackLock(t)
  BY <1>0, <1>4, DrainedStays DEF SetCallbackLock, Kinds, Quiet, InHand, Freed
<1>5. CASE SetCallbackStop(t)
  <2>1. \E pc : apc' = [apc EXCEPT ![t] = pc]
    BY <1>5 DEF SetCallbackStop
  <2>2. Drained => Drained'
    BY <1>0, <1>5, <2>1, DrainedStays DEF SetCallbackStop
  <2> QED
    BY <1>5, <2>2 DEF SetCallbackStop, Kinds, Quiet, InHand, Freed
<1>6. CASE SetCallbackJoin(t)
  <2>1. Drained => Drained'
    BY <1>0, <1>6, DrainedStays DEF SetCallbackJoin
  <2>2. notifier # 0 /\ ~Freed /\ InHand = <<>>
    BY <1>6, HandFacts DEF SetCallbackJoin, IInv, HandleState
  <2>3. notifier' = 0 /\ InHand' = <<>>
    BY <1>6 DEF SetCallbackJoin, InHand
  <2> QED
    BY <1>6, <2>1, <2>2, <2>3 DEF SetCallbackJoin, Kinds, Removes, Freed
<1>7. CASE SetCallbackNew(t)
  <2>1. Drained => Drained'
    BY <1>0, <1>7, DrainedStays DEF SetCallbackNew
  <2>2. notifier = 0 /\ ~Freed /\ InHand = <<>>
    BY <1>7, HandFacts DEF SetCallbackNew, IInv, HandleState
  <2>3. CASE wanted[t] # 0 /\ notifier' = wanted[t]
    <3>1. wanted[t] \in Regs
      BY <1>0, <2>3, ConstAssumption DEF TypeOK, ConstAssumption, Regs
    <3>2. held[wanted[t]] = NoName
      BY <2>2, <3>1, HandFacts
    <3>3. InHand' = <<>>
      BY <1>7, <2>3, <3>2 DEF SetCallbackNew, InHand
    <3> QED
      BY <1>7, <2>1, <2>2, <2>3, <3>1, <3>3 DEF SetCallbackNew, Kinds, Registers, Freed
  <2>4. CASE notifier' = notifier
    BY <1>7, <2>1, <2>4 DEF SetCallbackNew, Kinds, Quiet, InHand, Freed
  <2> QED
    BY <1>7, <2>3, <2>4 DEF SetCallbackNew
<1>8. CASE FreeSendShutdown(t)
  <2>1. Drained => Drained'
    BY <1>0, <1>8, DrainedStays DEF FreeSendShutdown
  <2>2. ProxyDeath \in Messages /\ ProxyDeath \notin Names
    BY NamesAssumption DEF NamesAssumption, Messages
  <2> QED
    BY <1>8, <2>1, <2>2 DEF FreeSendShutdown, Kinds, Quiet, InHand, Freed
<1>9. CASE FreeNullParent(t)
  <2>1. Drained => Drained'
    BY <1>0, <1>9, DrainedStays DEF FreeNullParent
  <2> QED
    BY <1>9, <2>1 DEF FreeNullParent, Kinds, Quiet, InHand, Freed
<1>10. CASE FreeJoin(t)
  <2>1. Drained => Drained'
    BY <1>0, <1>10, DrainedStays DEF FreeJoin
  <2>2. notifier # 0 /\ ~Freed /\ InHand = <<>>
    BY <1>10, HandFacts DEF FreeJoin, IInv, HandleState
  <2>3. notifier' = 0 /\ InHand' = <<>>
    BY <1>10 DEF FreeJoin, InHand
  <2> QED
    BY <1>10, <2>1, <2>2, <2>3 DEF FreeJoin, Kinds, Removes, Freed
<1>11. CASE FreeReceive(t)
  <2>1. Drained'
    BY <1>0, <1>11 DEF FreeReceive, Drained, TypeOK
  <2>2. notifier = 0 /\ ~Freed /\ InHand = <<>>
    BY <1>11, HandFacts DEF FreeReceive, IInv, HandleState
  <2>3. UNCHANGED <<notifier, sent, delivered, InHand, Freed>>
    BY <1>11 DEF FreeReceive, InHand, Freed
  <2>4. CASE inbox # <<>> /\ Head(inbox) \in Names
    BY <1>11, <2>1, <2>2, <2>3, <2>4 DEF FreeReceive, Kinds, Drops
  <2>5. CASE ~(inbox # <<>> /\ Head(inbox) \in Names)
    BY <1>11, <2>1, <2>3, <2>5 DEF FreeReceive, Kinds, Quiet
  <2> QED
    BY <2>4, <2>5
<1>12. CASE FreeClose(t)
  <2>1. Drained => Drained'
    BY <1>0, <1>12, DrainedStays DEF FreeClose
  <2>2. notifier = 0
    BY <1>12 DEF FreeClose, IInv, HandleState
  <2> QED
    BY <1>12, <2>1, <2>2 DEF FreeClose, Kinds, Closes, InHand, Freed
<1> QED
  BY <1>1, <1>2, <1>3, <1>4, <1>5, <1>6, <1>7, <1>8, <1>9, <1>10, <1>11, <1>12
  DEF AppStep

\* Every step of a notifier is one of the nine.
LEMMA NotifierKinds ==
  ASSUME IInv, NEW i \in Regs, NotifierStep(i)
  PROVE  Kinds
<1> USE DEF connVars, appVars, npVars, histVars, NpGoto
<1>0. TypeOK /\ NoName \notin Names
  BY NamesAssumption DEF IInv, NamesAssumption
<1>1. CASE \/ NotifierHead(i) \/ NotifierEnter(i) \/ NotifierLock(i)
           \/ NotifierReceiveBegin(i) \/ NotifierPostLock(i)
           \/ NotifierPostSend(i) \/ NotifierSleep(i)
  BY <1>1 DEF NotifierHead, NotifierEnter, NotifierLock, NotifierReceiveBegin,
     NotifierPostLock, NotifierPostSend, NotifierSleep, Kinds, Quiet, InHand, Freed,
     Drained
<1>2. CASE NotifierReceiveEnd(i)
  <2>1. Alive(i) /\ npc[i] # "cb"
    BY <1>2 DEF NotifierReceiveEnd, Alive
  <2>2. i = notifier /\ notifier # 0 /\ InHand = <<>>
    BY <2>1, HandFacts
  <2>3. UNCHANGED <<notifier, sent, delivered, Freed, Drained>>
    BY <1>2 DEF NotifierReceiveEnd, Freed, Drained
  <2>4. CASE inbox # <<>> /\ Head(inbox) \in Names
    <3>1. held' = [held EXCEPT ![i] = Head(inbox)]
      BY <1>2, <2>4 DEF NotifierReceiveEnd
    <3>2. held'[notifier'] = Head(inbox) /\ Head(inbox) # NoName
      BY <1>0, <2>2, <2>3, <2>4, <3>1 DEF TypeOK
    <3>3. InHand' = <<Head(inbox)>>
      BY <2>2, <2>3, <3>2 DEF InHand
    <3> QED
      BY <1>2, <2>2, <2>3, <2>4, <3>3 DEF NotifierReceiveEnd, Kinds, Takes
  <2>5. CASE ~(inbox # <<>> /\ Head(inbox) \in Names)
    <3>1. UNCHANGED <<held, taken>>
      BY <1>2, <2>5 DEF NotifierReceiveEnd
    <3>2. InHand' = InHand
      BY <2>3, <3>1 DEF InHand
    <3> QED
      BY <1>2, <2>3, <2>5, <3>1, <3>2 DEF NotifierReceiveEnd, Kinds, Quiet
  <2> QED
    BY <2>4, <2>5
<1>3. CASE NotifierCallback(i)
  <2>1. Alive(i) /\ held[i] # NoName
    BY <1>3 DEF NotifierCallback, Alive, IInv, HeldForCallback
  <2>2. i = notifier /\ notifier # 0 /\ held[i] \in Names
    BY <1>0, <2>1, HandFacts DEF TypeOK
  <2>3. InHand = <<held[i]>>
    BY <2>1, <2>2 DEF InHand
  <2>4. held'[i] = NoName /\ notifier' = notifier
    BY <1>0, <1>3 DEF NotifierCallback, TypeOK
  <2>5. InHand' = <<>>
    BY <2>2, <2>4 DEF InHand
  <2>6. delivered' = Append(delivered, <<notifier, held[i]>>)
        /\ UNCHANGED <<notifier, inbox, sent, taken, Freed, Drained>>
    BY <1>3, <2>2 DEF NotifierCallback, Freed, Drained
  <2> QED
    BY <2>2, <2>3, <2>5, <2>6 DEF Kinds, Reports
<1>4. CASE NotifierFail(i)
  <2>1. i = notifier /\ notifier # 0
    BY <1>4, HandFacts DEF NotifierFail, Alive
  <2> QED
    BY <1>4, <2>1 DEF NotifierFail, Kinds, Fails, InHand, Freed, Drained
<1> QED
  BY <1>1, <1>2, <1>3, <1>4 DEF NotifierStep

\* Every step is one of the nine.
LEMMA StepKinds ==
  ASSUME IInv, [Next]_vars
  PROVE  Kinds
<1> USE DEF connVars, appVars, npVars, histVars, Goto, Call
<1>1. ASSUME NEW t \in Threads, AppCall(t) PROVE Kinds
  <2>1. \E pc : apc' = [apc EXCEPT ![t] = pc]
    BY <1>1 DEF AppCall, SendCall, SetCallbackCall, FreeCall
  <2>2. Drained => Drained'
    BY <1>1, <2>1, DrainedStays DEF AppCall, SendCall, SetCallbackCall, FreeCall, IInv
  <2> QED
    BY <1>1, <2>2 DEF AppCall, SendCall, SetCallbackCall, FreeCall, Kinds, Quiet,
       InHand, Freed
<1>2. ASSUME NEW n \in Names, DeviceRelay(n) PROVE Kinds
  BY <1>2 DEF DeviceRelay, Kinds, Relays, InHand, Freed, Drained
<1>3. CASE DeviceJunk
  <2>1. Junk \in Messages /\ Junk \notin Names
    BY NamesAssumption DEF NamesAssumption, Messages
  <2> QED
    BY <1>3, <2>1 DEF DeviceJunk, Kinds, Quiet, InHand, Freed, Drained
<1>4. CASE DeviceLost
  BY <1>4 DEF DeviceLost, Kinds, Quiet, InHand, Freed, Drained
<1>5. CASE UNCHANGED vars
  BY <1>5 DEF vars, Kinds, Quiet, InHand, Freed, Drained
<1> HIDE DEF connVars, appVars, npVars, histVars, Goto, Call
<1> QED
  BY <1>1, <1>2, <1>3, <1>4, <1>5, AppKinds, NotifierKinds DEF Next, Device, Finished

-----------------------------------------------------------------------------
(* No notification is lost                                                 *)

\* What the callbacks were told, one more.
LEMMA ToldGrows ==
  ASSUME TypeOK, NEW x \in Names \union {NoName}, NEW i \in Regs,
         delivered' = Append(delivered, <<i, x>>)
  PROVE  /\ Told \in Seq(Names \union {NoName})
         /\ Told' = Append(Told, x)
<1>1. delivered \in Seq(Regs \X (Names \union {NoName}))
  BY DEF TypeOK
<1>2. Len(delivered) \in Nat
      /\ \A k \in 1..Len(delivered) : delivered[k][2] \in Names \union {NoName}
  BY <1>1
<1>3. Told \in Seq(Names \union {NoName}) /\ Len(Told) = Len(delivered)
  BY <1>2 DEF Told
<1>4. /\ Len(delivered') = Len(delivered) + 1
      /\ \A k \in 1..Len(delivered) : delivered'[k] = delivered[k]
      /\ delivered'[Len(delivered) + 1] = <<i, x>>
  BY <1>1
<1>5. Told' = [k \in 1..(Len(delivered) + 1) |-> delivered'[k][2]]
  BY <1>4 DEF Told
<1>6. /\ Told' \in Seq(Names \union {NoName}) /\ Len(Told') = Len(Told) + 1
      /\ \A k \in 1..Len(Told) : Told'[k] = Told[k]
      /\ Told'[Len(Told) + 1] = x
  BY <1>2, <1>3, <1>4, <1>5 DEF Told
<1> HIDE DEF Told
<1>7. Append(Told, x) \in Seq(Names \union {NoName}) /\ Len(Append(Told, x)) = Len(Told) + 1
      /\ \A k \in 1..Len(Told) : Append(Told, x)[k] = Told[k]
      /\ Append(Told, x)[Len(Told) + 1] = x
  BY <1>3
<1>8. /\ Len(Told') = Len(Append(Told, x))
      /\ \A k \in 1..Len(Told') : Told'[k] = Append(Told, x)[k]
  BY <1>2, <1>3, <1>6, <1>7
<1> QED
  BY <1>3, <1>6, <1>7, <1>8, SeqEqual

\* How many names there are, and how many of them are told.
LEMMA LostFacts ==
  ASSUME TypeOK, NothingLost
  PROVE  /\ Len(sent) \in Nat /\ taken \in 0..Len(sent)
         /\ ~Drained => taken - Len(InHand) \in 0..Len(sent)
         /\ Len(InHand) \in {0, 1}
         /\ inbox \in Seq(Messages) /\ sent \in Seq(Names)
         /\ Told \in Seq(Names \union {NoName})
<1>1. inbox \in Seq(Messages) /\ sent \in Seq(Names) /\ taken \in Nat
      /\ delivered \in Seq(Regs \X (Names \union {NoName}))
  BY DEF TypeOK
<1>2. Len(sent) \in Nat
  BY <1>1
<1>3. Told \in Seq(Names \union {NoName})
  <2>1. Len(delivered) \in Nat
        /\ \A k \in 1..Len(delivered) : delivered[k][2] \in Names \union {NoName}
    BY <1>1
  <2> QED
    BY <2>1 DEF Told
<1>4. Cardinality(Places(inbox)) \in Nat /\ Cardinality(Places(Told)) \in Nat
  BY <1>1, <1>3, PlacesFacts
<1>5. taken + Cardinality(Places(inbox)) = Len(sent)
  BY DEF NothingLost, Carries
<1>6. ~Drained => 0 + Cardinality(Places(Told)) = taken - Len(InHand)
  BY DEF NothingLost, Carries
<1>7. Len(InHand) \in {0, 1}
  BY DEF InHand
<1>8. taken \in 0..Len(sent)
  BY <1>1, <1>2, <1>4, <1>5
<1>9. ~Drained => taken - Len(InHand) \in 0..Len(sent)
  BY <1>2, <1>4, <1>6, <1>7, <1>8
<1> QED
  BY <1>1, <1>2, <1>3, <1>7, <1>8, <1>9

\* No step loses a notification, tells it twice or out of turn.
LEMMA LostStep ==
  ASSUME TypeOK, NothingLost, Kinds
  PROVE  NothingLost'
<1> DEFINE W == Carries(inbox, sent, taken, Len(sent))
           T == Carries(Told, sent, 0, taken - Len(InHand))
           H == InHand # <<>> => InHand[1] = sent[taken]
<1>0. NothingLost <=> W /\ (~Drained => T /\ H)
  BY DEF NothingLost
<1>p. NothingLost' <=> W' /\ (~Drained' => T' /\ H')
  BY DEF NothingLost
<1>d. Drained => Drained'
  BY DEF Kinds
<1>f. /\ Len(sent) \in Nat /\ taken \in 0..Len(sent)
      /\ ~Drained => taken - Len(InHand) \in 0..Len(sent)
      /\ Len(InHand) \in {0, 1}
      /\ inbox \in Seq(Messages) /\ sent \in Seq(Names)
      /\ Told \in Seq(Names \union {NoName})
  BY LostFacts
<1>t. UNCHANGED delivered => UNCHANGED Told
  BY DEF Told
<1>1. CASE Quiet
  <2>1. W'
    <3>1. UNCHANGED <<sent, taken>>
      BY <1>1 DEF Quiet
    <3>2. Carries(inbox', sent, taken, Len(sent))
      <4>1. ASSUME NEW m \in Messages, m \notin Names
            PROVE  Carries(Append(inbox, m), sent, taken, Len(sent))
        BY <1>0, <1>f, <4>1, CarriesOther
      <4>2. ASSUME inbox # <<>>, Head(inbox) \notin Names
            PROVE  Carries(Tail(inbox), sent, taken, Len(sent))
        BY <1>0, <1>f, <4>2, CarriesTail
      <4> QED
        BY <1>0, <1>1, <4>1, <4>2 DEF Quiet
    <3> QED
      BY <3>1, <3>2
  <2>2. UNCHANGED <<Told, sent, taken, InHand>>
    BY <1>1, <1>t DEF Quiet
  <2> QED
    BY <1>0, <1>p, <1>d, <2>1, <2>2
<1>2. CASE Registers \/ Removes \/ Closes
  <2>1. UNCHANGED <<Told, sent, taken, InHand, inbox>>
    BY <1>2, <1>t DEF Registers, Removes, Closes
  <2> QED
    BY <1>0, <1>p, <1>d, <2>1
<1>3. CASE Takes
  <2>1. Carries(Tail(inbox), sent, taken + 1, Len(sent)) /\ Head(inbox) = sent[taken + 1]
    BY <1>0, <1>3, <1>f, CarriesTail DEF Takes
  <2>2. W'
    BY <1>3, <2>1 DEF Takes
  <2>3. H'
    BY <1>3, <2>1 DEF Takes
  <2>4. ~Drained => T'
    <3>1. taken' - Len(InHand') = taken - Len(InHand)
      BY <1>3, <1>f DEF Takes
    <3> QED
      BY <1>0, <1>3, <1>t, <3>1 DEF Takes
  <2> QED
    BY <1>p, <1>d, <2>2, <2>3, <2>4
<1>4. CASE Fails
  <2>1. UNCHANGED <<inbox, sent, taken, InHand>>
    BY <1>4 DEF Fails
  <2>2. ~Drained => T'
    <3>1. notifier \in Regs
      BY <1>4, ConstAssumption DEF Fails, TypeOK, ConstAssumption, Regs
    <3>2. Told' = Append(Told, NoName)
      BY <1>4, <3>1, ToldGrows DEF Fails
    <3>3. NoName \notin Names
      BY NamesAssumption DEF NamesAssumption
    <3>4. T => Carries(Append(Told, NoName), sent, 0, taken - Len(InHand))
      BY <1>f, <3>3, CarriesOther
    <3> QED
      BY <1>0, <2>1, <3>2, <3>4
  <2> QED
    BY <1>0, <1>p, <1>d, <2>1, <2>2
<1>5. CASE Drops
  <2>1. Carries(Tail(inbox), sent, taken + 1, Len(sent))
    BY <1>0, <1>5, <1>f, CarriesTail DEF Drops
  <2> QED
    BY <1>5, <1>p, <2>1 DEF Drops
<1>6. ASSUME NEW n \in Names, Relays(n) PROVE NothingLost'
  <2>1. Len(sent') = Len(sent) + 1 /\ sent'[Len(sent) + 1] = n
        /\ \A k \in 1..Len(sent) : sent'[k] = sent[k]
    BY <1>6, <1>f DEF Relays
  <2>2. W'
    <3>1. n \in Messages
      BY DEF Messages
    <3>2. Carries(Append(inbox, n), sent', taken, Len(sent) + 1)
      BY <1>0, <1>f, <2>1, <3>1, CarriesName
    <3> QED
      BY <1>6, <2>1, <3>2 DEF Relays
  <2>3. ~Drained => T'
    <3>1. ASSUME ~Drained, NEW p \in Places(Told)
          PROVE  Told[p] = sent'[0 + Rank(Told, p)]
      <4>0. Rank(Told, p) \in 1..Cardinality(Places(Told))
            /\ Cardinality(Places(Told)) \in Nat
        BY <1>f, <3>1, PlacesFacts
      <4>1. 0 + Cardinality(Places(Told)) = taken - Len(InHand)
            /\ Told[p] = sent[0 + Rank(Told, p)]
        BY <1>0, <3>1 DEF Carries
      <4>2. 0 + Rank(Told, p) \in 1..Len(sent)
        BY <1>f, <3>1, <4>0, <4>1
      <4> QED
        BY <2>1, <4>1, <4>2
    <3>2. ~Drained => Carries(Told, sent', 0, taken - Len(InHand))
      BY <1>0, <3>1 DEF Carries
    <3> QED
      BY <1>6, <1>t, <3>2 DEF Relays
  <2>4. ~Drained => H'
    <3>1. ~Drained /\ InHand # <<>> => taken \in 1..Len(sent)
      <4>1. InHand # <<>> => Len(InHand) = 1
        BY DEF InHand
      <4> QED
        BY <1>f, <4>1
    <3> QED
      BY <1>0, <1>6, <2>1, <3>1 DEF Relays
  <2> QED
    BY <1>p, <1>d, <2>2, <2>3, <2>4
<1>7. ASSUME NEW n \in Names, Reports(n) PROVE NothingLost'
  <2>1. UNCHANGED <<inbox, sent, taken>>
    BY <1>7 DEF Reports
  <2>2. InHand' = <<>>
    BY <1>7 DEF Reports
  <2>3. ~Drained => T'
    <3>1. notifier \in Regs
      BY <1>7, ConstAssumption DEF Reports, TypeOK, ConstAssumption, Regs
    <3>2. Told' = Append(Told, n)
      BY <1>7, <3>1, ToldGrows DEF Reports
    <3>3. ASSUME ~Drained PROVE Carries(Append(Told, n), sent, 0, taken)
      <4>1. Len(InHand) = 1 /\ InHand[1] = n
        BY <1>7 DEF Reports
      <4>2. taken - 1 \in Nat /\ (taken - 1) + 1 = taken /\ sent[taken] = n
            /\ Carries(Told, sent, 0, taken - 1)
        BY <1>0, <1>f, <3>3, <4>1, <1>7 DEF Reports
      <4> QED
        BY <1>f, <4>2, CarriesName
    <3>4. taken' - Len(InHand') = taken
      BY <1>f, <2>1, <2>2
    <3> QED
      BY <2>1, <3>2, <3>3, <3>4
  <2> QED
    BY <1>0, <1>p, <1>d, <2>1, <2>2, <2>3
<1> QED
  BY <1>1, <1>2, <1>3, <1>4, <1>5, <1>6, <1>7 DEF Kinds

\* Nothing is lost, told twice or out of order, through any change of callback.
THEOREM Delivery == Spec => []NothingLost
<1>1. Init => NothingLost
  <2> SUFFICES ASSUME Init PROVE NothingLost
    OBVIOUS
  <2>1. InHand = <<>> /\ inbox = <<>> /\ sent = <<>> /\ taken = 0 /\ Told = <<>>
    BY DEF Init, InHand, Told
  <2>2. Places(inbox) = {} /\ Places(Told) = {}
    BY <2>1 DEF Places
  <2>3. Carries(inbox, sent, taken, Len(sent)) /\ Carries(Told, sent, 0, taken - Len(InHand))
    BY <2>1, <2>2, FS_EmptySet DEF Carries
  <2> QED
    BY <2>1, <2>3 DEF NothingLost
<1>2. TypeOK /\ IInv /\ NothingLost /\ [Next]_vars => NothingLost'
  BY StepKinds, LostStep
<1> QED
  BY <1>1, <1>2, TypeCorrect, Invariant, PTL DEF Spec

-----------------------------------------------------------------------------
(* The client implements NotifyCallback                                    *)

\* How the names that are not reported yet change.
LEMMA PendingFacts ==
  ASSUME TypeOK, NothingLost, Kinds
  PROVE  /\ Registers \/ Removes \/ Quiet \/ Closes \/ Fails => Pending' = Pending
         /\ Takes => Pending' = Pending
         /\ Drops => Pending # <<>> /\ Pending' = Tail(Pending)
         /\ \A n \in Names : Relays(n) => Pending' = Append(Pending, n)
         /\ \A n \in Names : Reports(n) => /\ Pending # <<>> /\ Head(Pending) = n
                                           /\ Pending' = Tail(Pending)
<1> DEFINE Rest == SubSeq(sent, taken + 1, Len(sent))
<1>f. /\ Len(sent) \in Nat /\ taken \in 0..Len(sent)
      /\ inbox \in Seq(Messages) /\ sent \in Seq(Names)
  BY LostFacts
<1>h. InHand \in Seq(Names) /\ Rest \in Seq(Names)
  <2>1. held \in [Regs -> Names \union {NoName}] /\ notifier # 0 => notifier \in Regs
    BY ConstAssumption DEF TypeOK, ConstAssumption, Regs
  <2>2. InHand \in Seq(Names)
    BY <2>1 DEF TypeOK, InHand
  <2> QED
    BY <1>f, <2>2
<1>1. Registers \/ Removes \/ Quiet \/ Closes \/ Fails => Pending' = Pending
  BY DEF Registers, Removes, Quiet, Closes, Fails, Pending
<1>2. ASSUME inbox # <<>>, Head(inbox) \in Names
      PROVE  /\ taken < Len(sent) /\ Head(inbox) = sent[taken + 1]
             /\ Rest = <<Head(inbox)>> \o SubSeq(sent, taken + 2, Len(sent))
             /\ Rest # <<>> /\ Tail(Rest) = SubSeq(sent, taken + 2, Len(sent))
  <2>1. Carries(inbox, sent, taken, Len(sent))
    BY DEF NothingLost
  <2>2. taken < Len(sent) /\ Head(inbox) = sent[taken + 1]
    BY <1>2, <1>f, <2>1, CarriesTail
  <2>3. Rest # <<>> /\ Head(Rest) = sent[taken + 1]
        /\ Tail(Rest) = SubSeq(sent, taken + 2, Len(sent))
    <3>1. taken + 1 \in 1..Len(sent) /\ Len(sent) \in (taken + 1)..Len(sent)
          /\ (taken + 1) + 1 = taken + 2
      BY <1>f, <2>2
    <3>2. Head(Rest) = sent[taken + 1] /\ Tail(Rest) = SubSeq(sent, (taken + 1) + 1, Len(sent))
      BY <1>f, <3>1, HeadTailOfSubSeq
    <3>3. Len(Rest) = Len(sent) - taken
      BY <1>f, <3>1
    <3>4. Rest # <<>>
      <4> HIDE DEF Rest
      <4> QED
        BY <1>f, <2>2, <3>3
    <3> QED
      BY <3>1, <3>2, <3>4
  <2>4. Rest = <<Head(Rest)>> \o Tail(Rest)
    <3>1. taken + 1 \in 1..Len(sent) /\ Len(sent) \in (taken + 1)..Len(sent)
          /\ (taken + 1) + 1 = taken + 2
      BY <1>f, <2>2
    <3>2. Rest = <<sent[taken + 1]>> \o SubSeq(sent, (taken + 1) + 1, Len(sent))
      BY <1>f, <3>1, SubSeqRecursiveFirst
    <3> QED
      BY <2>3, <3>1, <3>2
  <2> QED
    BY <2>2, <2>3, <2>4
<1>3. ASSUME Takes PROVE Pending' = Pending
  <2>1. InHand = <<>> /\ InHand' = <<Head(inbox)>> /\ taken' = taken + 1 /\ sent' = sent
    BY <1>3 DEF Takes
  <2>2. Pending = Rest
    BY <1>h, <2>1 DEF Pending
  <2>3. Pending' = <<Head(inbox)>> \o SubSeq(sent, taken + 2, Len(sent))
    BY <1>f, <2>1 DEF Pending
  <2> QED
    BY <1>2, <1>3, <2>2, <2>3 DEF Takes
<1>4. ASSUME Drops PROVE Pending # <<>> /\ Pending' = Tail(Pending)
  <2>1. InHand = <<>> /\ InHand' = <<>> /\ taken' = taken + 1 /\ sent' = sent
    BY <1>4 DEF Drops
  <2>2. Pending = Rest
    BY <1>h, <2>1 DEF Pending
  <2>3. Pending' = SubSeq(sent, taken + 2, Len(sent))
    BY <1>f, <2>1 DEF Pending
  <2> QED
    BY <1>2, <1>4, <2>2, <2>3 DEF Drops
<1>5. ASSUME NEW n \in Names, Relays(n) PROVE Pending' = Append(Pending, n)
  <2>1. sent' = Append(sent, n) /\ taken' = taken /\ InHand' = InHand
    BY <1>5 DEF Relays
  <2>2. SubSeq(sent', taken + 1, Len(sent')) = Append(Rest, n)
    <3>1. /\ sent' \in Seq(Names) /\ Len(sent') = Len(sent) + 1 /\ sent'[Len(sent) + 1] = n
          /\ \A k \in 1..Len(sent) : sent'[k] = sent[k]
      BY <1>f, <2>1, AppendProperties
    <3>2. /\ taken + 1 \in Int /\ Len(sent) \in Int /\ Len(sent') \in Int
          /\ \A k \in (taken + 1)..Len(sent) : sent[k] \in Names
          /\ \A k \in (taken + 1)..Len(sent') : sent'[k] \in Names
      BY <1>f, <3>1, ElementOfSeq
    <3>3. /\ Len(Rest) = Len(sent) - taken
          /\ \A k \in 1..(Len(sent) - taken) : Rest[k] = sent[taken + k]
      BY <1>f, <3>2, SubSeqProperties
    <3> DEFINE R == SubSeq(sent', taken + 1, Len(sent'))
    <3>4. /\ R \in Seq(Names) /\ Len(R) = Len(sent) + 1 - taken
          /\ \A k \in 1..(Len(sent) + 1 - taken) : R[k] = sent'[taken + k]
      BY <1>f, <3>1, <3>2, SubSeqProperties
    <3>5. /\ Append(Rest, n) \in Seq(Names) /\ Len(Append(Rest, n)) = Len(Rest) + 1
          /\ \A k \in 1..Len(Rest) : Append(Rest, n)[k] = Rest[k]
          /\ Append(Rest, n)[Len(Rest) + 1] = n
      BY <1>h, AppendProperties
    <3> HIDE DEF Rest, R
    <3>n. taken \in Nat /\ Len(sent) \in Nat /\ taken <= Len(sent)
      BY <1>f
    <3>l. Len(R) = Len(Append(Rest, n))
      BY <3>n, <3>3, <3>4, <3>5
    <3>6. ASSUME NEW k \in 1..Len(R) PROVE R[k] = Append(Rest, n)[k]
      <4>1. CASE k = Len(sent) + 1 - taken
        <5>1. /\ k \in 1..(Len(sent) + 1 - taken) /\ taken + k = Len(sent) + 1
              /\ k = Len(Rest) + 1
          BY <3>n, <3>3, <4>1
        <5> QED
          BY <3>1, <3>4, <3>5, <5>1
      <4>2. CASE k # Len(sent) + 1 - taken
        <5>1. k \in 1..(Len(sent) - taken) /\ taken + k \in 1..Len(sent)
          <6>1. k \in 1..(Len(sent) + 1 - taken)
            BY <3>4
          <6> QED
            BY <3>n, <4>2, <6>1
        <5> QED
          BY <3>1, <3>3, <3>4, <3>5, <5>1
      <4> QED
        BY <4>1, <4>2
    <3>7. R = Append(Rest, n)
      BY <3>4, <3>5, <3>6, <3>l, SeqEqual
    <3> QED
      BY <3>7 DEF R
  <2>3. InHand \o Append(Rest, n) = Append(InHand \o Rest, n)
    BY <1>h
  <2> QED
    BY <2>1, <2>2, <2>3 DEF Pending
<1>6. ASSUME NEW n \in Names, Reports(n)
      PROVE  Pending # <<>> /\ Head(Pending) = n /\ Pending' = Tail(Pending)
  <2>1. InHand = <<n>> /\ InHand' = <<>> /\ taken' = taken /\ sent' = sent
    BY <1>6 DEF Reports
  <2>2. Pending = <<n>> \o Rest
    BY <2>1 DEF Pending
  <2>3. Pending' = Rest
    BY <1>h, <2>1 DEF Pending
  <2>4. <<n>> \o Rest # <<>> /\ Head(<<n>> \o Rest) = n /\ Tail(<<n>> \o Rest) = Rest
    <3> HIDE DEF Rest
    <3>1. <<n>> \in Seq(Names) /\ Len(<<n>>) = 1 /\ <<n>>[1] = n
      OBVIOUS
    <3> DEFINE c == <<n>> \o Rest
    <3>2. /\ c \in Seq(Names) /\ Len(c) = 1 + Len(Rest) /\ Len(Rest) \in Nat
          /\ \A k \in 1..(1 + Len(Rest)) : c[k] = IF k <= 1 THEN n ELSE Rest[k - 1]
      BY <1>h, <3>1, ConcatProperties
    <3> HIDE DEF c
    <3>3. c # <<>> /\ Head(c) = n
      BY <3>2
    <3>4. /\ Tail(c) \in Seq(Names) /\ Len(Tail(c)) = Len(Rest)
          /\ \A k \in 1..Len(Tail(c)) : Tail(c)[k] = Rest[k]
      BY <3>2, <3>3, HeadTailProperties
    <3>5. Tail(c) = Rest
      BY <1>h, <3>4, SeqEqual
    <3> QED
      BY <3>3, <3>5 DEF c
  <2> QED
    BY <2>2, <2>3, <2>4
<1> QED
  BY <1>1, <1>3, <1>4, <1>5, <1>6

\* Each of the nine is a step of NotifyCallback, or no step of it.
LEMMA AbstractStep ==
  ASSUME TypeOK, NothingLost, Kinds
  PROVE  [Abstract!Next]_(Abstract!vars)
<1>1. CASE Quiet
  BY <1>1, PendingFacts DEF Quiet, Freed, Pending, Abstract!vars
<1>2. CASE Takes
  BY <1>2, PendingFacts DEF Takes, Freed, Pending, Abstract!vars
<1>3. CASE Registers
  <2>1. Abstract!Register(notifier')
    BY <1>3, PendingFacts DEF Registers, Freed, Pending, Abstract!Register
  <2> QED
    BY <1>3, <2>1 DEF Registers, Regs, Abstract!Next
<1>4. CASE Removes
  <2>1. Abstract!Remove
    BY <1>4, PendingFacts DEF Removes, Freed, Pending, Abstract!Remove
  <2> QED
    BY <2>1 DEF Abstract!Next
<1>5. CASE Fails
  <2>1. Abstract!ReportError
    BY <1>5, PendingFacts DEF Fails, Freed, Pending, Abstract!ReportError
  <2> QED
    BY <2>1 DEF Abstract!Next
<1>6. CASE Drops
  <2>1. Abstract!Drop
    BY <1>6, PendingFacts DEF Drops, Freed, Pending, Abstract!Drop
  <2> QED
    BY <2>1 DEF Abstract!Next
<1>7. CASE Closes
  <2>1. Abstract!Close
    BY <1>7, PendingFacts DEF Closes, Freed, Pending, Abstract!Close
  <2> QED
    BY <2>1 DEF Abstract!Next
<1>8. ASSUME NEW n \in Names, Relays(n) PROVE Abstract!Next
  <2>1. Abstract!Relay(n)
    BY <1>8, PendingFacts DEF Relays, Freed, Pending, Abstract!Relay
  <2> QED
    BY <2>1 DEF Abstract!Next
<1>9. ASSUME NEW n \in Names, Reports(n) PROVE Abstract!Next
  <2>1. Abstract!Report
    BY <1>9, PendingFacts DEF Reports, Freed, Pending, Abstract!Report
  <2> QED
    BY <2>1 DEF Abstract!Next
<1> QED
  BY <1>1, <1>2, <1>3, <1>4, <1>5, <1>6, <1>7, <1>8, <1>9 DEF Kinds

\* The client implements NotifyCallback: the registered callback alone is told the relayed
\* names, in order and once each, whatever the threads do at the same time.
THEOREM Contract == Spec => ImplementsNotifyCallback
<1>1. Init => Abstract!Init
  BY DEF Init, InHand, Abstract!Init
<1>2. TypeOK /\ IInv /\ NothingLost /\ [Next]_vars => [Abstract!Next]_(Abstract!vars)
  BY StepKinds, AbstractStep
<1> QED
  BY <1>1, <1>2, TypeCorrect, Invariant, Delivery, PTL
  DEF Spec, ImplementsNotifyCallback, Abstract!Spec
=============================================================================
