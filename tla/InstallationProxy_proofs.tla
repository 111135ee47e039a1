------------------------ MODULE InstallationProxy_proofs ------------------------
(***************************************************************************)
(* Proofs about InstallationProxy: for any number of threads and commands  *)
(* that the mutex is held by the one thread that uses the connection; and, *)
(* as the two looks at the handle are not atomic, for one application      *)
(* thread that the handle names the receiver, that no callback is made     *)
(* after the client is freed and that a status reaches its own command.    *)
(***************************************************************************)
EXTENDS InstallationProxy, TLAPS

\* The client is not shared by application threads: its status threads still run beside
\* the one that calls.
OneThread == \A t, u \in Threads : t = u

Begun == {"send_lock", "send", "check", "new"}

\* A command has a number of its own, and its status thread has not run before it starts.
Numbered ==
  /\ \A t \in Threads : cmd[t] <= commands
  /\ \A t, u \in Threads : t # u /\ cmd[t] = cmd[u] => cmd[t] = 0
  /\ \A t \in Threads : pc[t] \in Begun => cmd[t] # 0 /\ pc[cmd[t]] = "idle"
  /\ \A i \in Cmds : i > commands => pc[i] = "idle"

\* A loop belongs to a command and looks at a message it has received.
InLoop ==
  /\ \A t \in Threads : pc[t] \in LoopPcs => cmd[t] # 0
  /\ \A p \in Loops : pc[p] = "status" => node[p] \in Messages

MutexInv == TypeOK /\ MutexHeld /\ Numbered /\ InLoop

\* While the application thread performs a command no status thread runs.
HandleFree == \A t \in Threads : pc[t] \in Begun \union LoopPcs => handle = 0

\* The application thread leaves its loop only when the client was not freed.
ParentKnown == ~parent <=> Freeing

\* instproxy_client_free clears the handle only of a status thread that has cleared it
\* itself, and nobody sets it meanwhile.
FreeState ==
  /\ \A t \in Threads : /\ pc[t] = "free_join" => handle \in {0, joining}
                        /\ pc[t] \in {"free_close", "freed"} => handle = 0
  /\ conn = "freed" => \E t \in Threads : pc[t] = "freed"

\* A status thread that is over has cleared its handle.
ExitedCleared == handle # 0 => pc[handle] \in LoopPcs \union {"clean_lock", "clean"}

HandleInv == HandleNamesReceiver /\ NoCallbackAfterFree /\ HandleFree /\ ParentKnown
             /\ FreeState /\ ExitedCleared

\* What the device still has to say: nothing, or messages about command c, of which
\* one that ends c is the last.
Final(m) == HasError(m[2]) \/ m[2] = "Complete"
Quiet == inbox = <<>> /\ (conn = "open" => devq = <<>>)
About(c) ==
  /\ \A k \in 1..Len(inbox) :
       /\ inbox[k][1] = c
       /\ Final(inbox[k]) => k = Len(inbox) /\ (conn = "open" => devq = <<>>)
  /\ conn = "open" => devq \in {<<>>, <<c>>}

\* The device only speaks of commands that went out.
FromSent ==
  /\ \A k \in 1..Len(inbox) : inbox[k][1] \in sent
  /\ \A k \in 1..Len(devq) : devq[k] \in sent

\* A loop that is complete has left itself.
NotComplete ==
  /\ \A p \in Loops : pc[p] \in {"lock", "receive", "status"} => ~complete[p]
  /\ \A i \in Cmds : pc[i] = "idle" => ~complete[i]

\* The stream belongs to the command of the loop that reads it.
StreamOwned ==
  /\ \A t \in Threads : pc[t] \in {"check", "new"} => About(cmd[t])
  /\ \A p \in Loops :
       /\ pc[p] \in {"lock", "receive"} => About(CommandOf(p))
       /\ pc[p] = "head" => IF complete[p] THEN Quiet ELSE About(CommandOf(p))
       /\ pc[p] = "status" =>
            /\ node[p][1] = CommandOf(p) /\ node[p][1] \in sent
            /\ IF Final(node[p]) THEN Quiet ELSE About(CommandOf(p))

\* Between two commands nothing is left to be said.
QuietBetween ==
  parent /\ (handle # 0 => pc[handle] \notin LoopPcs)
         /\ (\A t \in Threads : pc[t] \notin {"check", "new"} \union LoopPcs) => Quiet

\* A sync loop that ends with success has reported the end of its command.
Reported(t) == cmd[t] \in sent /\ <<cmd[t], <<cmd[t], "Complete">>>> \in reported
SuccessReported ==
  /\ \A r \in reported : r[1] = r[2][1]
  /\ \A t \in Threads :
       /\ pc[t] = "idle" /\ type[t] = "sync" /\ res[t] = "SUCCESS" => Reported(t)
       /\ pc[t] = "head" /\ complete[t] /\ res[t] = "SUCCESS" => Reported(t)
       /\ pc[t] = "new" => type[t] = "async"

OwnInv == NotComplete /\ FromSent
          /\ (~abandoned => StreamOwned /\ QuietBetween /\ SuccessReported)

-----------------------------------------------------------------------------
(* The mutex, for any number of threads                                    *)

\* The pcs of TypeOK.
Pcs == LoopPcs \union Holding \union FreePcs \union
       {"idle", "send_lock", "check", "new", "clean_lock", "exited"}

\* Application threads and status threads are told apart, and None is neither.
LEMMA LoopFacts ==
  /\ Threads \cap Cmds = {} /\ None \notin Loops /\ 0 \notin Cmds /\ Cmds \subseteq Nat
  /\ Threads \subseteq Loops /\ Cmds \subseteq Loops
BY ConstAssumption DEF Loops, Cmds

LEMMA InitMutex == Init => MutexInv
<1> SUFFICES ASSUME Init PROVE MutexInv
    OBVIOUS
<1> USE LoopFacts DEF Init
<1>1. TypeOK
  <2>1. devq \in Seq(Cmds) /\ inbox \in Seq(Messages)
        OBVIOUS
  <2>2. /\ mutex \in Loops \union {None} /\ handle \in {0} \union Cmds
        /\ conn \in {"open", "lost", "freed"} /\ sent \subseteq Cmds
        /\ joining \in {0} \union Cmds /\ reported \subseteq Cmds \X Messages
        OBVIOUS
  <2>3. commands \in 0..MaxCmd /\ msgs \in 0..MaxMsg
        BY ConstAssumption
  <2>4. /\ cmd \in [Threads -> {0} \union Cmds] /\ type \in [Threads -> Types]
        /\ res \in [Loops -> Results] /\ complete \in [Loops -> BOOLEAN]
        /\ node \in [Loops -> Messages \union {NoMsg}]
        BY DEF Types, Results
  <2>5. parent \in BOOLEAN /\ abandoned \in BOOLEAN
        OBVIOUS
  <2> QED BY <2>1, <2>2, <2>3, <2>4, <2>5 DEF TypeOK
<1>2. MutexHeld
      BY DEF MutexHeld, Holding
<1>3. Numbered
      BY ConstAssumption DEF Numbered, Begun, Cmds
<1>4. InLoop
      BY DEF InLoop, LoopPcs
<1> QED BY <1>1, <1>2, <1>3, <1>4 DEF MutexInv

\* When thread p moves to l it is as if no command began or ended, unless it begins one.
LEMMA MoveNumbered ==
  ASSUME MutexInv, NEW p \in Loops, NEW l, pc' = [pc EXCEPT ![p] = l],
         UNCHANGED <<cmd, commands>>,
         p \in Threads => (l \in Begun => pc[p] \in Begun),
         p \in Cmds => pc[p] # "idle"
  PROVE  Numbered'
<1>1. pc \in [Loops -> Pcs] /\ Numbered
      BY DEF MutexInv, TypeOK, Pcs
<1>2. \A q \in Loops : pc'[q] = IF q = p THEN l ELSE pc[q]
      BY <1>1
<1>3. \A t \in Threads : cmd[t] # 0 => cmd[t] \in Cmds
      BY DEF MutexInv, TypeOK
<1>4. \A i \in Cmds : pc[i] = "idle" => pc'[i] = "idle"
      BY <1>2, LoopFacts
<1>5. \A t \in Threads : pc'[t] \in Begun => pc[t] \in Begun
      BY <1>2, LoopFacts
<1> QED BY <1>1, <1>3, <1>4, <1>5 DEF Numbered

\* A thread enters a loop with its command, and looks at a message only after a receive.
LEMMA MoveInLoop ==
  ASSUME MutexInv, NEW p \in Loops, NEW l, pc' = [pc EXCEPT ![p] = l],
         UNCHANGED <<cmd, node>>, l # "status",
         p \in Threads => (l \in LoopPcs => pc[p] \in LoopPcs \union Begun)
  PROVE  InLoop'
<1>1. \A q \in Loops : pc'[q] = IF q = p THEN l ELSE pc[q]
      BY DEF MutexInv, TypeOK
<1>2. \A t \in Threads : pc'[t] \in LoopPcs => pc[t] \in LoopPcs \union Begun
      BY <1>1, LoopFacts
<1> QED BY <1>1, <1>2 DEF MutexInv, InLoop, Numbered

\* The mutex follows the thread that takes or leaves it.
LEMMA MoveHeld ==
  ASSUME MutexInv, NEW p \in Loops, NEW l, pc' = [pc EXCEPT ![p] = l],
         \/ (pc[p] \in Holding <=> l \in Holding) /\ mutex' = mutex
         \/ pc[p] \in Holding /\ l \notin Holding /\ mutex' = None
         \/ mutex = None /\ l \in Holding /\ mutex' = p
  PROVE  MutexHeld'
<1>1. \A q \in Loops : pc'[q] = IF q = p THEN l ELSE pc[q]
      BY DEF MutexInv, TypeOK
<1> QED BY <1>1, LoopFacts DEF MutexInv, MutexHeld

LEMMA CallMutex ==
  ASSUME MutexInv, NEW t \in Threads, NEW ty \in Types, Call(t, ty)
  PROVE  MutexInv'
<1>1. commands + 1 \in Cmds /\ commands \in Nat /\ commands + 1 \in 0..MaxCmd
      BY ConstAssumption DEF MutexInv, TypeOK, Cmds, Call
<1>2. /\ cmd' = [cmd EXCEPT ![t] = commands + 1] /\ type' = [type EXCEPT ![t] = ty]
      /\ commands' = commands + 1
      /\ \/ pc' = pc \/ pc' = [pc EXCEPT ![t] = "send_lock"]
      /\ \E r \in Results : res' = [res EXCEPT ![t] = r]
      /\ UNCHANGED <<clientVars, complete, node, joining, devVars, histVars>>
      /\ pc[t] = "idle"
      BY DEF Call, Goto, Result, Results
<1>3. TypeOK'
  <2>1. pc' \in [Loops -> Pcs]
        BY <1>2, LoopFacts DEF MutexInv, TypeOK, Pcs
  <2>2. res' \in [Loops -> Results]
        BY <1>2, LoopFacts DEF MutexInv, TypeOK
  <2>3. cmd' \in [Threads -> {0} \union Cmds] /\ type' \in [Threads -> Types]
        BY <1>1, <1>2 DEF MutexInv, TypeOK
  <2> QED BY <1>1, <1>2, <2>1, <2>2, <2>3 DEF MutexInv, TypeOK, Pcs, clientVars, devVars, histVars
<1>4. MutexHeld'
  <2>1. UNCHANGED mutex
        BY <1>2 DEF clientVars
  <2>2. pc \in [Loops -> Pcs]
        BY DEF MutexInv, TypeOK, Pcs
  <2>3. "idle" \notin Holding /\ "send_lock" \notin Holding
        BY DEF Holding
  <2>4. \A l \in Loops : pc[l] \in Holding <=> mutex = l
        BY DEF MutexInv, MutexHeld
  <2>5. \A l \in Loops : pc'[l] \in Holding <=> pc[l] \in Holding
    <3>1. CASE pc' = pc
          BY ONLY <3>1
    <3>2. CASE pc' = [pc EXCEPT ![t] = "send_lock"]
      <4>1. \A l \in Loops : pc'[l] = IF l = t THEN "send_lock" ELSE pc[l]
            BY ONLY <2>2, <3>2
      <4> QED BY <1>2, <2>3, <4>1
    <3> QED BY <1>2, <3>1, <3>2
  <2> QED BY ONLY <2>1, <2>4, <2>5 DEF MutexHeld
<1>5. Numbered'
  <2>1. \A u \in Threads : cmd[u] \in Nat
    <3>1. \A u \in Threads : cmd[u] \in {0} \union Cmds
          BY DEF MutexInv, TypeOK
    <3>2. \A i \in {0} \union Cmds : i \in Nat
          BY DEF Cmds
    <3> QED BY <3>1, <3>2
  <2>2. pc[commands + 1] = "idle"
        BY <1>1 DEF MutexInv, Numbered
  <2>3. \A u \in Threads : cmd'[u] = IF u = t THEN commands + 1 ELSE cmd[u]
        BY <1>2 DEF MutexInv, TypeOK
  <2>4. \A i \in Cmds : pc'[i] = pc[i]
        BY <1>2, LoopFacts DEF MutexInv, TypeOK
  <2>5. \A u \in Threads : u # t => pc'[u] = pc[u]
        BY <1>2, LoopFacts DEF MutexInv, TypeOK
  <2>6. Numbered /\ \A i \in Cmds : i \in Nat
        BY LoopFacts DEF MutexInv
  <2>7. \A u \in Threads : cmd'[u] <= commands'
        BY <1>1, <1>2, <2>1, <2>3, <2>6 DEF Numbered
  <2>8. \A u, v \in Threads : u # v /\ cmd'[u] = cmd'[v] => cmd'[u] = 0
        BY <1>1, <2>1, <2>3, <2>6 DEF Numbered
  <2>9. \A u \in Threads : pc'[u] \in Begun => cmd'[u] # 0 /\ pc'[cmd'[u]] = "idle"
    <3>1. \A u \in Threads : cmd[u] # 0 => cmd[u] \in Cmds
          BY DEF MutexInv, TypeOK
    <3> QED BY <1>1, <2>2, <2>3, <2>4, <2>5, <2>6, <3>1, LoopFacts DEF Numbered
  <2>10. \A i \in Cmds : i > commands' => pc'[i] = "idle"
        BY <1>1, <1>2, <2>4, <2>6 DEF Numbered
  <2> QED BY <2>7, <2>8, <2>9, <2>10 DEF Numbered
<1>6. InLoop'
  <2>1. \A p \in Loops : pc'[p] \in LoopPcs => pc'[p] = pc[p] /\ p # t
        BY <1>2, LoopFacts DEF MutexInv, TypeOK, LoopPcs
  <2>2. \A u \in Threads : u # t => cmd'[u] = cmd[u]
        BY <1>2 DEF MutexInv, TypeOK
  <2> QED BY <1>2, <2>1, <2>2, LoopFacts DEF MutexInv, InLoop, LoopPcs
<1> QED BY <1>3, <1>4, <1>5, <1>6 DEF MutexInv

\* The steps of an application thread that performs a command.
LEMMA CommandMutex ==
  ASSUME MutexInv, NEW t \in Threads, SendLock(t) \/ Send(t) \/ Check(t)
  PROVE  MutexInv'
<1>1. t \in Loops /\ t \notin Cmds /\ TypeOK
      BY LoopFacts DEF MutexInv
<1>2. CASE SendLock(t)
  <2>1. pc' = [pc EXCEPT ![t] = "send"] /\ pc[t] = "send_lock" /\ mutex = None /\ mutex' = t
        BY <1>2 DEF SendLock, Goto
  <2>2. UNCHANGED <<parent, handle, conn, callVars, loopVars, devVars, histVars>>
        BY <1>2 DEF SendLock
  <2>3. TypeOK'
        BY <1>1, <2>1, <2>2 DEF TypeOK, Holding, callVars, loopVars, devVars, histVars
  <2>4. MutexHeld'
        BY <1>1, <2>1, MoveHeld DEF Holding
  <2>5. Numbered' /\ InLoop'
        BY <1>1, <2>1, <2>2, MoveNumbered, MoveInLoop DEF Begun, LoopPcs, callVars, loopVars
  <2> QED BY <2>3, <2>4, <2>5 DEF MutexInv
<1>3. CASE Send(t)
  <2>1. pc' = [pc EXCEPT ![t] = "check"] /\ pc[t] = "send" /\ mutex' = None
        BY <1>3 DEF Send, Goto
  <2>2. UNCHANGED <<parent, handle, conn, callVars, loopVars, inbox, msgs, reported, abandoned>>
        BY <1>3 DEF Send
  <2>3. cmd[t] \in Cmds
        BY <2>1 DEF MutexInv, Numbered, TypeOK, Begun
  <2>4. devq' \in Seq(Cmds) /\ sent' \subseteq Cmds
    <3>1. devq' \in {devq, Append(devq, cmd[t])} /\ sent' \in {sent, sent \union {cmd[t]}}
          BY <1>3 DEF Send
    <3>2. devq \in Seq(Cmds) /\ sent \subseteq Cmds
          BY <1>1 DEF TypeOK
    <3> QED BY <2>3, <3>1, <3>2
  <2>5. TypeOK'
        BY <1>1, <2>1, <2>2, <2>4 DEF TypeOK, callVars, loopVars
  <2>6. MutexHeld'
        BY <1>1, <2>1, MoveHeld DEF Holding
  <2>7. Numbered' /\ InLoop'
        BY <1>1, <2>1, <2>2, MoveNumbered, MoveInLoop DEF Begun, LoopPcs, callVars, loopVars
  <2> QED BY <2>5, <2>6, <2>7 DEF MutexInv
<1>4. CASE Check(t)
  <2>1. /\ pc[t] = "check" /\ mutex' = mutex
        /\ \E l \in {"idle", "new", "lock"} : pc' = [pc EXCEPT ![t] = l]
        BY <1>4 DEF Check, Goto, clientVars
  <2>2. /\ UNCHANGED <<clientVars, callVars, node, devVars, histVars>>
        /\ complete' = [complete EXCEPT ![t] = FALSE]
        /\ \/ res' = res \/ res' = [res EXCEPT ![t] = "OP_IN_PROGRESS"]
        BY <1>4 DEF Check, Result
  <2>3. TypeOK'
        BY <1>1, <2>1, <2>2 DEF TypeOK, LoopPcs, Results, clientVars, callVars, devVars, histVars
  <2>4. MutexHeld'
        BY <1>1, <2>1, MoveHeld DEF Holding
  <2>5. Numbered' /\ InLoop'
        BY <1>1, <2>1, <2>2, MoveNumbered, MoveInLoop DEF Begun, LoopPcs, callVars, loopVars
  <2> QED BY <2>3, <2>4, <2>5 DEF MutexInv
<1> QED BY <1>2, <1>3, <1>4

LEMMA NewThreadMutex ==
  ASSUME MutexInv, NEW t \in Threads, NewThread(t)
  PROVE  MutexInv'
<1>1. /\ cmd[t] \in Cmds /\ cmd[t] <= commands /\ pc[cmd[t]] = "idle" /\ pc[t] = "new"
      /\ t \in Loops /\ t \notin Cmds /\ TypeOK
      BY LoopFacts DEF MutexInv, NewThread, Numbered, TypeOK, Begun
<1>2. CASE pc' = [pc EXCEPT ![t] = "idle"] /\ UNCHANGED <<handle, res>> /\ abandoned' = TRUE
  <2>1. TypeOK'
        BY <1>1, <1>2 DEF TypeOK, NewThread, callVars, devVars
  <2>2. MutexHeld' /\ Numbered' /\ InLoop'
        BY <1>1, <1>2, MoveHeld, MoveNumbered, MoveInLoop DEF NewThread, Holding, Begun, LoopPcs, callVars
  <2> QED BY <2>1, <2>2 DEF MutexInv
<1>3. CASE /\ pc' = [pc EXCEPT ![t] = "idle", ![cmd[t]] = "lock"] /\ handle' = cmd[t]
           /\ res' = [res EXCEPT ![t] = "SUCCESS"] /\ UNCHANGED abandoned
  <2>1. TypeOK'
        BY <1>1, <1>3, LoopFacts DEF TypeOK, NewThread, callVars, devVars, LoopPcs, Results
  <2>2. \A q \in Loops : pc'[q] = IF q = t THEN "idle" ELSE IF q = cmd[t] THEN "lock" ELSE pc[q]
        BY <1>1, <1>3, LoopFacts DEF TypeOK
  <2>3. MutexHeld'
        BY <1>1, <2>2, LoopFacts DEF MutexInv, MutexHeld, NewThread, Holding
  <2>4. Numbered'
    <3>1. Numbered /\ cmd' = cmd /\ commands' = commands
          BY DEF MutexInv, NewThread, callVars
    <3>2. \A u \in Threads : pc'[u] \in Begun => pc[u] \in Begun /\ u # t
          BY <1>1, <2>2, LoopFacts DEF Begun
    <3>3. \A u \in Threads : pc'[u] \in Begun => cmd[u] \in Cmds /\ pc'[cmd[u]] = "idle"
      <4>1. \A u \in Threads : cmd[u] # 0 => cmd[u] \in Cmds
            BY <1>1 DEF TypeOK
      <4> QED BY <1>1, <2>2, <3>1, <3>2, <4>1, LoopFacts DEF Numbered
    <3>4. \A i \in Cmds : i > commands => i # cmd[t] /\ i # t
          BY <1>1, LoopFacts DEF TypeOK
    <3> QED BY <2>2, <3>1, <3>3, <3>4, LoopFacts DEF Numbered
  <2>5. InLoop'
    <3>1. \A u \in Threads : pc'[u] \in LoopPcs => pc[u] \in LoopPcs
          BY <1>1, <2>2, LoopFacts DEF LoopPcs
    <3>2. \A p \in Loops : pc'[p] = "status" => pc[p] = "status"
          BY <2>2
    <3> QED BY <3>1, <3>2 DEF MutexInv, InLoop, NewThread, callVars
  <2> QED BY <2>1, <2>3, <2>4, <2>5 DEF MutexInv
<1> QED BY <1>2, <1>3 DEF NewThread, Goto, Result

\* A communication error is a result; PLIST_ERROR is one of a message.
LEMMA ErrorResult == LoopError \in Results /\ (LoopError = "PLIST_ERROR" => inbox # <<>>)
BY DEF LoopError, Results

\* A step of a loop moves its thread inside the loop or out of it.
LEMMA LoopMoves ==
  ASSUME MutexInv, NEW p \in Loops, LoopStep(p)
  PROVE  /\ UNCHANGED <<parent, handle, conn, callVars, devq, msgs, sent>>
         /\ pc[p] \in LoopPcs
         /\ \E l \in LoopPcs \union {"idle", "clean_lock"} :
              /\ pc' = [pc EXCEPT ![p] = l]
              /\ \/ pc[p] \in {"status", "head"} /\ l # "receive" /\ mutex' = mutex
                 \/ pc[p] = "receive" /\ l # "receive" /\ mutex' = None
                 \/ pc[p] = "lock" /\ mutex = None /\ l = "receive" /\ mutex' = p
BY DEF LoopStep, LoopLock, LoopReceiveError, LoopTimeout, LoopReceive, LoopStatus, LoopHead, LoopEnd,
   Goto, clientVars, loopVars, devVars, histVars, LoopPcs

LEMMA LoopMutex ==
  ASSUME MutexInv, NEW p \in Loops, LoopStep(p)
  PROVE  MutexInv'
<1>1. PICK l \in LoopPcs \union {"idle", "clean_lock"} :
        /\ pc' = [pc EXCEPT ![p] = l]
        /\ \/ pc[p] \in {"status", "head"} /\ l # "receive" /\ mutex' = mutex
           \/ pc[p] = "receive" /\ l # "receive" /\ mutex' = None
           \/ pc[p] = "lock" /\ mutex = None /\ l = "receive" /\ mutex' = p
      BY LoopMoves
<1>2. UNCHANGED <<parent, handle, conn, callVars, devq, msgs, sent>> /\ pc[p] \in LoopPcs
      BY LoopMoves
<1>3. MutexHeld'
      BY <1>1, MoveHeld DEF Holding, LoopPcs
<1>4. Numbered'
      BY <1>1, <1>2, MoveNumbered DEF Begun, LoopPcs, callVars
<1>6. p \in Threads => pc[p] \in LoopPcs /\ cmd[p] \in Cmds
      BY <1>2 DEF MutexInv, TypeOK, InLoop
<1>7. InLoop'
  <2>1. \A q \in Loops : q # p => pc'[q] = pc[q] /\ node'[q] = node[q]
        BY <1>1 DEF MutexInv, TypeOK, LoopStep, LoopLock, LoopReceiveError, LoopTimeout, LoopReceive,
           LoopStatus, LoopHead, loopVars
  <2>2. pc'[p] = "status" => node'[p] \in Messages
    <3>1. CASE LoopReceive(p)
          BY <3>1 DEF LoopReceive, MutexInv, TypeOK
    <3>2. CASE ~LoopReceive(p)
          BY <3>2 DEF LoopStep, LoopLock, LoopReceiveError, LoopTimeout, LoopStatus, LoopHead, LoopEnd,
             Goto, MutexInv, TypeOK
    <3> QED BY <3>1, <3>2
  <2> QED BY <1>2, <1>6, <2>1, <2>2, LoopFacts DEF MutexInv, InLoop, callVars
<1>5. TypeOK'
  <2>1. TypeOK
        BY DEF MutexInv
  <2>2. pc' \in [Loops -> Pcs] /\ mutex' \in Loops \union {None}
        BY <1>1, <2>1, Zenon DEF TypeOK, Pcs
  <2>3. res' \in [Loops -> Results]
    <3>1. res' = res \/ \E r \in Results : res' = [res EXCEPT ![p] = r]
          BY ErrorResult DEF LoopStep, LoopLock, LoopReceiveError, LoopTimeout, LoopReceive, LoopStatus,
             LoopHead, Result, StatusResult, Results, loopVars
    <3> QED BY <2>1, <3>1 DEF TypeOK
  <2>4. inbox' \in Seq(Messages) /\ node' \in [Loops -> Messages \union {NoMsg}]
    <3>1. \/ inbox' = inbox
          \/ inbox # <<>> /\ inbox' = Tail(inbox)
          BY ErrorResult DEF LoopStep, LoopLock, LoopReceiveError, LoopTimeout, LoopReceive, LoopStatus,
             LoopHead, devVars
    <3>2. \/ node' = node
          \/ inbox # <<>> /\ node' = [node EXCEPT ![p] = Head(inbox)]
          \/ node' = [node EXCEPT ![p] = NoMsg]
          BY DEF LoopStep, LoopLock, LoopReceiveError, LoopTimeout, LoopReceive, LoopStatus,
             LoopHead, loopVars
    <3>3. inbox \in Seq(Messages) /\ node \in [Loops -> Messages \union {NoMsg}]
          BY <2>1 DEF TypeOK
    <3>4. inbox # <<>> => Tail(inbox) \in Seq(Messages) /\ Head(inbox) \in Messages
          BY <3>3
    <3> HIDE DEF NoMsg
    <3> QED BY <3>1, <3>2, <3>3, <3>4
  <2>5. complete' \in [Loops -> BOOLEAN] /\ abandoned' \in BOOLEAN
    <3>1. complete \in [Loops -> BOOLEAN] /\ abandoned \in BOOLEAN
          BY <2>1 DEF TypeOK
    <3>2. abandoned' = abandoned \/ abandoned' = (abandoned \/ LoopError = "PLIST_ERROR")
          BY Zenon DEF LoopStep, LoopLock, LoopReceiveError, LoopTimeout, LoopReceive, LoopStatus,
             LoopHead, histVars
    <3>3. \/ complete' = complete
          \/ complete' = [complete EXCEPT ![p] = @ \/ HasError(node[p][2]) \/ node[p][2] = "Complete"]
          BY Zenon DEF LoopStep, LoopLock, LoopReceiveError, LoopTimeout, LoopReceive, LoopStatus,
             LoopHead, loopVars
    <3>4. complete' \in [Loops -> BOOLEAN]
          BY <3>1, <3>3
    <3> QED BY <3>1, <3>2, <3>4, Zenon
  <2>6. reported' \subseteq Cmds \X Messages
    <3>1. CASE LoopStatus(p)
      <4>1. CommandOf(p) \in Cmds
            BY <1>6, LoopFacts DEF CommandOf, Loops
      <4>2. node[p] \in Messages
            BY <3>1 DEF LoopStatus, MutexInv, InLoop
      <4> QED BY <3>1, <4>1, <4>2, <2>1 DEF LoopStatus, TypeOK
    <3> QED BY <2>1, <3>1 DEF TypeOK, LoopStep, LoopLock, LoopReceiveError, LoopTimeout, LoopReceive,
            LoopHead, histVars
  <2> QED BY <1>2, <2>1, <2>2, <2>3, <2>4, <2>5, <2>6 DEF TypeOK, Pcs, callVars
<1> QED BY <1>3, <1>4, <1>5, <1>7 DEF MutexInv

LEMMA EndMutex ==
  ASSUME MutexInv,
         \/ \E i \in Cmds : CleanStep(i)
         \/ \E t \in Threads : FreeCall(t) \/ FreeCheck(t) \/ FreeJoin(t) \/ FreeClose(t)
  PROVE  MutexInv'
<1>1. PICK p \in Loops, l \in FreePcs \union {"clean", "clean_unlock", "exited"} :
        /\ pc' = [pc EXCEPT ![p] = l]
        /\ p \in Cmds => pc[p] # "idle"
        /\ p \in Threads => l \in FreePcs
        /\ \/ (pc[p] \in Holding <=> l \in Holding) /\ mutex' = mutex
           \/ pc[p] \in Holding /\ l \notin Holding /\ mutex' = None
           \/ mutex = None /\ l \in Holding /\ mutex' = p
      BY LoopFacts DEF CleanStep, CleanLock, Clean, CleanUnlock, FreeCall, FreeCheck, FreeJoin, FreeClose,
         Goto, Holding, FreePcs, clientVars
<1>2. /\ UNCHANGED <<cmd, type, commands, loopVars, devVars, histVars>>
      /\ parent' \in {parent, FALSE} /\ handle' \in {0, handle} /\ conn' \in {conn, "freed"}
      /\ joining' \in {joining, handle}
      BY DEF CleanStep, CleanLock, Clean, CleanUnlock, FreeCall, FreeCheck, FreeJoin, FreeClose,
         clientVars, callVars
<1>3. TypeOK'
      BY <1>1, <1>2 DEF MutexInv, TypeOK, Holding, loopVars, devVars, histVars
<1>4. MutexHeld'
      BY <1>1, MoveHeld
<1>5. Numbered' /\ InLoop'
      BY <1>1, <1>2, LoopFacts, MoveNumbered, MoveInLoop DEF Begun, LoopPcs, FreePcs, loopVars
<1> QED BY <1>3, <1>4, <1>5 DEF MutexInv

LEMMA DeviceMutex ==
  ASSUME MutexInv, DeviceStatus \/ DeviceLost \/ UNCHANGED vars
  PROVE  MutexInv'
<1> USE LoopFacts DEF MutexInv, DeviceStatus, DeviceLost, vars, clientVars, callVars, loopVars, devVars, histVars
<1>1. TypeOK'
  <2>1. CASE DeviceStatus
        BY <2>1, ConstAssumption, SMTT(30) DEF TypeOK, Messages
  <2> QED BY <2>1 DEF TypeOK
<1>2. MutexHeld' /\ Numbered' /\ InLoop'
      BY DEF MutexHeld, Numbered, InLoop
<1> QED BY <1>1, <1>2

LEMMA StepMutex == MutexInv /\ [Next]_vars => MutexInv'
BY CallMutex, CommandMutex, NewThreadMutex, LoopMutex, EndMutex, DeviceMutex DEF Next, AppStep, Finished

\* One thread at a time uses the connection, and it holds the mutex: for any number of
\* application threads.
THEOREM Exclusive == Spec => [](TypeOK /\ MutexHeld)
<1>1. MutexInv => TypeOK /\ MutexHeld
      BY DEF MutexInv
<1> QED BY <1>1, InitMutex, StepMutex, PTL DEF Spec

-----------------------------------------------------------------------------
(* The handle, for one application thread                                  *)

HInv == MutexInv /\ HandleInv

LEMMA InitHandle == Init => HInv
<1> SUFFICES ASSUME Init PROVE HInv
    OBVIOUS
<1>1. MutexInv
      BY InitMutex
<1>2. HandleInv
      BY LoopFacts DEF Init, HandleInv, HandleNamesReceiver, NoCallbackAfterFree, HandleFree, ParentKnown,
         FreeState, ExitedCleared, Freeing, FreePcs, LoopPcs, Begun
<1> QED BY <1>1, <1>2 DEF HInv

\* A step of the application thread that leaves the status threads and the handle alone.
LEMMA AppHandle ==
  ASSUME OneThread, HInv, NEW t \in Threads, NEW l, pc' = [pc EXCEPT ![t] = l],
         UNCHANGED <<handle, conn, joining, parent>>,
         pc[t] \notin FreePcs, l \notin FreePcs,
         l \in Begun \union LoopPcs => handle = 0
  PROVE  HandleInv'
<1>1. /\ \A i \in Cmds : pc'[i] = pc[i]
      /\ \A u \in Threads : u = t /\ pc'[u] = l
      BY LoopFacts DEF OneThread, HInv, MutexInv, TypeOK
<1>2. ~Freeing /\ ~Freeing' /\ parent
      BY <1>1 DEF Freeing, HInv, HandleInv, ParentKnown
<1>3. (HandleNamesReceiver /\ NoCallbackAfterFree /\ HandleFree)'
      BY <1>1 DEF HInv, HandleInv, HandleNamesReceiver, NoCallbackAfterFree, HandleFree
<1>4. ParentKnown'
      BY <1>2 DEF ParentKnown
<1>5. FreeState'
      BY <1>1 DEF FreeState, FreePcs, HInv, HandleInv
<1>6. ExitedCleared'
      BY <1>1 DEF ExitedCleared, HInv, HandleInv, MutexInv, TypeOK
<1> QED BY <1>3, <1>4, <1>5, <1>6 DEF HandleInv

\* A step of a status thread that leaves the handle alone, or clears it and ends.
LEMMA StatusHandle ==
  ASSUME HInv, NEW i \in Cmds, NEW l, pc' = [pc EXCEPT ![i] = l], UNCHANGED <<conn, joining, parent>>,
         \/ /\ pc[i] \in LoopPcs \union {"clean_lock"} /\ handle' = handle
            /\ \/ l \in LoopPcs /\ pc[i] \in LoopPcs
               \/ l \in {"clean_lock", "clean"}
         \/ pc[i] = "clean" /\ handle' = 0 /\ l = "clean_unlock"
         \/ pc[i] = "clean_unlock" /\ handle' = handle /\ l = "exited"
  PROVE  HandleInv'
<1>1. /\ pc'[i] = l /\ \A j \in Cmds : j # i => pc'[j] = pc[j]
      /\ \A u \in Threads : pc'[u] = pc[u]
      BY LoopFacts DEF HInv, MutexInv, TypeOK
<1>2. \A j \in Cmds : pc[j] \in LoopPcs \union {"clean_lock", "clean"} => handle = j
      BY DEF HInv, HandleInv, HandleNamesReceiver
<1>3. Freeing' <=> Freeing
      BY <1>1 DEF Freeing
<1>4. HandleNamesReceiver'
      BY <1>1, <1>2 DEF HandleNamesReceiver, LoopPcs
<1>5. NoCallbackAfterFree' /\ HandleFree'
      BY <1>1 DEF HInv, HandleInv, NoCallbackAfterFree, HandleFree, LoopPcs
<1>6. ParentKnown'
      BY <1>3 DEF HInv, HandleInv, ParentKnown
<1>7. FreeState'
      BY <1>1 DEF HInv, HandleInv, FreeState
<1>8. ExitedCleared'
      BY <1>1 DEF HInv, HandleInv, ExitedCleared, MutexInv, TypeOK, LoopPcs
<1> QED BY <1>4, <1>5, <1>6, <1>7, <1>8 DEF HandleInv

LEMMA CallHandle ==
  ASSUME OneThread, HInv, NEW t \in Threads, (\E ty \in Types : Call(t, ty)) \/ SendLock(t) \/ Send(t) \/ Check(t)
  PROVE  HandleInv'
<1>1. pc[t] \in Begun => handle = 0
      BY DEF HInv, HandleInv, HandleFree
<1>2. UNCHANGED <<handle, conn, joining, parent>>
      BY DEF Call, SendLock, Send, Check, clientVars, callVars
<1>3. pc[t] \notin FreePcs /\ (pc[t] = "idle" \/ pc[t] \in Begun)
      BY DEF Call, SendLock, Send, Check, FreePcs, Begun
<1>4. CASE pc' = pc
      BY <1>2, <1>4 DEF HInv, HandleInv, HandleNamesReceiver, NoCallbackAfterFree, HandleFree, ParentKnown,
         FreeState, ExitedCleared, Freeing
<1>5. CASE pc' # pc
  <2>1. \E l \in {"idle", "send_lock", "send", "check", "new", "lock"} :
          pc' = [pc EXCEPT ![t] = l] /\ (l # "idle" => handle = 0)
        BY <1>1, <1>5 DEF Call, SendLock, Send, Check, Goto, Begun
  <2> QED BY <1>2, <1>3, <2>1, AppHandle DEF FreePcs, Begun, LoopPcs
<1> QED BY <1>4, <1>5

LEMMA NewThreadHandle ==
  ASSUME OneThread, HInv, NEW t \in Threads, NewThread(t)
  PROVE  HandleInv'
<1>1. pc[t] = "new" /\ handle = 0 /\ UNCHANGED <<conn, joining, parent>>
      BY DEF HInv, HandleInv, HandleFree, NewThread, Begun, callVars
<1>2. CASE pc' = [pc EXCEPT ![t] = "idle"] /\ UNCHANGED handle
      BY <1>1, <1>2, AppHandle DEF FreePcs, Begun, LoopPcs
<1>3. CASE pc' = [pc EXCEPT ![t] = "idle", ![cmd[t]] = "lock"] /\ handle' = cmd[t]
  <2>1. cmd[t] \in Cmds
        BY <1>1 DEF HInv, MutexInv, TypeOK, Numbered, Begun
  <2>2. /\ \A u \in Threads : u = t /\ pc'[u] = "idle"
        /\ \A j \in Cmds : pc'[j] = IF j = cmd[t] THEN "lock" ELSE pc[j]
        BY <1>3, <2>1, LoopFacts DEF OneThread, HInv, MutexInv, TypeOK
  <2>3. \A j \in Cmds : pc[j] \notin LoopPcs \union {"clean_lock", "clean"}
        BY <1>1, LoopFacts DEF HInv, HandleInv, HandleNamesReceiver
  <2>4. parent /\ ~Freeing' /\ conn # "freed"
    <3>1. \A u \in Threads : pc[u] = "new"
          BY <1>1 DEF OneThread
    <3> QED BY <2>2, <3>1 DEF HInv, HandleInv, ParentKnown, FreeState, Freeing, FreePcs
  <2>5. HandleNamesReceiver' /\ NoCallbackAfterFree' /\ HandleFree' /\ ParentKnown' /\ FreeState'
        BY <1>1, <1>3, <2>2, <2>3, <2>4 DEF HandleNamesReceiver, NoCallbackAfterFree, HandleFree, ParentKnown,
           FreeState, Begun, LoopPcs
  <2>6. ExitedCleared'
        BY <1>3, <2>1, <2>2 DEF ExitedCleared, LoopPcs
  <2> QED BY <2>5, <2>6 DEF HandleInv
<1> QED BY <1>2, <1>3 DEF NewThread, Goto

LEMMA LoopHandle ==
  ASSUME OneThread, HInv, NEW p \in Loops, LoopStep(p)
  PROVE  HandleInv'
<1>1. /\ pc[p] \in LoopPcs /\ UNCHANGED <<handle, conn, joining, parent>>
      BY LoopMoves DEF HInv, callVars
<1>2. \E l \in LoopPcs \union {LoopEnd(p)} : pc' = [pc EXCEPT ![p] = l]
      BY DEF LoopStep, LoopLock, LoopReceiveError, LoopTimeout, LoopReceive, LoopStatus, LoopHead,
         LoopPcs, Goto
<1>3. CASE p \in Threads
  <2>1. handle = 0
        BY <1>1, <1>3 DEF HInv, HandleInv, HandleFree
  <2> QED BY <1>1, <1>2, <1>3, <2>1, AppHandle DEF LoopEnd, LoopPcs, FreePcs
<1>4. CASE p \in Cmds
  <2>1. p \notin Threads
        BY <1>4, LoopFacts
  <2> QED BY <1>1, <1>2, <1>4, <2>1, StatusHandle DEF LoopEnd
<1> QED BY <1>3, <1>4 DEF Loops

LEMMA CleanHandle ==
  ASSUME HInv, NEW i \in Cmds, CleanStep(i)
  PROVE  HandleInv'
BY StatusHandle DEF CleanStep, CleanLock, Clean, CleanUnlock, Goto, callVars, clientVars

LEMMA FreeHandle ==
  ASSUME OneThread, HInv, NEW t \in Threads, FreeCall(t) \/ FreeCheck(t) \/ FreeJoin(t) \/ FreeClose(t)
  PROVE  HandleInv'
<1>1. PICK l \in FreePcs : pc' = [pc EXCEPT ![t] = l]
      BY DEF FreeCall, FreeCheck, FreeJoin, FreeClose, Goto, FreePcs
<1>2. /\ \A i \in Cmds : pc'[i] = pc[i]
      /\ \A u \in Threads : u = t /\ pc'[u] = l
      BY <1>1, LoopFacts DEF OneThread, HInv, MutexInv, TypeOK
<1>3. handle' = handle
  <2>1. CASE FreeJoin(t)
    <3>1. handle # 0 => joining = handle /\ pc[handle] # "exited"
          BY <2>1 DEF FreeJoin, HInv, HandleInv, FreeState, ExitedCleared, LoopPcs
    <3> QED BY <2>1, <3>1 DEF FreeJoin
  <2> QED BY <2>1 DEF FreeCall, FreeCheck, FreeClose, clientVars
<1>4. ~parent'
  <2>1. pc[t] \in FreePcs => ~parent
        BY DEF HInv, HandleInv, ParentKnown, Freeing
  <2> QED BY <2>1 DEF FreeCall, FreeCheck, FreeJoin, FreeClose, FreePcs, clientVars
<1>5. HandleNamesReceiver' /\ HandleFree' /\ ExitedCleared'
  <2>1. l \notin Begun \union LoopPcs
        BY DEF FreePcs, Begun, LoopPcs
  <2> QED BY <1>2, <1>3, <2>1 DEF HInv, HandleInv, HandleNamesReceiver, HandleFree, ExitedCleared, MutexInv, TypeOK
<1>6. ParentKnown'
      BY <1>2, <1>4 DEF ParentKnown, Freeing
<1>7. FreeState'
  <2>1. pc'[t] = "free_join" => handle' \in {0, joining'}
        BY <1>2, <1>3, LoopFacts DEF HInv, MutexInv, TypeOK, FreeCall, FreeCheck, FreeJoin, FreeClose, Goto
  <2>2. pc'[t] \in {"free_close", "freed"} => handle' = 0
    <3>1. pc[t] = "free_close" => handle = 0
          BY DEF HInv, HandleInv, FreeState
    <3> QED BY <1>2, <1>3, <3>1, LoopFacts DEF HInv, MutexInv, TypeOK, FreeCall, FreeCheck, FreeJoin,
            FreeClose, Goto
  <2>3. conn' = "freed" => pc'[t] = "freed"
    <3>1. conn = "freed" => pc[t] = "freed"
          BY <1>2 DEF HInv, HandleInv, FreeState
    <3> QED BY <3>1, LoopFacts DEF HInv, MutexInv, TypeOK, FreeCall, FreeCheck, FreeJoin, FreeClose, Goto,
            clientVars
  <2> QED BY <1>2, <2>1, <2>2, <2>3 DEF FreeState
<1>8. NoCallbackAfterFree'
  <2>1. pc[t] = "free_close" => \A i \in Cmds : pc[i] \notin LoopPcs
        BY LoopFacts DEF HInv, HandleInv, FreeState, HandleNamesReceiver
  <2> QED BY <1>2, <2>1 DEF NoCallbackAfterFree, HInv, HandleInv, FreeCall, FreeCheck, FreeJoin, FreeClose, clientVars
<1> QED BY <1>5, <1>6, <1>7, <1>8 DEF HandleInv

LEMMA DeviceHandle ==
  ASSUME HInv, DeviceStatus \/ DeviceLost \/ UNCHANGED vars
  PROVE  HandleInv'
BY DEF DeviceStatus, DeviceLost, vars, clientVars, callVars, HInv, HandleInv, HandleNamesReceiver,
   NoCallbackAfterFree, HandleFree, ParentKnown, FreeState, ExitedCleared, Freeing

LEMMA StepHandle == OneThread /\ HInv /\ [Next]_vars => HInv'
<1> SUFFICES ASSUME OneThread, HInv, [Next]_vars PROVE HInv'
    OBVIOUS
<1>1. MutexInv'
      BY StepMutex DEF HInv
<1>2. HandleInv'
      BY CallHandle, NewThreadHandle, LoopHandle, CleanHandle, FreeHandle, DeviceHandle
         DEF Next, AppStep, Finished
<1> QED BY <1>1, <1>2 DEF HInv

\* With one application thread the handle names the status thread that receives, and no
\* status callback is made once the client is freed.
THEOREM Safety == ASSUME OneThread PROVE Spec => []Inv
<1>1. HInv => Inv
      BY DEF HInv, HandleInv, MutexInv, Inv
<1>2. HInv /\ [Next]_vars => HInv'
      BY StepHandle
<1> QED BY <1>1, <1>2, InitHandle, PTL DEF Spec

-----------------------------------------------------------------------------
(* Statuses and their commands, for one application thread                 *)

FullInv == HInv /\ OwnInv

\* At most one thread reads the stream, and none while a command begins.
LEMMA OneReader ==
  ASSUME OneThread, HInv
  PROVE  /\ \A p, q \in Loops : pc[p] \in LoopPcs /\ pc[q] \in LoopPcs => p = q
         /\ \A t \in Threads : pc[t] \in Begun => \A p \in Loops : pc[p] \notin LoopPcs
<1>1. \A t, u \in Threads : t = u
      BY DEF OneThread
<1>2. \A i \in Cmds : pc[i] \in LoopPcs => handle = i /\ handle # 0
      BY LoopFacts DEF HInv, HandleInv, HandleNamesReceiver
<1>3. \A t \in Threads : pc[t] \in Begun \union LoopPcs => handle = 0
      BY DEF HInv, HandleInv, HandleFree
<1>4. \A t \in Threads : pc[t] \in Begun => pc[t] \notin LoopPcs
      BY DEF Begun, LoopPcs
<1> QED BY <1>1, <1>2, <1>3, <1>4 DEF Loops

\* A thread in a command has not freed the client.
LEMMA NotFreed ==
  ASSUME OneThread, HInv, NEW t \in Threads, pc[t] \notin FreePcs
  PROVE  parent
BY DEF OneThread, HInv, HandleInv, ParentKnown, Freeing

\* A message that the device adds, and a message that a loop takes.
LEMMA AboutAppend ==
  ASSUME TypeOK, conn = "open", devq # <<>>, NEW k \in Kinds,
         inbox' = Append(inbox, <<Head(devq), k>>),
         devq' = IF HasError(k) \/ k = "Complete" THEN Tail(devq) ELSE devq,
         conn' = conn, NEW c, About(c)
  PROVE  About(c)'
<1>1. devq = <<c>> /\ Head(devq) = c /\ Tail(devq) = <<>>
  <2>1. devq = <<c>>
        BY Zenon DEF About
  <2>2. Head(<<c>>) = c /\ Tail(<<c>>) = <<>>
        OBVIOUS
  <2> QED BY <2>1, <2>2, Zenon
<1>2. inbox \in Seq(Messages) /\ Len(inbox) \in Nat
      BY DEF TypeOK
<1>3. /\ Len(inbox') = Len(inbox) + 1
      /\ \A j \in 1..Len(inbox) : inbox'[j] = inbox[j]
      /\ inbox'[Len(inbox) + 1] = <<c, k>>
      BY <1>1, <1>2
<1>4. \A j \in 1..Len(inbox) : inbox[j][1] = c /\ ~Final(inbox[j])
      BY <1>1 DEF About
<1>5. Final(<<c, k>>) => devq' = <<>>
      BY <1>1 DEF Final
<1>6. devq' \in {<<>>, <<c>>}
      BY <1>1
<1>7. ASSUME NEW j \in 1..Len(inbox')
      PROVE  inbox'[j][1] = c /\ (Final(inbox'[j]) => j = Len(inbox') /\ devq' = <<>>)
  <2>1. CASE j = Len(inbox) + 1
        BY <1>3, <1>5, <2>1
  <2>2. CASE j \in 1..Len(inbox)
        BY <1>3, <1>4, <2>2
  <2> QED BY <1>2, <1>3, <2>1, <2>2
<1> HIDE DEF Final
<1> QED BY <1>6, <1>7 DEF About, Final

LEMMA AboutTail ==
  ASSUME TypeOK, inbox # <<>>, inbox' = Tail(inbox), UNCHANGED <<devq, conn>>, NEW c, About(c)
  PROVE  /\ Head(inbox)[1] = c
         /\ IF Final(Head(inbox)) THEN Quiet' ELSE About(c)'
<1>1. inbox \in Seq(Messages) /\ Len(inbox) \in Nat \ {0}
      BY DEF TypeOK
<1>2. /\ Len(inbox') = Len(inbox) - 1 /\ Head(inbox) = inbox[1]
      /\ \A j \in 1..(Len(inbox) - 1) : inbox'[j] = inbox[j + 1]
      BY <1>1
<1>3. Head(inbox)[1] = c /\ (Final(Head(inbox)) => Len(inbox) = 1 /\ (conn = "open" => devq = <<>>))
  <2>1. 1 \in 1..Len(inbox)
        BY <1>1
  <2>2. inbox[1][1] = c /\ (Final(inbox[1]) => 1 = Len(inbox) /\ (conn = "open" => devq = <<>>))
        BY <2>1, Zenon DEF About
  <2> QED BY <1>2, <2>2
<1>4. ASSUME Len(inbox) = 1 PROVE inbox' = <<>>
      BY <1>1, <1>2, <1>4
<1>5. ASSUME NEW j \in 1..Len(inbox')
      PROVE  inbox'[j][1] = c /\ (Final(inbox'[j]) => j = Len(inbox') /\ (conn = "open" => devq = <<>>))
  <2>1. j + 1 \in 1..Len(inbox) /\ inbox'[j] = inbox[j + 1]
        BY <1>1, <1>2
  <2>2. inbox[j + 1][1] = c /\ (Final(inbox[j + 1]) => j + 1 = Len(inbox) /\ (conn = "open" => devq = <<>>))
        BY <2>1, Zenon DEF About
  <2>3. ASSUME j + 1 = Len(inbox) PROVE j = Len(inbox')
    <3>1. Len(inbox) \in Nat /\ j \in Nat
          BY <1>1
    <3>2. j = Len(inbox) - 1
          BY <2>3, <3>1
    <3> QED BY <1>2, <3>2, Zenon
  <2> QED BY <2>1, <2>2, <2>3, Zenon
<1>6. conn = "open" => devq \in {<<>>, <<c>>}
      BY DEF About
<1> QED BY <1>3, <1>4, <1>5, <1>6 DEF Quiet, About, Final

LEMMA InitOwn == Init => FullInv
<1> SUFFICES ASSUME Init PROVE FullInv
    OBVIOUS
<1>1. NotComplete /\ FromSent
      BY LoopFacts DEF Init, NotComplete, FromSent
<1>2. StreamOwned /\ QuietBetween /\ SuccessReported
      BY LoopFacts DEF Init, StreamOwned, QuietBetween, Quiet, SuccessReported
<1> QED BY <1>1, <1>2, InitHandle DEF FullInv, OwnInv

\* What is still to be said does not change when the stream does not and no connection opens.
LEMMA AboutSame ==
  ASSUME UNCHANGED <<inbox, devq>>, conn' = "open" => conn = "open"
  PROVE  (Quiet => Quiet') /\ \A c : About(c) => About(c)'
BY DEF Quiet, About

LEMMA AboutCommand ==
  ASSUME UNCHANGED <<inbox, devq, cmd>>, conn' = "open" => conn = "open", NEW p
  PROVE  (Quiet => Quiet') /\ (About(CommandOf(p)) => About(CommandOf(p))')
<1>1. PICK c : c = CommandOf(p)
      OBVIOUS
<1>2. CommandOf(p)' = c
      BY <1>1 DEF CommandOf
<1> QED BY <1>1, <1>2, AboutSame DEF About

\* The steps that neither touch the stream nor begin or end a loop.
LEMMA StillOwn ==
  ASSUME OneThread, FullInv, NEW p \in Loops,
         NEW l \in {"send", "receive", "clean", "clean_unlock", "exited"} \union FreePcs,
         pc' = [pc EXCEPT ![p] = l],
         UNCHANGED <<cmd, type, loopVars, devq, inbox, sent, reported, abandoned>>,
         conn' = "open" => conn = "open",
         pc[p] \notin {"check", "new", "receive", "status", "head"},
         l = "receive" <=> pc[p] = "lock",
         parent' => parent /\ (handle' = handle \/ (handle' = 0 /\ handle # 0 /\ pc[handle] = "clean"))
  PROVE  OwnInv'
<1>1. \A q \in Loops : pc'[q] = IF q = p THEN l ELSE pc[q]
      BY DEF FullInv, HInv, MutexInv, TypeOK
<1>2. l \notin {"idle", "check", "new", "lock", "head", "status"}
      BY DEF FreePcs
<1>3. \A q \in Loops : CommandOf(q)' = CommandOf(q)
      BY DEF CommandOf
<1>4. (Quiet => Quiet') /\ \A c : About(c) => About(c)'
      BY AboutSame
<1>5. NotComplete'
      BY <1>1, <1>2, LoopFacts DEF FullInv, OwnInv, NotComplete, loopVars
<1>6. FromSent'
      BY DEF FullInv, OwnInv, FromSent
<1>7. ASSUME ~abandoned PROVE StreamOwned'
  <2>1. StreamOwned
        BY <1>7 DEF FullInv, OwnInv
  <2>2. \A t \in Threads : pc'[t] \in {"check", "new"} => pc[t] \in {"check", "new"}
        BY <1>1, <1>2, LoopFacts
  <2>3. \A q \in Loops : /\ pc'[q] \in {"lock", "receive"} => pc[q] \in {"lock", "receive"}
                         /\ pc'[q] \in {"head", "status"} => pc[q] = pc'[q]
        BY <1>1, <1>2
  <2> QED BY <1>3, <1>4, <2>1, <2>2, <2>3 DEF StreamOwned, loopVars
<1>8. ASSUME ~abandoned PROVE QuietBetween'
  <2>1. QuietBetween
        BY <1>8 DEF FullInv, OwnInv
  <2>2. SUFFICES ASSUME parent', handle' # 0 => pc'[handle'] \notin LoopPcs,
                        \A t \in Threads : pc'[t] \notin {"check", "new"} \union LoopPcs
                 PROVE  Quiet
        BY <1>4 DEF QuietBetween
  <2>3. pc[p] \notin {"check", "new"} \union LoopPcs
    <3>1. pc[p] = "lock" => pc'[p] = "receive"
          BY <1>1
    <3>2. p \in Threads => pc'[p] \notin LoopPcs
          BY <2>2
    <3>3. p \in Cmds /\ pc[p] = "lock" => handle = p
          BY DEF FullInv, HInv, HandleInv, HandleNamesReceiver, LoopPcs
    <3>4. p \in Cmds /\ pc[p] = "lock" => handle' = p /\ handle' # 0
          BY <2>2, <3>3, LoopFacts
    <3> QED BY <2>2, <3>1, <3>2, <3>4 DEF LoopPcs, Loops
  <2>4. \A t \in Threads : pc[t] \notin {"check", "new"} \union LoopPcs
        BY <1>1, <2>2, <2>3, LoopFacts
  <2>5. handle # 0 => pc[handle] \notin LoopPcs
    <3>1. handle # 0 => handle \in Loops
          BY LoopFacts DEF FullInv, HInv, MutexInv, TypeOK
    <3>2. "clean" \notin LoopPcs
          BY DEF LoopPcs
    <3> QED BY <1>1, <2>2, <2>3, <3>1, <3>2
  <2> QED BY <2>1, <2>2, <2>4, <2>5 DEF QuietBetween
<1>9. ASSUME ~abandoned PROVE SuccessReported'
  <2>1. \A t \in Threads : pc'[t] \in {"idle", "head", "new"} => pc[t] = pc'[t]
        BY <1>1, <1>2, LoopFacts
  <2> QED BY <1>9, <2>1 DEF FullInv, OwnInv, SuccessReported, Reported, loopVars
<1> QED BY <1>5, <1>6, <1>7, <1>8, <1>9 DEF OwnInv

\* A thread that waits for the mutex, cleans up or frees the client.
LEMMA EndOwn ==
  ASSUME OneThread, FullInv,
         \/ \E t \in Threads : SendLock(t) \/ FreeCall(t) \/ FreeCheck(t) \/ FreeJoin(t) \/ FreeClose(t)
         \/ \E i \in Cmds : CleanStep(i)
         \/ \E p \in Loops : LoopLock(p)
  PROVE  OwnInv'
<1>1. CASE \E t \in Threads : SendLock(t) \/ FreeCall(t) \/ FreeCheck(t) \/ FreeJoin(t) \/ FreeClose(t)
  <2>1. PICK t \in Threads : SendLock(t) \/ FreeCall(t) \/ FreeCheck(t) \/ FreeJoin(t) \/ FreeClose(t)
        BY <1>1
  <2>2. pc[t] \in FreePcs => ~parent
        BY DEF FullInv, HInv, HandleInv, ParentKnown, Freeing
  <2>3. PICK l \in {"send"} \union FreePcs : pc' = [pc EXCEPT ![t] = l]
        BY <2>1 DEF SendLock, FreeCall, FreeCheck, FreeJoin, FreeClose, Goto, FreePcs
  <2>4. pc[t] \in {"idle", "send_lock"} \union FreePcs /\ (parent' => parent /\ handle' = handle)
        BY <2>1, <2>2 DEF SendLock, FreeCall, FreeCheck, FreeJoin, FreeClose, FreePcs, clientVars
  <2>5. /\ UNCHANGED <<cmd, type, loopVars, devq, inbox, sent, reported, abandoned>>
        /\ conn' = "open" => conn = "open"
        BY <2>1 DEF SendLock, FreeCall, FreeCheck, FreeJoin, FreeClose, callVars, clientVars, devVars, histVars
  <2>6. /\ l \in {"send", "receive", "clean", "clean_unlock", "exited"} \union FreePcs
        /\ pc[t] \notin {"check", "new", "receive", "status", "head"}
        /\ l = "receive" <=> pc[t] = "lock"
        /\ t \in Loops
        BY <2>4, LoopFacts DEF FreePcs
  <2>7. parent' => parent /\ (handle' = handle \/ (handle' = 0 /\ handle # 0 /\ pc[handle] = "clean"))
        BY <2>4
  <2> QED BY <2>3, <2>5, <2>6, <2>7, StillOwn, Zenon
<1>2. CASE \E i \in Cmds : CleanStep(i)
  <2>1. PICK i \in Cmds : CleanStep(i)
        BY <1>2
  <2>2. PICK l \in {"clean", "clean_unlock", "exited"} : pc' = [pc EXCEPT ![i] = l]
        BY <2>1 DEF CleanStep, CleanLock, Clean, CleanUnlock, Goto
  <2>3. /\ pc[i] \in {"clean_lock", "clean", "clean_unlock"} /\ parent' = parent /\ conn' = conn
        /\ (handle' = handle \/ (pc[i] = "clean" /\ handle' = 0))
        BY <2>1 DEF CleanStep, CleanLock, Clean, CleanUnlock, clientVars
  <2>4. pc[i] = "clean" => handle = i /\ handle # 0
        BY LoopFacts DEF FullInv, HInv, HandleInv, HandleNamesReceiver
  <2>5. UNCHANGED <<cmd, type, loopVars, devq, inbox, sent, reported, abandoned>>
        BY <2>1 DEF CleanStep, CleanLock, Clean, CleanUnlock, callVars, devVars, histVars
  <2>6. /\ l \in {"send", "receive", "clean", "clean_unlock", "exited"} \union FreePcs
        /\ pc[i] \notin {"check", "new", "receive", "status", "head"}
        /\ l = "receive" <=> pc[i] = "lock"
        /\ conn' = "open" => conn = "open"
        /\ i \in Loops
        BY <2>3, LoopFacts
  <2>7. parent' => parent /\ (handle' = handle \/ (handle' = 0 /\ handle # 0 /\ pc[handle] = "clean"))
        BY <2>3, <2>4
  <2> QED BY <2>2, <2>5, <2>6, <2>7, StillOwn, Zenon
<1>3. CASE \E p \in Loops : LoopLock(p)
  <2>1. PICK p \in Loops : LoopLock(p)
        BY <1>3
  <2>2. /\ pc[p] = "lock" /\ pc' = [pc EXCEPT ![p] = "receive"]
        /\ UNCHANGED <<cmd, type, loopVars, devq, inbox, sent, reported, abandoned>>
        /\ conn' = "open" => conn = "open"
        BY <2>1 DEF LoopLock, Goto, callVars, devVars, histVars
  <2>3. parent' => parent /\ (handle' = handle \/ (handle' = 0 /\ handle # 0 /\ pc[handle] = "clean"))
        BY <2>1 DEF LoopLock
  <2>4. /\ pc[p] \notin {"check", "new", "receive", "status", "head"}
        /\ "receive" = "receive" <=> pc[p] = "lock"
        /\ "receive" \in {"send", "receive", "clean", "clean_unlock", "exited"} \union FreePcs
        BY <2>2
  <2> QED BY <2>2, <2>3, <2>4, StillOwn, Zenon
<1> QED BY <1>1, <1>2, <1>3

\* A loop, or a thread that has sent its command, reads the stream alone: what the stream
\* says after its step is of the command it performs, or the thread has ended it.
LEMMA MoveOwn ==
  ASSUME OneThread, FullInv, NEW p \in Loops, pc[p] \in LoopPcs \/ (p \in Threads /\ pc[p] = "check"), NEW l,
         pc' = [pc EXCEPT ![p] = l],
         UNCHANGED <<handle, cmd, type, sent, devq, conn>>,
         \A q \in Loops \ {p} : res'[q] = res[q] /\ complete'[q] = complete[q],
         reported \subseteq reported', \A r \in reported' \ reported : ~abandoned => r[1] = r[2][1],
         inbox' = inbox \/ (inbox # <<>> /\ inbox' = Tail(inbox)),
         l \in {"lock", "receive", "status"} => ~complete'[p],
         p \in Cmds => l \notin {"idle", "new"},
         abandoned => abandoned',
         ~abandoned' =>
           /\ l \in {"new", "lock"} => About(CommandOf(p))'
           /\ l = "head" => IF complete'[p] THEN Quiet' ELSE About(CommandOf(p))'
           /\ l = "status" => /\ node'[p][1] = CommandOf(p) /\ node'[p][1] \in sent
                              /\ IF Final(node[p])' THEN Quiet' ELSE About(CommandOf(p))'
           /\ parent' /\ l \notin {"new"} \union LoopPcs => Quiet'
           /\ p \in Threads =>
                /\ l = "idle" /\ type[p] = "sync" /\ res'[p] = "SUCCESS" => Reported(p)'
                /\ l = "head" /\ complete'[p] /\ res'[p] = "SUCCESS" => Reported(p)'
                /\ l = "new" => type[p] = "async",
         l \notin {"check", "receive"}
  PROVE  OwnInv'
<1>1. \A q \in Loops : pc'[q] = IF q = p THEN l ELSE pc[q]
      BY DEF FullInv, HInv, MutexInv, TypeOK
<1>2. /\ \A q \in Loops \ {p} : pc[q] \notin LoopPcs
      /\ \A t \in Threads \ {p} : pc[t] \notin Begun
  <2>1. \A q, r \in Loops : pc[q] \in LoopPcs /\ pc[r] \in LoopPcs => q = r
        BY OneReader DEF FullInv
  <2>2. \A t \in Threads : pc[t] \in Begun => \A q \in Loops : pc[q] \notin LoopPcs
        BY OneReader DEF FullInv
  <2> QED BY <2>1, <2>2 DEF OneThread, Begun
<1>3. NotComplete'
  <2>1. \A q \in Loops : pc'[q] \in {"lock", "receive", "status"} => ~complete'[q]
        BY <1>1, Zenon DEF FullInv, OwnInv, NotComplete
  <2>2. \A i \in Cmds : pc'[i] = "idle" => ~complete'[i]
    <3>1. ASSUME NEW i \in Cmds, pc'[i] = "idle" PROVE i \in Loops \ {p} /\ pc[i] = "idle"
          BY <1>1, <3>1, LoopFacts
    <3> QED BY <3>1, Zenon DEF FullInv, OwnInv, NotComplete
  <2> QED BY <2>1, <2>2 DEF NotComplete
<1>4. FromSent'
  <2>1. inbox' # inbox => \A k \in 1..Len(inbox') : k + 1 \in 1..Len(inbox) /\ inbox'[k] = inbox[k + 1]
        BY DEF FullInv, HInv, MutexInv, TypeOK
  <2> QED BY <2>1 DEF FullInv, OwnInv, FromSent
<1>5. \A q \in Loops : CommandOf(q)' = CommandOf(q)
      BY DEF CommandOf
<1>6. ASSUME ~abandoned' PROVE StreamOwned'
  <2>1. \A t \in Threads : pc'[t] \in {"check", "new"} => About(cmd[t])'
        BY <1>1, <1>2, <1>6 DEF Begun, CommandOf
  <2>2. \A q \in Loops : q # p => pc'[q] \notin LoopPcs
        BY <1>1, <1>2
  <2>3. pc'[p] = l
        BY <1>1
  <2>4. \A q \in Loops :
          /\ pc'[q] \in {"lock", "receive"} => About(CommandOf(q))'
          /\ pc'[q] = "head" => IF complete'[q] THEN Quiet' ELSE About(CommandOf(q))'
          /\ pc'[q] = "status" => /\ node'[q][1] = CommandOf(q) /\ node'[q][1] \in sent
                                  /\ IF Final(node[q])' THEN Quiet' ELSE About(CommandOf(q))'
        BY <1>6, <2>2, <2>3 DEF LoopPcs
  <2> QED BY <1>5, <2>1, <2>4 DEF StreamOwned
<1>7. ASSUME ~abandoned' PROVE QuietBetween'
  <2>1. SUFFICES ASSUME parent', handle' # 0 => pc'[handle'] \notin LoopPcs,
                        \A t \in Threads : pc'[t] \notin {"check", "new"} \union LoopPcs
                 PROVE  Quiet'
        BY DEF QuietBetween
  <2>2. l \notin {"new"} \union LoopPcs
    <3>1. CASE p \in Threads
          BY <1>1, <2>1, <3>1
    <3>2. CASE p \in Cmds
      <4>1. handle = p /\ p # 0 /\ p \notin Threads
            BY <3>2, LoopFacts DEF FullInv, HInv, HandleInv, HandleNamesReceiver
      <4>2. l \notin LoopPcs
            BY <1>1, <2>1, <4>1
      <4> QED BY <3>2, <4>2
    <3> QED BY <3>1, <3>2 DEF Loops
  <2> QED BY <1>7, <2>1, <2>2
<1>8. ASSUME ~abandoned' PROVE SuccessReported'
  <2>1. SuccessReported
        BY <1>8 DEF FullInv, OwnInv
  <2>2. \A r \in reported' : r[1] = r[2][1]
        BY <1>8, <2>1 DEF SuccessReported
  <2>3. \A t \in Threads : t # p => pc'[t] = pc[t] /\ res'[t] = res[t] /\ complete'[t] = complete[t]
        BY <1>1, LoopFacts
  <2>4. \A t \in Threads : Reported(t) => Reported(t)'
        BY DEF Reported
  <2>5. pc'[p] = l
        BY <1>1
  <2>6. \A t \in Threads \ {p} :
          /\ pc'[t] = "idle" /\ type[t] = "sync" /\ res'[t] = "SUCCESS" => Reported(t)'
          /\ pc'[t] = "head" /\ complete'[t] /\ res'[t] = "SUCCESS" => Reported(t)'
          /\ pc'[t] = "new" => type[t] = "async"
        BY <2>1, <2>3, <2>4 DEF SuccessReported
  <2> QED BY <1>8, <2>2, <2>5, <2>6 DEF SuccessReported
<1> QED BY <1>3, <1>4, <1>6, <1>7, <1>8 DEF OwnInv

\* A thread finds nobody else in a command and goes on to receive, or to make a thread.
LEMMA CheckOwn ==
  ASSUME OneThread, FullInv, NEW t \in Threads, Check(t)
  PROVE  OwnInv'
<1>1. pc[t] = "check" /\ handle = 0 /\ t \in Loops
      BY LoopFacts DEF Check, FullInv, HInv, HandleInv, HandleFree, Begun
<1>2. PICK l \in {"new", "lock"} : pc' = [pc EXCEPT ![t] = l] /\ (l = "new" <=> type[t] = "async")
      BY <1>1 DEF Check, Goto
<1>3. /\ UNCHANGED <<handle, parent, conn, cmd, type, sent, devq, inbox, res, reported, abandoned>>
      /\ complete' = [complete EXCEPT ![t] = FALSE]
      BY <1>1 DEF Check, clientVars, callVars, devVars, histVars
<1>4. /\ ~complete'[t]
      /\ \A q \in Loops \ {t} : complete'[q] = complete[q]
      BY <1>1, <1>3, Zenon DEF FullInv, HInv, MutexInv, TypeOK
<1>5. ASSUME ~abandoned PROVE About(CommandOf(t))'
  <2>1. About(CommandOf(t))
        BY <1>1, <1>5 DEF FullInv, OwnInv, StreamOwned, CommandOf
  <2> QED BY <1>3, <2>1, AboutCommand
<1>6. t \notin Cmds
      BY LoopFacts
<1> QED BY <1>1, <1>2, <1>3, <1>4, <1>5, <1>6, MoveOwn DEF LoopPcs

\* A loop that ends with an error has nothing left to receive, or the client is freed, or
\* the command is abandoned.
LEMMA ErrorOwn ==
  ASSUME OneThread, FullInv, NEW p \in Loops, LoopReceiveError(p)
  PROVE  OwnInv'
<1>1. pc[p] = "receive" /\ LoopError # "none" /\ pc' = [pc EXCEPT ![p] = LoopEnd(p)]
      BY DEF LoopReceiveError, Goto
<1>2. /\ UNCHANGED <<handle, parent, conn, cmd, type, sent, devq, complete, node, reported>>
      /\ res' = [res EXCEPT ![p] = LoopError]
      BY DEF LoopReceiveError, Result, callVars
<1>3. inbox' = inbox \/ (inbox # <<>> /\ inbox' = Tail(inbox))
      BY ErrorResult DEF LoopReceiveError
<1>4. /\ abandoned => abandoned'
      /\ ~abandoned' => LoopError # "PLIST_ERROR"
      BY DEF LoopReceiveError
<1>5. ASSUME ~abandoned', parent PROVE Quiet'
  <2>1. LoopError = "CONN_FAILED" /\ inbox = <<>> /\ conn = "lost" /\ inbox' = inbox
        BY <1>1, <1>4, <1>5 DEF LoopError, LoopReceiveError
  <2> QED BY <1>2, <2>1 DEF Quiet
<1>6. res'[p] # "SUCCESS"
  <2>1. res'[p] = LoopError
        BY <1>2 DEF FullInv, HInv, MutexInv, TypeOK
  <2> QED BY <2>1 DEF LoopError
<1>7. \A q \in Loops \ {p} : res'[q] = res[q] /\ complete'[q] = complete[q]
      BY <1>2 DEF FullInv, HInv, MutexInv, TypeOK
<1>8. /\ LoopEnd(p) \in {"idle", "clean_lock"}
      /\ p \in Cmds => LoopEnd(p) # "idle"
      BY LoopFacts DEF LoopEnd
<1> HIDE DEF LoopError
<1> QED BY <1>1, <1>2, <1>3, <1>4, <1>5, <1>6, <1>7, <1>8, MoveOwn DEF LoopPcs

\* A second without a message, and a message that is taken.
LEMMA TimeoutOwn ==
  ASSUME OneThread, FullInv, NEW p \in Loops, LoopTimeout(p)
  PROVE  OwnInv'
<1>1. pc[p] = "receive" /\ pc' = [pc EXCEPT ![p] = "head"]
      BY DEF LoopTimeout, Goto
<1>2. /\ UNCHANGED <<handle, parent, conn, cmd, type, sent, devq, inbox, complete, node, reported, abandoned>>
      /\ res' = [res EXCEPT ![p] = "RECEIVE_TIMEOUT"]
      BY DEF LoopTimeout, Result, callVars, devVars, histVars
<1>3. ~complete'[p]
      BY <1>1, <1>2 DEF FullInv, OwnInv, NotComplete
<1>4. ASSUME ~abandoned PROVE About(CommandOf(p))'
  <2>1. About(CommandOf(p))
        BY <1>1, <1>4 DEF FullInv, OwnInv, StreamOwned
  <2> QED BY <1>2, <2>1, AboutCommand
<1>5. \A q \in Loops \ {p} : res'[q] = res[q] /\ complete'[q] = complete[q]
      BY <1>2 DEF FullInv, HInv, MutexInv, TypeOK
<1> QED BY <1>1, <1>2, <1>3, <1>4, <1>5, MoveOwn DEF LoopPcs

LEMMA ReceiveOwn ==
  ASSUME OneThread, FullInv, NEW p \in Loops, LoopReceive(p)
  PROVE  OwnInv'
<1>1. pc[p] = "receive" /\ pc' = [pc EXCEPT ![p] = "status"] /\ inbox # <<>> /\ inbox' = Tail(inbox)
      BY DEF LoopReceive, Goto
<1>2. UNCHANGED <<handle, parent, conn, cmd, type, sent, devq, res, complete, reported, abandoned>>
      BY DEF LoopReceive, callVars, histVars
<1>3. ~complete'[p]
      BY <1>1, <1>2 DEF FullInv, OwnInv, NotComplete
<1>4. node'[p] = Head(inbox)
      BY DEF LoopReceive, FullInv, HInv, MutexInv, TypeOK
<1>5. ASSUME ~abandoned
      PROVE  /\ node'[p][1] = CommandOf(p) /\ node'[p][1] \in sent
             /\ IF Final(node[p])' THEN Quiet' ELSE About(CommandOf(p))'
  <2>1. About(CommandOf(p)) /\ TypeOK
        BY <1>1, <1>5 DEF FullInv, OwnInv, StreamOwned, HInv, MutexInv
  <2>2. /\ Head(inbox)[1] = CommandOf(p)
        /\ IF Final(Head(inbox)) THEN Quiet' ELSE About(CommandOf(p))'
    <3>1. PICK c : c = CommandOf(p)
          OBVIOUS
    <3>2. CommandOf(p)' = c
          BY <1>2, <3>1 DEF CommandOf
    <3>3. /\ Head(inbox)[1] = c
          /\ IF Final(Head(inbox)) THEN Quiet' ELSE About(c)'
          BY <1>1, <1>2, <2>1, <3>1, AboutTail
    <3> QED BY <3>1, <3>2, <3>3 DEF About
  <2>3. Head(inbox)[1] \in sent
    <3>1. 1 \in 1..Len(inbox) /\ Head(inbox) = inbox[1]
          BY <1>1, <2>1 DEF TypeOK
    <3> QED BY <3>1 DEF FullInv, OwnInv, FromSent
  <2> QED BY <1>4, <2>2, <2>3 DEF Final
<1>6. /\ \A q \in Loops \ {p} : res'[q] = res[q] /\ complete'[q] = complete[q]
      /\ reported \subseteq reported' /\ \A r \in reported' \ reported : FALSE
      /\ abandoned => abandoned'
      /\ pc[p] \in LoopPcs
      BY <1>1, <1>2 DEF LoopPcs
<1>7. ~abandoned' => ~abandoned
      BY <1>2
<1> HIDE DEF Final, LoopPcs
<1>8. "status" \in LoopPcs /\ "status" \notin {"idle", "new", "head", "lock", "check", "receive"}
      BY DEF LoopPcs
<1> QED BY ONLY OneThread, FullInv, <1>1, <1>2, <1>3, <1>5, <1>6, <1>7, <1>8, MoveOwn

\* A message is reported, and the loop is complete when it ends the command.
LEMMA StatusOwn ==
  ASSUME OneThread, FullInv, NEW p \in Loops, LoopStatus(p)
  PROVE  OwnInv'
<1> DEFINE kind == node[p][2]
<1>1. pc[p] = "status" /\ pc' = [pc EXCEPT ![p] = "head"] /\ node[p] \in Messages
      BY DEF LoopStatus, Goto, FullInv, HInv, MutexInv, InLoop
<1>2. /\ UNCHANGED <<handle, parent, conn, cmd, type, sent, devq, inbox, abandoned>>
      /\ res' = [res EXCEPT ![p] = StatusResult(kind)]
      /\ reported' = reported \union {<<CommandOf(p), node[p]>>}
      BY DEF LoopStatus, Result, clientVars, callVars, devVars
<1>3. complete'[p] <=> Final(node[p])
  <2>1. ~complete[p] /\ complete \in [Loops -> BOOLEAN]
        BY <1>1 DEF FullInv, OwnInv, NotComplete, HInv, MutexInv, TypeOK
  <2>2. complete' = [complete EXCEPT ![p] = complete[p] \/ HasError(kind) \/ kind = "Complete"]
        BY DEF LoopStatus
  <2>3. complete'[p] = (complete[p] \/ HasError(kind) \/ kind = "Complete")
        BY <2>1, <2>2, Zenon
  <2> QED BY <2>1, <2>3, Zenon DEF Final
<1>4. \A q \in Loops \ {p} : res'[q] = res[q] /\ complete'[q] = complete[q]
  <2>1. \A q \in Loops \ {p} : complete'[q] = complete[q]
        BY Zenon DEF LoopStatus, FullInv, HInv, MutexInv, TypeOK
  <2>2. \A q \in Loops \ {p} : res'[q] = res[q]
        BY <1>2, Zenon DEF FullInv, HInv, MutexInv, TypeOK
  <2> QED BY <2>1, <2>2
<1>5. ASSUME ~abandoned
      PROVE  /\ node[p][1] = CommandOf(p) /\ node[p][1] \in sent
             /\ IF complete'[p] THEN Quiet' ELSE About(CommandOf(p))'
  <2>1. /\ node[p][1] = CommandOf(p) /\ node[p][1] \in sent
        /\ IF Final(node[p]) THEN Quiet ELSE About(CommandOf(p))
        BY <1>1, <1>5, Zenon DEF FullInv, OwnInv, StreamOwned
  <2>2. (Quiet => Quiet') /\ (About(CommandOf(p)) => About(CommandOf(p))')
        BY <1>2, AboutCommand
  <2> QED BY <1>3, <2>1, <2>2
<1>6. ASSUME ~abandoned, p \in Threads, complete'[p], res'[p] = "SUCCESS" PROVE Reported(p)'
  <2>1. kind = "Complete"
    <3>1. res'[p] = StatusResult(kind)
          BY <1>2 DEF FullInv, HInv, MutexInv, TypeOK
    <3>2. HasError(kind) \/ kind = "Complete"
          BY <1>3, <1>6 DEF Final
    <3> QED BY <1>6, <3>1, <3>2 DEF StatusResult, HasError
  <2>2. node[p] = <<cmd[p], "Complete">> /\ CommandOf(p) = cmd[p] /\ cmd[p] \in sent
        BY <1>1, <1>5, <1>6, <2>1 DEF CommandOf, Messages
  <2> QED BY <1>2, <2>2 DEF Reported
<1>7. /\ reported \subseteq reported'
      /\ \A r \in reported' \ reported : ~abandoned => r[1] = r[2][1]
      BY <1>2, <1>5
<1>8. UNCHANGED <<handle, parent, conn, cmd, type, sent, devq, inbox, abandoned>>
      BY <1>2
<1>9. /\ pc[p] \in LoopPcs /\ "head" \notin {"check", "receive", "new", "lock", "status", "idle"}
      /\ "head" \in LoopPcs
      BY <1>1 DEF LoopPcs
<1> HIDE DEF kind
<1> QED BY <1>1, <1>4, <1>5, <1>6, <1>7, <1>8, <1>9, MoveOwn

\* A loop goes on, or ends: complete, and then nothing is left to be said.
LEMMA HeadOwn ==
  ASSUME OneThread, FullInv, NEW p \in Loops, LoopHead(p)
  PROVE  OwnInv'
<1>1. pc[p] = "head" /\ pc' = [pc EXCEPT ![p] = IF complete[p] \/ ~parent THEN LoopEnd(p) ELSE "lock"]
      BY DEF LoopHead, Goto
<1>2. UNCHANGED <<handle, parent, conn, cmd, type, sent, devq, inbox, complete, node, res, reported, abandoned>>
      BY DEF LoopHead, clientVars, callVars, loopVars, devVars, histVars
<1>3. /\ LoopEnd(p) \in {"idle", "clean_lock"}
      /\ p \in Cmds => LoopEnd(p) # "idle"
      BY LoopFacts DEF LoopEnd
<1>4. ASSUME ~abandoned PROVE IF complete[p] THEN Quiet' ELSE About(CommandOf(p))'
  <2>1. IF complete[p] THEN Quiet ELSE About(CommandOf(p))
        BY <1>1, <1>4 DEF FullInv, OwnInv, StreamOwned
  <2>2. (Quiet => Quiet') /\ (About(CommandOf(p)) => About(CommandOf(p))')
        BY <1>2, AboutCommand
  <2> QED BY <1>2, <2>1, <2>2
<1>5. ASSUME ~abandoned, p \in Threads, res[p] = "SUCCESS", complete[p] PROVE Reported(p)'
      BY <1>1, <1>2, <1>5 DEF FullInv, OwnInv, SuccessReported, Reported
<1>6. p \in Threads => parent
      BY <1>1, NotFreed DEF FullInv, FreePcs
<1>7. CASE complete[p] \/ ~parent
      BY <1>1, <1>2, <1>3, <1>4, <1>5, <1>6, <1>7, MoveOwn DEF LoopPcs
<1>8. CASE ~(complete[p] \/ ~parent)
      BY <1>1, <1>2, <1>4, <1>8, MoveOwn DEF LoopPcs
<1> QED BY <1>7, <1>8

LEMMA LoopOwn ==
  ASSUME OneThread, FullInv, NEW p \in Loops, LoopStep(p)
  PROVE  OwnInv'
BY EndOwn, ErrorOwn, TimeoutOwn, ReceiveOwn, StatusOwn, HeadOwn DEF LoopStep

\* A thread begins a command: nothing is sent yet.
LEMMA CallOwn ==
  ASSUME OneThread, FullInv, NEW t \in Threads, NEW ty \in Types, Call(t, ty)
  PROVE  OwnInv'
<1>1. PICK l \in {"idle", "send_lock"} : pc' = [pc EXCEPT ![t] = l]
  <2>1. pc' = [pc EXCEPT ![t] = "idle"] \/ pc' = [pc EXCEPT ![t] = "send_lock"]
        BY DEF Call, Goto, FullInv, HInv, MutexInv, TypeOK
  <2> QED BY <2>1
<1>2. pc[t] = "idle" /\ t \notin Cmds
      BY LoopFacts DEF Call
<1>3. /\ UNCHANGED <<handle, parent, conn, complete, node, inbox, devq, sent, reported, abandoned>>
      /\ \E r \in {"OP_IN_PROGRESS", "UNKNOWN_ERROR"} : res' = [res EXCEPT ![t] = r]
      BY DEF Call, Result, clientVars, devVars, histVars
<1>4. /\ \A q \in Loops : pc'[q] = IF q = t THEN l ELSE pc[q]
      /\ res'[t] # "SUCCESS" /\ \A u \in Threads : u = t
      BY <1>1, <1>3, LoopFacts DEF OneThread, FullInv, HInv, MutexInv, TypeOK
<1>5. \A q \in Loops : pc'[q] \in LoopPcs \union {"check", "new"} =>
                         q # t /\ pc'[q] = pc[q] /\ CommandOf(q)' = CommandOf(q)
      BY <1>4 DEF CommandOf, LoopPcs
<1>6. (Quiet => Quiet') /\ \A c : About(c) => About(c)'
      BY <1>3, AboutSame
<1>7. NotComplete'
  <2>1. \A q \in Loops : pc'[q] \in {"lock", "receive", "status"} => pc[q] = pc'[q]
        BY <1>4
  <2>2. \A i \in Cmds : pc'[i] = pc[i]
        BY <1>2, <1>4, LoopFacts
  <2> QED BY <1>3, <2>1, <2>2, Zenon DEF FullInv, OwnInv, NotComplete
<1>8. FromSent'
      BY <1>3 DEF FullInv, OwnInv, FromSent
<1>9. ASSUME ~abandoned PROVE StreamOwned' /\ QuietBetween' /\ SuccessReported'
  <2>1. StreamOwned /\ QuietBetween /\ SuccessReported
        BY <1>9 DEF FullInv, OwnInv
  <2>2. StreamOwned'
    <3>1. \A u \in Threads : pc'[u] \notin {"check", "new"}
          BY <1>4, LoopFacts
    <3>2. ASSUME NEW q \in Loops, pc'[q] \in LoopPcs
          PROVE  /\ pc'[q] \in {"lock", "receive"} => About(CommandOf(q))'
                 /\ pc'[q] = "head" => IF complete'[q] THEN Quiet' ELSE About(CommandOf(q))'
                 /\ pc'[q] = "status" =>
                      /\ node'[q][1] = CommandOf(q)' /\ node'[q][1] \in sent'
                      /\ IF Final(node'[q]) THEN Quiet' ELSE About(CommandOf(q))'
      <4>1. PICK c : c = CommandOf(q) /\ CommandOf(q)' = c
            BY <1>5, <3>2
      <4>2. pc'[q] = pc[q]
            BY <1>5, <3>2
      <4>3. /\ pc[q] \in {"lock", "receive"} => About(c)
            /\ pc[q] = "head" => IF complete[q] THEN Quiet ELSE About(c)
            /\ pc[q] = "status" => /\ node[q][1] = c /\ node[q][1] \in sent
                                   /\ IF Final(node[q]) THEN Quiet ELSE About(c)
            BY <2>1, <4>1 DEF StreamOwned
      <4>4. About(c) => About(CommandOf(q))'
            BY <1>6, <4>1 DEF About
      <4> HIDE DEF Final
      <4> QED BY <1>3, <1>6, <4>1, <4>2, <4>3, <4>4
    <3> QED BY <3>1, <3>2 DEF StreamOwned, LoopPcs, Final
  <2>3. QuietBetween'
    <3>1. \A u \in Threads : pc[u] \notin {"check", "new"} \union LoopPcs
          BY <1>2, <1>4 DEF LoopPcs
    <3>2. handle # 0 => pc'[handle] = pc[handle]
          BY <1>2, <1>4, LoopFacts DEF FullInv, HInv, MutexInv, TypeOK
    <3> QED BY <1>3, <1>6, <2>1, <3>1, <3>2 DEF QuietBetween
  <2>4. SuccessReported'
    <3>1. pc'[t] \notin {"head", "new"}
          BY <1>4, LoopFacts
    <3> QED BY <1>3, <1>4, <2>1, <3>1 DEF SuccessReported
  <2> QED BY <2>2, <2>3, <2>4
<1> QED BY <1>3, <1>7, <1>8, <1>9 DEF OwnInv

\* The command goes out on a stream on which nothing is left to be said.
LEMMA SendOwn ==
  ASSUME OneThread, FullInv, NEW t \in Threads, Send(t)
  PROVE  OwnInv'
<1>1. pc[t] = "send" /\ pc' = [pc EXCEPT ![t] = "check"] /\ cmd[t] \in Cmds
      BY DEF Send, Goto, FullInv, HInv, MutexInv, TypeOK, Numbered, Begun
<1>2. UNCHANGED <<handle, parent, conn, cmd, type, res, complete, node, inbox, reported, abandoned>>
      BY DEF Send, callVars, loopVars
<1>3. /\ \A q \in Loops : pc'[q] = IF q = t THEN "check" ELSE pc[q]
      /\ \A q \in Loops : pc[q] \notin LoopPcs
      /\ \A u \in Threads : u = t
  <2>1. \A q \in Loops : pc[q] \notin LoopPcs
        BY <1>1, OneReader DEF FullInv, Begun
  <2> QED BY <1>1, <2>1 DEF OneThread, FullInv, HInv, MutexInv, TypeOK
<1>4. sent \subseteq sent'
      BY DEF Send
<1>5. NotComplete'
  <2>1. \A q \in Loops : pc'[q] \in {"lock", "receive", "status"} => pc[q] = pc'[q]
        BY <1>3
  <2>2. \A i \in Cmds : pc'[i] = pc[i]
        BY <1>3, LoopFacts
  <2> QED BY <1>2, <2>1, <2>2, Zenon DEF FullInv, OwnInv, NotComplete
<1>6. FromSent'
  <2>1. \A k \in 1..Len(inbox') : inbox'[k][1] \in sent'
        BY <1>2, <1>4 DEF FullInv, OwnInv, FromSent
  <2>2. \A k \in 1..Len(devq') : devq'[k] \in sent'
    <3>1. CASE conn # "open"
          BY <1>4, <3>1 DEF Send, FullInv, OwnInv, FromSent
    <3>2. CASE conn = "open"
      <4>1. devq \in Seq(Cmds) /\ devq' = Append(devq, cmd[t]) /\ cmd[t] \in sent'
            BY <3>2 DEF Send, FullInv, HInv, MutexInv, TypeOK
      <4>2. \A k \in 1..Len(devq') : devq'[k] = cmd[t] \/ (k \in 1..Len(devq) /\ devq'[k] = devq[k])
            BY <1>1, <4>1
      <4> QED BY <1>4, <4>1, <4>2 DEF FullInv, OwnInv, FromSent
    <3> QED BY <3>1, <3>2
  <2> QED BY <2>1, <2>2 DEF FromSent
<1>7. ASSUME ~abandoned PROVE StreamOwned' /\ QuietBetween' /\ SuccessReported'
  <2>1. QuietBetween /\ SuccessReported
        BY <1>7 DEF FullInv, OwnInv
  <2>2. Quiet
    <3>1. parent
          BY <1>1, NotFreed DEF FullInv, FreePcs
    <3>2. handle # 0 => pc[handle] \notin LoopPcs
          BY <1>3, LoopFacts DEF FullInv, HInv, MutexInv, TypeOK
    <3>3. \A u \in Threads : pc[u] \notin {"check", "new"} \union LoopPcs
          BY <1>1, <1>3, LoopFacts
    <3> QED BY <2>1, <3>1, <3>2, <3>3 DEF QuietBetween
  <2>3. About(cmd[t])'
    <3>1. inbox' = <<>> /\ (conn' = "open" => devq' = <<cmd'[t]>>)
      <4>1. \A d : Append(<<>>, d) = <<d>>
            OBVIOUS
      <4>2. inbox' = <<>> /\ (conn = "open" => devq = <<>> /\ devq' = Append(devq, cmd[t]))
            BY <1>2, <2>2 DEF Send, Quiet
      <4>3. conn = "open" => devq' = <<cmd[t]>>
            BY <4>1, <4>2, Zenon
      <4> QED BY <1>2, <4>2, <4>3
    <3> QED BY <3>1 DEF About
  <2>4. StreamOwned'
    <3>1. \A u \in Threads : About(cmd[u])'
          BY <1>3, <2>3
    <3>2. \A q \in Loops : pc'[q] \notin LoopPcs
          BY <1>3 DEF LoopPcs
    <3> QED BY <3>1, <3>2 DEF StreamOwned, LoopPcs
  <2>5. QuietBetween'
    <3>1. pc'[t] = "check"
          BY <1>3, LoopFacts
    <3> QED BY <3>1 DEF QuietBetween
  <2>6. SuccessReported'
    <3>1. \A u \in Threads : pc'[u] = "check"
          BY <1>3, LoopFacts
    <3> QED BY <1>2, <2>1, <3>1 DEF SuccessReported
  <2> QED BY <2>4, <2>5, <2>6
<1> QED BY <1>2, <1>5, <1>6, <1>7 DEF OwnInv

\* The stream passes to the status thread of the command.
LEMMA NewThreadOwn ==
  ASSUME OneThread, FullInv, NEW t \in Threads, NewThread(t)
  PROVE  OwnInv'
<1>0. PICK c : c = cmd[t]
      OBVIOUS
<1>1. pc[t] = "new" /\ c = cmd[t] /\ c \in Cmds /\ c # 0 /\ c # t /\ pc[c] = "idle" /\ t \in Loops /\ c \in Loops
      BY <1>0, LoopFacts DEF NewThread, FullInv, HInv, MutexInv, TypeOK, Numbered, Begun
<1>2. UNCHANGED <<parent, conn, cmd, type, sent, complete, node, inbox, devq, reported>>
      BY DEF NewThread, callVars, devVars
<1>3. (Quiet => Quiet') /\ \A d : About(d) => About(d)'
      BY <1>2, AboutSame
<1>4. \A q \in Loops : pc[q] \notin LoopPcs
      BY <1>1, OneReader DEF FullInv, Begun
<1>5. FromSent'
      BY <1>2 DEF FullInv, OwnInv, FromSent
<1>6. CASE /\ handle' = c /\ pc' = [pc EXCEPT ![t] = "idle", ![c] = "lock"] /\ abandoned' = abandoned
           /\ res' = [res EXCEPT ![t] = "SUCCESS"]
  <2>1. \A q \in Loops : pc'[q] = IF q = c THEN "lock" ELSE IF q = t THEN "idle" ELSE pc[q]
        BY <1>1, <1>6 DEF FullInv, HInv, MutexInv, TypeOK
  <2>2. \A u \in Threads : u = t /\ pc'[u] = "idle"
        BY <1>1, <2>1, LoopFacts DEF OneThread
  <2>3. NotComplete'
    <3>1. ~complete[c]
          BY <1>1, Zenon DEF FullInv, OwnInv, NotComplete
    <3>2. \A q \in Loops : pc'[q] \in {"lock", "receive", "status"} => q = c
          BY <1>4, <2>1 DEF LoopPcs
    <3>3. \A i \in Cmds : pc'[i] = "idle" => pc[i] = "idle"
          BY <2>1, <2>2, LoopFacts
    <3> QED BY <1>2, <3>1, <3>2, <3>3, Zenon DEF FullInv, OwnInv, NotComplete
  <2>4. ASSUME ~abandoned PROVE StreamOwned'
    <3>1. About(c)
          BY <1>1, <2>4 DEF FullInv, OwnInv, StreamOwned
    <3>2. CommandOf(c)' = c
          BY <1>1, LoopFacts DEF CommandOf
    <3>3. About(CommandOf(c))'
      <4>1. About(c)'
            BY <1>3, <3>1
      <4> QED BY <3>2, <4>1 DEF About
    <3>4. \A q \in Loops : pc'[q] \in LoopPcs => q = c
          BY <1>4, <2>1 DEF LoopPcs
    <3>5. pc'[c] = "lock"
          BY <1>1, <2>1
    <3> QED BY <2>2, <3>3, <3>4, <3>5 DEF StreamOwned, LoopPcs
  <2>5. QuietBetween'
    <3>1. pc'[handle'] = "lock" /\ handle' # 0
          BY <1>1, <1>6, <2>1
    <3> QED BY <3>1 DEF QuietBetween, LoopPcs
  <2>6. ASSUME ~abandoned PROVE SuccessReported'
    <3>1. SuccessReported
          BY <2>6 DEF FullInv, OwnInv
    <3>2. type[t] = "async"
          BY <1>1, <3>1 DEF SuccessReported
    <3> QED BY <1>2, <2>2, <3>1, <3>2 DEF SuccessReported
  <2> QED BY <1>5, <1>6, <2>3, <2>4, <2>5, <2>6 DEF OwnInv
<1>7. CASE pc' = [pc EXCEPT ![t] = "idle"] /\ abandoned'
  <2>1. \A q \in Loops : pc'[q] = IF q = t THEN "idle" ELSE pc[q]
        BY <1>1, <1>7 DEF FullInv, HInv, MutexInv, TypeOK
  <2>2. \A q \in Loops : pc'[q] \notin {"lock", "receive", "status"}
        BY <1>4, <2>1 DEF LoopPcs
  <2>3. \A i \in Cmds : pc'[i] = pc[i]
        BY <2>1, LoopFacts
  <2>4. NotComplete'
        BY <1>2, <2>2, <2>3, Zenon DEF FullInv, OwnInv, NotComplete
  <2> QED BY <1>5, <1>7, <2>4 DEF OwnInv
<1> QED BY <1>1, <1>6, <1>7 DEF NewThread, Goto, Result

\* A message that the device sends belongs to the command that is performed; a connection
\* that is lost takes the messages with it that were not sent.
LEMMA DeviceOwn ==
  ASSUME FullInv, DeviceStatus
  PROVE  OwnInv'
<1>1. /\ conn = "open" /\ devq # <<>> /\ conn' = conn
      /\ UNCHANGED <<pc, parent, handle, cmd, type, res, complete, node, sent, reported, abandoned>>
      BY DEF DeviceStatus, clientVars, callVars, loopVars, histVars
<1>2. PICK k \in Kinds : /\ inbox' = Append(inbox, <<Head(devq), k>>)
                         /\ devq' = IF HasError(k) \/ k = "Complete" THEN Tail(devq) ELSE devq
      BY DEF DeviceStatus
<1>3. ~Quiet /\ \A c : About(c) => About(c)'
  <2>1. TypeOK
        BY DEF FullInv, HInv, MutexInv
  <2> QED BY <1>1, <1>2, <2>1, AboutAppend DEF Quiet
<1>4. NotComplete'
      BY <1>1 DEF FullInv, OwnInv, NotComplete
<1>5. FromSent'
  <2>1. inbox \in Seq(Messages) /\ devq \in Seq(Cmds) /\ Len(devq) \in Nat \ {0} /\ FromSent
        BY <1>1 DEF FullInv, OwnInv, HInv, MutexInv, TypeOK
  <2>2. Head(devq) = devq[1] /\ 1 \in 1..Len(devq) /\ Head(devq) \in sent
        BY <2>1 DEF FromSent
  <2>3. \A j \in 1..Len(inbox') : inbox'[j][1] = Head(devq) \/ (j \in 1..Len(inbox) /\ inbox'[j] = inbox[j])
        BY <1>2, <2>1
  <2>4. \A j \in 1..Len(devq') : \/ devq'[j] = devq[j] /\ j \in 1..Len(devq)
                                 \/ j + 1 \in 1..Len(devq) /\ devq'[j] = devq[j + 1]
        BY <1>2, <2>1
  <2> QED BY <1>1, <2>1, <2>2, <2>3, <2>4 DEF FromSent
<1>6. ASSUME ~abandoned PROVE StreamOwned' /\ QuietBetween' /\ SuccessReported'
  <2>1. StreamOwned /\ QuietBetween /\ SuccessReported
        BY <1>6 DEF FullInv, OwnInv
  <2>2. \A q \in Loops : CommandOf(q)' = CommandOf(q)
        BY <1>1 DEF CommandOf
  <2>3. StreamOwned'
    <3>1. \A t \in Threads : pc'[t] \in {"check", "new"} => About(cmd[t])'
      <4>1. ASSUME NEW t \in Threads, pc'[t] \in {"check", "new"} PROVE About(cmd[t])'
        <5>1. PICK c : c = cmd[t] /\ c = cmd'[t]
              BY <1>1
        <5>2. About(c)'
              BY <1>1, <1>3, <2>1, <4>1, <5>1 DEF StreamOwned
        <5> QED BY <5>1, <5>2 DEF About
      <4> QED BY <4>1
    <3>2. ASSUME NEW q \in Loops
          PROVE  /\ pc'[q] \in {"lock", "receive"} => About(CommandOf(q))'
                 /\ pc'[q] = "head" => ~complete[q] /\ About(CommandOf(q))'
                 /\ pc'[q] = "status" => /\ node[q][1] = CommandOf(q) /\ node[q][1] \in sent
                                         /\ ~Final(node[q]) /\ About(CommandOf(q))'
      <4>1. PICK c : c = CommandOf(q) /\ c = CommandOf(q)'
            BY <2>2
      <4>2. /\ pc[q] \in {"lock", "receive"} => About(c)
            /\ pc[q] = "head" => ~complete[q] /\ About(c)
            /\ pc[q] = "status" => /\ node[q][1] = c /\ node[q][1] \in sent
                                   /\ ~Final(node[q]) /\ About(c)
            BY <1>3, <2>1, <4>1 DEF StreamOwned
      <4>3. About(c) => About(CommandOf(q))'
            BY <1>3, <4>1 DEF About
      <4> QED BY <1>1, <4>1, <4>2, <4>3
    <3> QED BY <1>1, <2>2, <3>1, <3>2 DEF StreamOwned, Final
  <2>4. QuietBetween'
        BY <1>1, <1>3, <2>1 DEF QuietBetween
  <2>5. SuccessReported'
        BY <1>1, <2>1 DEF SuccessReported, Reported
  <2> QED BY <2>3, <2>4, <2>5
<1> QED BY <1>1, <1>4, <1>5, <1>6 DEF OwnInv

LEMMA LostOwn ==
  ASSUME FullInv, DeviceLost \/ UNCHANGED vars
  PROVE  OwnInv'
<1>1. /\ conn' = "open" => conn = "open"
      /\ UNCHANGED <<pc, parent, handle, cmd, type, res, complete, node, sent, reported, abandoned, inbox, devq>>
      BY DEF DeviceLost, vars, clientVars, callVars, loopVars, devVars, histVars
<1>2. NotComplete' /\ FromSent'
      BY <1>1 DEF FullInv, OwnInv, NotComplete, FromSent
<1>3. (Quiet => Quiet') /\ \A c : About(c) => About(c)'
      BY <1>1, AboutSame
<1>4. \A q \in Loops : CommandOf(q)' = CommandOf(q)
      BY <1>1 DEF CommandOf
<1>5. ASSUME ~abandoned PROVE StreamOwned' /\ QuietBetween' /\ SuccessReported'
  <2>1. StreamOwned /\ QuietBetween /\ SuccessReported
        BY <1>5 DEF FullInv, OwnInv
  <2>2. StreamOwned'
    <3>1. \A t \in Threads : pc'[t] \in {"check", "new"} => About(cmd[t])'
      <4>1. ASSUME NEW t \in Threads, pc'[t] \in {"check", "new"} PROVE About(cmd[t])'
        <5>1. PICK c : c = cmd[t] /\ c = cmd'[t]
              BY <1>1
        <5>2. About(c)'
              BY <1>1, <1>3, <2>1, <4>1, <5>1 DEF StreamOwned
        <5> QED BY <5>1, <5>2 DEF About
      <4> QED BY <4>1
    <3>2. \A q \in Loops : About(CommandOf(q)) => About(CommandOf(q))'
      <4>1. ASSUME NEW q \in Loops, About(CommandOf(q)) PROVE About(CommandOf(q))'
        <5>1. PICK c : c = CommandOf(q) /\ c = CommandOf(q)'
              BY <1>4
        <5>2. About(c)'
              BY <1>3, <4>1, <5>1
        <5> QED BY <5>1, <5>2 DEF About
      <4> QED BY <4>1
    <3>3. \A q \in Loops :
            /\ pc'[q] \in {"lock", "receive"} => About(CommandOf(q))'
            /\ pc'[q] = "head" => IF complete'[q] THEN Quiet' ELSE About(CommandOf(q))'
            /\ pc'[q] = "status" =>
                 /\ node'[q][1] = CommandOf(q)' /\ node'[q][1] \in sent'
                 /\ IF Final(node[q]) THEN Quiet' ELSE About(CommandOf(q))'
          BY <1>1, <1>3, <1>4, <2>1, <3>2 DEF StreamOwned
    <3> QED BY <1>1, <3>1, <3>3 DEF StreamOwned, Final
  <2>3. QuietBetween'
        BY <1>1, <1>3, <2>1 DEF QuietBetween
  <2>4. SuccessReported'
        BY <1>1, <2>1 DEF SuccessReported, Reported
  <2> QED BY <2>2, <2>3, <2>4
<1> QED BY <1>1, <1>2, <1>5 DEF OwnInv

LEMMA StepOwn == OneThread /\ FullInv /\ [Next]_vars => FullInv'
<1> SUFFICES ASSUME OneThread, FullInv, [Next]_vars PROVE FullInv'
    OBVIOUS
<1>1. HInv'
      BY StepHandle DEF FullInv
<1>2. OwnInv'
      BY CallOwn, EndOwn, SendOwn, CheckOwn, NewThreadOwn, LoopOwn, DeviceOwn, LostOwn
         DEF Next, AppStep, Finished
<1> QED BY <1>1, <1>2 DEF FullInv

\* With one application thread a status reaches the callback of the command it is about,
\* and a sync command that returns success was received and completed by the device, unless
\* an earlier command was abandoned.
THEOREM OwnStatus == ASSUME OneThread PROVE Spec => []StatusToOwnCommand
<1>1. FullInv => StatusToOwnCommand
      BY DEF FullInv, OwnInv, SuccessReported, Reported, StatusToOwnCommand
<1>2. FullInv /\ [Next]_vars => FullInv'
      BY StepOwn
<1> QED BY <1>1, <1>2, InitOwn, PTL DEF Spec
=============================================================================
