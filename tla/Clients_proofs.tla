---------------------------- MODULE Clients_proofs ----------------------------
(***************************************************************************)
(* Proofs about the clients of MCClients, for any number of threads,       *)
(* listeners, calls, pairings and messages.  Each component has an         *)
(* inductive invariant of its own; a step of the composition is a step of  *)
(* the component that which names, and leaves the others alone.            *)
(***************************************************************************)
EXTENDS MCClients, SequenceTheorems, TLAPS

\* Adding to the end of a queue.
LEMMA AppendFacts ==
  ASSUME NEW S, NEW q \in Seq(S), NEW x \in S
  PROVE  Append(q, x) \in Seq(S)
OBVIOUS

\* The first element and the rest are of the type of the queue.
LEMMA HeadTailFacts ==
  ASSUME NEW S, NEW q \in Seq(S), q # <<>>
  PROVE  Head(q) \in S /\ Tail(q) \in Seq(S)
OBVIOUS

\* A queue of one element.
LEMMA OneElement ==
  ASSUME NEW x
  PROVE  Append(<<>>, x) = <<x>> /\ Head(<<x>>) = x /\ Tail(<<x>>) = <<>>
<1>1. Append(<<>>, x) = <<x>>
  OBVIOUS
<1>2. Head(<<x>>) = x
  OBVIOUS
<1>3. Tail(<<x>>) = <<>>
  OBVIOUS
<1> QED
  BY <1>1, <1>2, <1>3

-----------------------------------------------------------------------------
(* Pairing by PIN *)

\* Where the host is in a pairing tells which of the device's and its own values belong to it:
\* from the second message on the device is in this pairing, an older key makes this one a
\* repetition, and a record that is sent or saved is the one of the last pairing.
PairingInv ==
  /\ Pairing!TypeOK /\ Pairing!KeyAgreed /\ Pairing!RecordAccepted
  /\ pc \in {"prove", "exchange"} => devTry = attempt /\ (cuKey # 0 => spoilt)
  /\ pc = "exchange" => devState = 3 /\ thekey = attempt
  /\ pc \in {"pair", "save"} => record = attempt
  /\ devTry \in 0..attempt /\ known \in 0..attempt

\* A pairing starts with neither side having a key.
LEMMA PairingStarts == Pairing!Init => PairingInv
BY PairingAssumption
   DEF PairingInv, Pairing!Init, Pairing!TypeOK, Pairing!KeyAgreed, Pairing!RecordAccepted,
       Pairing!WrongKey

\* Every message of a pairing and of the requests under its key keeps the two sides in step.
LEMMA PairingSteps ==
  ASSUME PairingInv, Pairing!Next
  PROVE  PairingInv'
<1> USE PairingAssumption
    DEF PairingInv, Pairing!TypeOK, Pairing!KeyAgreed, Pairing!RecordAccepted, Pairing!WrongKey
<1>1. CASE Pairing!Begin
  <2>1. /\ pc = "idle" /\ attempt < Attempts /\ attempt' = attempt + 1
        /\ cuKey' = cuKey /\ thekey' \in {0, thekey} /\ known' = known
        /\ record' = record /\ saved' = saved /\ values' = values
        /\ devKey' \in {0, devKey} /\ devState' \in {1, devState}
        /\ devTry' \in {devTry, attempt'}
    BY <1>1 DEF Pairing!Begin, Pairing!Abort
  <2>0. cuKey # 0 => spoilt'
    BY <1>1 DEF Pairing!Begin
  <2>2. \/ pc' = "idle" /\ state' = state
        \/ pc' = "prove" /\ state' = 2 /\ devTry' = attempt'
    BY <1>1 DEF Pairing!Begin, Pairing!Abort
  <2>3. /\ {thekey, cuKey, devTry, devKey, record, known, saved} \subseteq Nat
        /\ saved # 0 => known \in saved..attempt
        /\ attempt \in Nat /\ known \in 0..attempt /\ devTry \in 0..attempt
    OBVIOUS
  <2>4. Pairing!KeyAgreed' /\ Pairing!RecordAccepted'
    BY ONLY <2>0, <2>1, <2>2, <2>3 DEF Pairing!KeyAgreed, Pairing!RecordAccepted
  <2>5. /\ pc' = "prove" => devTry' = attempt' /\ (cuKey' # 0 => spoilt')
        /\ devTry' \in 0..attempt' /\ known' \in 0..attempt'
    BY ONLY <2>0, <2>1, <2>2, <2>3
  <2>6. /\ {thekey', cuKey', devTry', devKey', record', known', saved'} \subseteq 0..Attempts + 1
        /\ attempt' \in 0..Attempts /\ state' \in {0, 2, 4} /\ devState' \in {0, 1, 3, 5}
        /\ values' \subseteq {"WiFiAddress", "DevicePublicKey"}
    BY <2>1, <2>2
  <2>7. Pairing!TypeOK'
    BY ONLY <2>2, <2>6 DEF Pairing!TypeOK, Pairing!WrongKey
  <2> QED
    BY <2>2, <2>4, <2>5, <2>7
<1>2. CASE Pairing!Prove
  BY <1>2 DEF Pairing!Prove, Pairing!Abort
<1>3. CASE Pairing!Exchange
  BY <1>3 DEF Pairing!Exchange, Pairing!Abort
<1>4. CASE Pairing!PairCu
  BY <1>4 DEF Pairing!PairCu, Pairing!GetValue, Pairing!Request, Pairing!devVars
<1>5. CASE Pairing!PublicKey
  <2>1. /\ attempt' = attempt /\ state' = state /\ thekey' = thekey /\ cuKey' = cuKey
        /\ devState' = devState /\ devTry' = devTry /\ devKey' = devKey /\ known' = known
        /\ saved' = saved /\ spoilt' = spoilt /\ pc = "pubkey"
    BY <1>5 DEF Pairing!PublicKey, Pairing!devVars
  <2>2. values' \in {values, values \union {"DevicePublicKey"}}
    BY <1>5 DEF Pairing!PublicKey, Pairing!GetValue
  <2>3. \/ pc' = "pair" /\ record' = attempt
        \/ pc' = "idle" /\ record' = record
    BY <1>5 DEF Pairing!PublicKey
  <2> QED
    BY <2>1, <2>2, <2>3
<1>6. CASE Pairing!Pair
  BY <1>6 DEF Pairing!Pair, Pairing!Request, Pairing!Heard
<1>7. CASE Pairing!Save
  BY <1>7 DEF Pairing!Save, Pairing!devVars
<1>8. CASE Pairing!Crash
  BY <1>8 DEF Pairing!Crash, Pairing!devVars
<1>9. CASE Pairing!Restart
  BY <1>9 DEF Pairing!Restart, Pairing!devVars
<1> QED
  BY <1>1, <1>2, <1>3, <1>4, <1>5, <1>6, <1>7, <1>8, <1>9 DEF Pairing!Next, Pairing!Create

-----------------------------------------------------------------------------
(* Listeners *)

\* A listener that has not ended.
Live(l) == l \in Listeners /\ pc[l] \notin {"none", "dead"}

\* A live listener is the one whose handle the client has or is about to store, so that there
\* is one at most, and none once free has looked for it; a handle is stored only when there
\* is none.  As long as no event was asked for and no call has given up, the answers that
\* are still to come are those of the call that waits.
EventsInv ==
  /\ Events!TypeOK /\ Events!ListenerKnown /\ Events!AnswerToCall
  /\ pc \in [Listeners -> {"none", "send", "head", "receive", "waiting", "callback", "clear", "dead"}]
  /\ \A l \in Listeners : Live(l) => l \in {handle, made}
  /\ app = "store" <=> made # 0
  /\ app = "store" => handle = 0
  /\ app \in {"stop_end", "free_end", "done"} => handle = 0
  /\ freed => app = "done"
  /\ \A l \in Listeners : pc[l] \in {"head", "receive", "waiting", "callback"} => events
  /\ client = "preboard" /\ asked # 0 => events
  /\ owed \in Seq(1..MaxAsked)
  /\ events \/ late \/ owed = IF app = "answer" THEN <<asked>> ELSE <<>>
  /\ events \/ late \/ app = "answer" \/ asked = 0 \/ took = asked

\* Before a client is made no thread receives its events.
LEMMA EventsStart == Events!Init => EventsInv
<1> SUFFICES ASSUME Events!Init PROVE EventsInv
  OBVIOUS
<1>1. owed \in Seq(1..MaxAsked)
  BY DEF Events!Init
<1>2. pc \in [Listeners -> {"none"}]
  BY DEF Events!Init
<1>3. \A l \in Listeners : pc[l] = "none"
  BY <1>2
<1>4. Events!TypeOK
  <2>1. parent = TRUE /\ freed = FALSE /\ made = 0 /\ handle = 0 /\ asked = 0 /\ took = 0
    BY DEF Events!Init
  <2>2. 0 \in 0..MaxAsked
    BY EventsAssumption
  <2> QED
    BY ONLY <2>1, <2>2 DEF Events!TypeOK
<1>7. Events!AnswerToCall
  BY DEF Events!Init, Events!AnswerToCall
<1>5. Events!ListenerKnown
  BY <1>3 DEF Events!Init, Events!ListenerKnown, Events!Listening
<1>6. /\ app = "idle" /\ handle = 0 /\ made = 0 /\ freed = FALSE
      /\ asked = 0 /\ owed = <<>> /\ events = FALSE /\ late = FALSE /\ took = 0
  BY DEF Events!Init
<1> QED
  BY <1>1, <1>2, <1>3, <1>4, <1>5, <1>6, <1>7 DEF EventsInv, Live

\* Every step of the event threads and of the host keeps their invariant.
LEMMA EventsSteps ==
  ASSUME EventsInv, Events!Next
  PROVE  EventsInv'
<1> USE EventsAssumption
    DEF EventsInv, Live, Events!TypeOK, Events!ListenerKnown, Events!Listening,
        Events!AnswerToCall, Events!streamVars
<1>1. CASE Events!Call
  <2>1. /\ asked < MaxAsked /\ asked' = asked + 1 /\ owed' = Append(owed, asked')
        /\ app = "idle" /\ app' = "answer" /\ client = "companion_proxy"
        /\ UNCHANGED <<client, parent, handle, freed, made, pc, events, late, took, used>>
    BY <1>1 DEF Events!Call
  <2>2. asked' \in 1..MaxAsked /\ owed \in Seq(1..MaxAsked)
    BY <2>1
  <2>3. owed' \in Seq(1..MaxAsked)
    BY ONLY <2>1, <2>2, AppendFacts
  <2>7. owed = <<>> => owed' = <<asked'>>
    BY ONLY <2>1, OneElement
  <2>4. Events!TypeOK'
    BY <2>1, <2>2
  <2>5. Events!ListenerKnown'
    BY <2>1
  <2>6. events' \/ late' \/ owed' = IF app' = "answer" THEN <<asked'>> ELSE <<>>
    BY <2>1, <2>7
  <2> QED
    BY <2>1, <2>3, <2>4, <2>5, <2>6
<1>2. CASE Events!StartListening
  BY <1>2 DEF Events!StartListening, Events!NewListener, Events!Busy
<1>3. CASE Events!Stashbag
  BY <1>3 DEF Events!Stashbag, Events!NewListener, Events!Busy
<1>4. CASE Events!Stop
  BY <1>4 DEF Events!Stop
<1>5. CASE Events!Free
  <2>1. /\ app = "idle" /\ app' = "free_look" /\ parent' = FALSE
        /\ UNCHANGED <<client, handle, freed, made, pc, asked, owed, events, late, took, used>>
    BY <1>5 DEF Events!Free
  <2> QED
    BY <2>1
<1>6. CASE Events!CallReceive
  <2>1. /\ app = "answer" /\ app' = "idle"
        /\ UNCHANGED <<client, parent, handle, freed, made, pc, asked, events, used>>
    BY <1>6 DEF Events!CallReceive
  <2>2. owed # <<>> => Head(owed) \in 1..MaxAsked /\ Tail(owed) \in Seq(1..MaxAsked)
    <3>1. owed \in Seq(1..MaxAsked)
      OBVIOUS
    <3> QED
      BY ONLY <3>1, HeadTailFacts
  <2>6. owed = <<asked>> => Head(owed) = asked /\ Tail(owed) = <<>>
    BY ONLY OneElement
  <2>3. \/ late' = TRUE /\ took' = asked /\ owed' = owed
        \/ owed # <<>> /\ owed' = Tail(owed) /\ took' = Head(owed) /\ late' = late
        \/ events /\ took' = 0 /\ late' = TRUE /\ owed' = owed
    BY <1>6 DEF Events!CallReceive
  <2>4. owed' \in Seq(1..MaxAsked) /\ took' \in 0..MaxAsked
    <3>1. owed \in Seq(1..MaxAsked) /\ asked \in 0..MaxAsked /\ MaxAsked \in Nat
      OBVIOUS
    <3>2. \/ took' = asked /\ owed' = owed
          \/ owed # <<>> /\ owed' = Tail(owed) /\ took' = Head(owed)
          \/ took' = 0 /\ owed' = owed
      BY <2>3
    <3> QED
      BY ONLY <2>2, <3>1, <3>2
  <2>5. events' \/ late' \/ (owed' = <<>> /\ took' = asked')
    BY <2>1, <2>3, <2>6
  <2> QED
    BY <2>1, <2>4, <2>5
<1>7. CASE Events!StoreHandle
  BY <1>7 DEF Events!StoreHandle
<1>8. CASE Events!Look
  BY <1>8 DEF Events!Look
<1>9. CASE Events!Join
  <2>1. /\ \/ app = "stop_join" /\ app' = "stop_end"
           \/ app = "free_join" /\ app' = "free_end"
        /\ handle = 0 \/ (handle \in Listeners /\ pc[handle] = "dead")
        /\ handle' = 0
        /\ UNCHANGED <<client, parent, freed, made, pc, asked, owed, events, late, took, used>>
    BY <1>9 DEF Events!Join
  <2>2. made = 0
    BY <2>1
  <2>3. \A l \in Listeners : ~Live(l)
    BY <2>1, <2>2
  <2>4. Events!TypeOK' /\ Events!ListenerKnown'
    BY <2>1, <2>2, <2>3
  <2>5. \A l \in Listeners : Live(l)' => l \in {handle', made'}
    BY <2>1, <2>3
  <2>6. app' # "idle" /\ app' # "store" /\ app' # "answer" /\ app # "answer"
    BY <2>1
  <2>7. events' \/ late' \/ owed' = <<>>
    BY <2>1, <2>6
  <2>8. events' \/ late' \/ asked' = 0 \/ took' = asked'
    BY <2>1, <2>6
  <2>9. /\ freed' => app' = "done"
        /\ \A l \in Listeners : pc[l]' \in {"head", "receive", "waiting", "callback"} => events'
        /\ client' = "preboard" /\ asked' # 0 => events'
    BY <2>1
  <2>10. Events!AnswerToCall'
    BY <2>6
  <2>11. /\ pc' \in [Listeners -> {"none", "send", "head", "receive", "waiting", "callback", "clear", "dead"}]
         /\ owed' \in Seq(1..MaxAsked) /\ made' = 0 /\ handle' = 0
    BY <2>1, <2>2
  <2> QED
    BY <2>4, <2>5, <2>6, <2>7, <2>8, <2>9, <2>10, <2>11
<1>10. CASE Events!StopEnd \/ Events!FreeEnd
  <2>1. /\ \/ app = "stop_end" /\ app' = "idle" /\ parent' = TRUE /\ freed' = freed
           \/ app = "free_end" /\ app' = "done" /\ freed' = TRUE /\ parent' = parent
        /\ UNCHANGED <<client, handle, made, pc, asked, owed, events, late, took, used>>
    BY <1>10 DEF Events!StopEnd, Events!FreeEnd
  <2>2. parent' \in BOOLEAN /\ freed' \in BOOLEAN
    BY <2>1
  <2>3. Events!TypeOK' /\ Events!ListenerKnown' /\ Events!AnswerToCall'
    BY <2>1, <2>2
  <2>4. freed' => app' = "done"
    BY <2>1
  <2>5. \A l \in Listeners : Live(l)' => l \in {handle', made'}
    BY <2>1
  <2> QED
    BY <2>1, <2>3, <2>4, <2>5
<1>11. ASSUME NEW l \in Listeners, Events!ListenSend(l)
       PROVE  EventsInv'
  BY <1>11 DEF Events!ListenSend, Events!Goto, Events!UseClient
<1>12. ASSUME NEW l \in Listeners, Events!ListenHead(l) \/ Events!ListenParent(l)
       PROVE  EventsInv'
  BY <1>12 DEF Events!ListenHead, Events!ListenParent, Events!Goto, Events!UseClient
<1>13. ASSUME NEW l \in Listeners, Events!ListenReceive(l)
       PROVE  EventsInv'
  <2>1. /\ pc[l] = "waiting"
        /\ \E label \in {"head", "clear", "callback"} : pc' = [pc EXCEPT ![l] = label]
        /\ UNCHANGED <<client, app, parent, handle, freed, made, asked, events, late, took, used>>
    BY <1>13 DEF Events!ListenReceive, Events!Goto
  <2>2. \/ owed' = owed
        \/ owed # <<>> /\ owed' = Tail(owed)
    BY <1>13 DEF Events!ListenReceive
  <2>3. owed' \in Seq(1..MaxAsked)
    BY <2>2, HeadTailFacts, SMTT(30)
  <2>4. events
    BY <1>13, <2>1
  <2>5. Events!TypeOK' /\ Events!ListenerKnown'
    BY <1>13, <2>1
  <2>6. /\ pc' \in [Listeners -> {"none", "send", "head", "receive", "waiting", "callback", "clear", "dead"}]
        /\ \A k \in Listeners : pc[k]' \notin {"none", "dead"} => k \in {handle', made'}
    BY <1>13, <2>1
  <2> QED
    BY <2>1, <2>3, <2>4, <2>5, <2>6
<1>14. ASSUME NEW l \in Listeners, Events!ListenCallback(l)
       PROVE  EventsInv'
  BY <1>14 DEF Events!ListenCallback, Events!Goto
<1>15. ASSUME NEW l \in Listeners, Events!ListenClear(l)
       PROVE  EventsInv'
  BY <1>15 DEF Events!ListenClear, Events!Goto, Events!UseClient
<1> QED
  BY <1>1, <1>2, <1>3, <1>4, <1>5, <1>6, <1>7, <1>8, <1>9, <1>10, <1>11, <1>12, <1>13, <1>14, <1>15
  DEF Events!Next, Events!Calls, Events!Ending, Events!Listener

-----------------------------------------------------------------------------
(* Images *)

\* The steps of a mount, in which a signature or a ticket is there, and the others.
Staged == {"stage", "open", "write", "written", "upload", "data", "complete", "send_mount"}
Mounting == {"mount", "manifest", "nonce", "ticket"} \union Staged
Ending == {"hangup", "leave", "done"}

\* Where a command is sent the connection is live; the device waits for what is left of the
\* image and for nothing after it, unless the upload was cut; the result is set by the step
\* that the command is about, which is the last one.
ImagesInv ==
  /\ Images!TypeOK /\ Images!CommandsHeard
  /\ cmd \in {"mount", "list", "unmount", "devmodestatus"}
  /\ pc \in {"start", cmd} \union Mounting \union Ending
  /\ pc \in Mounting => cmd = "mount"
  /\ pc \notin Ending => res = "fail"
  /\ mim # "spent"
  /\ pc \in {"list", "devmodestatus", "unmount", "mount", "manifest", "nonce", "upload", "data", "complete",
             "send_mount"} /\ version # "afc" => mim = "live"
  /\ pc \in {"list", "devmodestatus", "unmount", "mount"} => mim = "live"
  /\ pc \in {"upload", "data", "complete", "send_mount"} => version # "afc"
  /\ pc \in {"manifest", "nonce", "ticket"} => version = "personal"
  /\ pc \in Staged => sig # "none"
  /\ pc \notin {"write", "written", "data", "complete", "send_mount"} \union Ending => tx = 0
  /\ pc = "data" => tx < Blocks /\ expects = Blocks - tx
  /\ expects > 0 => pc = "data" \/ cut
  /\ pc = "send_mount" => image = "whole" /\ expects = 0
  /\ asked = <<>> \/ \E s \in {"file", "device", "server"} : asked = <<"whole", s>>
  /\ cmd = "mount" /\ res = "ok" => mounted
  /\ cmd = "unmount" /\ res = "ok" => removed

\* Before an upload nothing is staged.
LEMMA ImagesStart == Images!Init => ImagesInv
BY ImagesAssumption
DEF ImagesInv, Staged, Mounting, Ending, Images!Init, Images!TypeOK, Images!CommandsHeard

\* Every step of the upload, the commands and the tool keeps what is staged whole.
LEMMA ImagesSteps ==
  ASSUME ImagesInv, Images!Next
  PROVE  ImagesInv'
<1> USE ImagesAssumption
    DEF ImagesInv, Staged, Mounting, Ending, Images!TypeOK, Images!CommandsHeard, Images!NoCommand
<1>1. CASE Images!Start
  BY <1>1 DEF Images!Start
<1>2. CASE Images!Query
  BY <1>2 DEF Images!Query, Images!Command
<1>3. CASE Images!Unmount
  BY <1>3 DEF Images!Unmount, Images!Command
<1>4. CASE Images!Signature
  BY <1>4 DEF Images!Signature
<1>5. CASE Images!Identify
  <2>1. /\ pc = "mount" /\ version = "personal" /\ pc' \in {"leave", "hangup", "manifest"}
        /\ UNCHANGED <<version, cmd, mim, sig, tx, res, asked, cut, expects, image, mounted, removed>>
    BY <1>5 DEF Images!Identify
  <2>2. mim = "live" /\ (expects > 0 => cut) /\ version # "afc" /\ pc' # "data"
    BY <2>1
  <2>3. UNCHANGED <<stale, garbled>> => ~stale' /\ (garbled' => cut)
    OBVIOUS
  <2>4. Images!Command => ~stale' /\ (garbled' => cut)
    BY <2>2 DEF Images!Command
  <2>5. ~stale' /\ (garbled' => cut)
    BY <1>5, <2>3, <2>4 DEF Images!Identify
  <2> QED
    BY <2>1, <2>2, <2>5
<1>6. CASE Images!Manifest
  BY <1>6 DEF Images!Manifest, Images!Command, Images!Replace
<1>7. CASE Images!Nonce
  BY <1>7 DEF Images!Nonce, Images!Command
<1>8. CASE Images!Ticket
  BY <1>8 DEF Images!Ticket
<1>9. CASE Images!Stage
  <2>1. /\ pc = "stage" /\ mim' \in {mim, "live"} /\ (mim = "live" => mim' = "live")
        /\ UNCHANGED <<version, cmd, sig, tx, res, asked, cut, expects, image, mounted, removed>>
        /\ UNCHANGED <<garbled, stale>>
    BY <1>9 DEF Images!Stage
  <2>2. \/ pc' = "open" /\ version = "afc"
        \/ pc' = "upload" /\ version # "afc" /\ mim' = "live"
        \/ pc' = "hangup"
    BY <1>9 DEF Images!Stage
  <2>3. Images!TypeOK'
    BY <2>1
  <2>5. Images!CommandsHeard'
    BY <2>1
  <2>4. pc' = "upload" => tx' = 0
    BY <2>1, <2>2
  <2> QED
    BY <2>1, <2>2, <2>3, <2>4, <2>5
<1>10. CASE Images!Upload
  <2>1. /\ pc = "upload"
        /\ \/ pc' = "data" /\ expects' = Blocks /\ cut' = cut
           \/ pc' = "hangup" /\ expects' \in {0, Blocks} /\ cut' = TRUE
        /\ UNCHANGED <<version, cmd, mim, sig, tx, res, asked, image, mounted, removed>>
    BY <1>10 DEF Images!Upload
  <2>2. mim = "live" /\ (expects > 0 => cut) /\ (cut => cut')
    BY <2>1
  <2>3. Images!CommandsHeard'
    BY <1>10, <2>2 DEF Images!Upload, Images!Command
  <2>4. Images!TypeOK'
    BY <2>1
  <2> QED
    BY <2>1, <2>2, <2>3, <2>4
<1>11. CASE Images!Data
  BY <1>11 DEF Images!Data
<1>12. CASE Images!Complete
  BY <1>12 DEF Images!Complete, Images!ProcessResult
<1>13. CASE Images!Open
  BY <1>13 DEF Images!Open
<1>14. CASE Images!Write
  BY <1>14 DEF Images!Write
<1>15. CASE Images!Written
  BY <1>15 DEF Images!Written
<1>16. CASE Images!Mount
  BY <1>16 DEF Images!Mount, Images!Command
<1>17. CASE Images!Hangup
  <2>1. /\ pc = "hangup" /\ pc' = "leave" /\ mim' = "none"
        /\ UNCHANGED <<version, cmd, sig, tx, res, asked, cut, expects, image, mounted, removed>>
    BY <1>17 DEF Images!Hangup
  <2>2. mim \in {"none", "live"} /\ (expects > 0 => cut)
    BY <2>1
  <2>3. Images!CommandsHeard'
    BY <1>17, <2>2 DEF Images!Hangup, Images!Command
  <2> QED
    BY <2>1, <2>2, <2>3
<1>18. CASE Images!Leave
  BY <1>18 DEF Images!Leave
<1> QED
  BY <1>1, <1>2, <1>3, <1>4, <1>5, <1>6, <1>7, <1>8, <1>9,
     <1>10, <1>11, <1>12, <1>13, <1>14, <1>15, <1>16, <1>17, <1>18 DEF Images!Next

-----------------------------------------------------------------------------
(* The web inspector *)

Chunks == [msg : Nat, at : Nat, final : BOOLEAN]

\* In a queue of chunks each one is followed by the next of its message, or is final and
\* followed by the first of another.
Chained(q) ==
  /\ \A i \in 1..Len(q) - 1 :
       IF q[i].final THEN q[i + 1].at = 1 ELSE q[i + 1].msg = q[i].msg /\ q[i + 1].at = q[i].at + 1
  /\ q # <<>> => q[Len(q)].final

\* While a message is sent the device has its first offset units and nothing else, unless a
\* packet was as long as some chunks.
SendInv ==
  /\ peer \in Seq([msg : Nat, at : Nat])
  /\ multiple \in BOOLEAN
  /\ offset + left <= MaxLength
  /\ pc = "send" => res = Inspector!NoResult
  /\ ~multiple /\ pc = "send" => left % Chunk # 0 /\ peer = Inspector!Units(number, 0, offset)
  /\ ~multiple /\ pc \in {"idle", "receive"} => peer = <<>>

\* What has arrived goes on where the packet ends, unless a receive gave up before.
ReceiveInv ==
  /\ wire \in Seq(Chunks) /\ packet \in Seq(Chunks) /\ told \in Nat /\ dropped \in BOOLEAN
  /\ Chained(wire)
  /\ pc # "receive" => packet = <<>>
  /\ ~dropped =>
       /\ packet = <<>> /\ wire # <<>> => wire[1].at = 1
       /\ packet # <<>> => wire # <<>> /\ wire[1].msg = packet[1].msg /\ wire[1].at = Len(packet) + 1
       /\ \A i \in 1..Len(packet) : packet[i] = [msg |-> packet[1].msg, at |-> i, final |-> FALSE]

InspectorInv ==
  /\ Inspector!TypeOK /\ SendInv /\ ReceiveInv
  /\ Inspector!SentWhole /\ Inspector!ReceivedWhole

\* The units that a packet sends from an offset.
LEMMA UnitsType ==
  ASSUME NEW n \in Nat, NEW a \in Nat, NEW b \in Nat
  PROVE  /\ Inspector!Units(n, a, b) \in Seq([msg : Nat, at : Nat])
         /\ Len(Inspector!Units(n, a, b)) = b
         /\ \A i \in 1..b : Inspector!Units(n, a, b)[i] = [msg |-> n, at |-> a + i]
BY DEF Inspector!Units

\* What follows the first units of a packet makes more of them.
LEMMA UnitsJoin ==
  ASSUME NEW n \in Nat, NEW a \in Nat, NEW b \in Nat
  PROVE  Inspector!Units(n, 0, a) \o Inspector!Units(n, a, b) = Inspector!Units(n, 0, a + b)
<1> DEFINE x == Inspector!Units(n, 0, a)
           y == Inspector!Units(n, a, b)
           z == Inspector!Units(n, 0, a + b)
<1>1. /\ x \in Seq([msg : Nat, at : Nat]) /\ Len(x) = a
      /\ \A i \in 1..a : x[i] = [msg |-> n, at |-> 0 + i]
  BY UnitsType
<1>2. /\ y \in Seq([msg : Nat, at : Nat]) /\ Len(y) = b
      /\ \A i \in 1..b : y[i] = [msg |-> n, at |-> a + i]
  BY UnitsType
<1>3. /\ z \in Seq([msg : Nat, at : Nat]) /\ Len(z) = a + b
      /\ \A i \in 1..a + b : z[i] = [msg |-> n, at |-> 0 + i]
  <2>1. a + b \in Nat
    OBVIOUS
  <2> QED
    BY <2>1, UnitsType
<1> HIDE DEF x, y, z
<1>4. x \o y \in Seq([msg : Nat, at : Nat]) /\ Len(x \o y) = a + b
  BY <1>1, <1>2
<1>5. ASSUME NEW i \in 1..a + b
      PROVE  (x \o y)[i] = z[i]
  <2>1. CASE i \in 1..a
    BY <1>1, <1>2, <1>3, <2>1
  <2>2. CASE i \in a + 1..a + b
    <3>1. (x \o y)[i] = y[i - a] /\ i - a \in 1..b
      BY <1>1, <1>2, <2>2
    <3> QED
      BY <1>2, <1>3, <2>2, <3>1
  <2>3. i \in 1..a \/ i \in a + 1..a + b
    BY <1>5
  <2> QED
    BY <2>1, <2>2, <2>3
<1>6. x \o y = z
  BY <1>3, <1>4, <1>5, SeqEqual
<1> QED
  BY <1>6 DEF x, y, z

\* Division by the size of a chunk: what is left of a packet after one leaves the same rest.
LEMMA RestKept ==
  ASSUME NEW c \in Nat \ {0}, NEW a \in Nat, a >= c
  PROVE  (a - c) % c = a % c
<1> DEFINE q == a \div c
           r == a % c
<1>1. q \in Int /\ r \in 0..c - 1
  OBVIOUS
<1>2. a = c * q + r
  OBVIOUS
<1>3. a - c = c * (q - 1) + r /\ q - 1 \in Int
  BY <1>1, <1>2
<1> HIDE DEF q, r
<1>4. (c * (q - 1) + r) % c = r
  BY <1>1, <1>3
<1> QED
  BY <1>3, <1>4 DEF r

\* The chunks of a message of the device make a chain, and so does what is behind another.
LEMMA ChainedAppend ==
  ASSUME NEW q \in Seq(Chunks), Chained(q), NEW m \in Nat, NEW c \in Nat \ {0}
  PROVE  LET all == q \o [i \in 1..c |-> [msg |-> m, at |-> i, final |-> i = c]] IN
         /\ all \in Seq(Chunks) /\ Chained(all) /\ all # <<>>
         /\ IF q = <<>> THEN all[1].at = 1 ELSE all[1] = q[1]
<1> DEFINE d == [i \in 1..c |-> [msg |-> m, at |-> i, final |-> i = c]]
           all == q \o d
           n == Len(q)
<1>1. /\ d \in Seq(Chunks) /\ Len(d) = c
      /\ \A i \in 1..c : d[i].msg = m /\ d[i].at = i /\ (d[i].final <=> i = c)
  <2>1. /\ d \in Seq(Chunks) /\ Len(d) = c
        /\ \A i \in 1..c : d[i] = [msg |-> m, at |-> i, final |-> i = c]
    BY DEF Chunks
  <2>2. \A i \in 1..c : d[i].msg = m /\ d[i].at = i
    BY <2>1
  <2>3. \A i \in 1..c : d[i].final <=> i = c
    BY <2>1, Zenon
  <2> QED
    BY <2>1, <2>2, <2>3
<1>2. n \in Nat /\ (n = 0 <=> q = <<>>)
  OBVIOUS
<1> HIDE DEF d
<1>3. /\ all \in Seq(Chunks) /\ Len(all) = n + c
      /\ \A i \in 1..n : all[i] = q[i]
      /\ \A i \in 1..c : all[n + i] = d[i]
  BY <1>1
<1> HIDE DEF all
<1>4. \A i \in 1..n - 1 : all[i] = q[i] /\ all[i + 1] = q[i + 1]
  BY <1>2, <1>3
<1>5. all[n + 1].at = 1
  BY <1>1, <1>3
<1>6. n # 0 => all[n].final
  BY <1>2, <1>3 DEF Chained
<1>7. ASSUME NEW i \in 1..c - 1
      PROVE  /\ ~all[n + i].final
             /\ all[n + i + 1].msg = all[n + i].msg /\ all[n + i + 1].at = all[n + i].at + 1
  <2>1. i \in 1..c /\ i + 1 \in 1..c /\ i # c /\ n + i + 1 = n + (i + 1)
    BY <1>2
  <2>2. all[n + i] = d[i] /\ all[n + i + 1] = d[i + 1]
    BY <1>3, <2>1
  <2> QED
    BY <1>1, <2>1, <2>2
<1>8. all[n + c].final
  BY <1>1, <1>3
<1>9. ASSUME NEW i \in 1..n + c - 1
      PROVE  IF all[i].final THEN all[i + 1].at = 1
             ELSE all[i + 1].msg = all[i].msg /\ all[i + 1].at = all[i].at + 1
  <2>1. CASE i \in 1..n - 1
    BY <1>4, <2>1 DEF Chained
  <2>2. CASE i = n
    BY <1>5, <1>6, <2>2
  <2>3. CASE i \in n + 1..n + c - 1
    <3>1. i - n \in 1..c - 1 /\ i = n + (i - n) /\ i + 1 = n + (i - n) + 1
      BY <1>2, <2>3
    <3> QED
      BY <1>7, <3>1
  <2> QED
    BY <1>2, <2>1, <2>2, <2>3
<1>10. Chained(all) /\ all # <<>>
  BY <1>2, <1>3, <1>8, <1>9 DEF Chained
<1>11. IF q = <<>> THEN all[1].at = 1 ELSE all[1] = q[1]
  BY <1>2, <1>3, <1>5
<1> QED
  BY <1>3, <1>10, <1>11 DEF all, d

\* What follows the first chunk of a queue of messages.
LEMMA ChainedTail ==
  ASSUME NEW q \in Seq(Chunks), Chained(q), q # <<>>
  PROVE  /\ Tail(q) \in Seq(Chunks) /\ Chained(Tail(q)) /\ Head(q) = q[1] /\ q[1] \in Chunks
         /\ q[1].final /\ Tail(q) # <<>> => Tail(q)[1].at = 1
         /\ ~q[1].final => /\ Tail(q) # <<>>
                           /\ Tail(q)[1].msg = q[1].msg /\ Tail(q)[1].at = q[1].at + 1
<1> DEFINE t == Tail(q)
           n == Len(q)
<1>1. n \in Nat \ {0} /\ Head(q) = q[1] /\ q[1] \in Chunks
  OBVIOUS
<1>2. t \in Seq(Chunks) /\ Len(t) = n - 1 /\ \A i \in 1..n - 1 : t[i] = q[i + 1]
  OBVIOUS
<1> HIDE DEF t
<1>3. \A i \in 1..n - 2 : t[i] = q[i + 1] /\ t[i + 1] = q[i + 1 + 1] /\ i + 1 \in 1..n - 1
  BY <1>1, <1>2
<1>4. t # <<>> => n > 1 /\ t[n - 1] = q[n] /\ t[1] = q[1 + 1] /\ 1 \in 1..n - 1
  BY <1>1, <1>2
<1>5. ~q[1].final => t # <<>>
  BY <1>1, <1>2 DEF Chained
<1>6. Chained(t)
  BY <1>1, <1>2, <1>3, <1>4 DEF Chained
<1>7. t # <<>> => IF q[1].final THEN t[1].at = 1 ELSE t[1].msg = q[1].msg /\ t[1].at = q[1].at + 1
  BY <1>4 DEF Chained
<1> QED
  BY <1>1, <1>2, <1>5, <1>6, <1>7 DEF t

\* Before a message the device has no part of one.
LEMMA InspectorStart == Inspector!Init => InspectorInv
<1> SUFFICES ASSUME Inspector!Init PROVE InspectorInv
  OBVIOUS
<1> USE InspectorAssumption DEF Inspector!Init, Inspector!NoResult
<1>1. Inspector!TypeOK
  BY DEF Inspector!TypeOK
<1>2. SendInv
  <2>1. pc = "idle" /\ peer = <<>> /\ multiple = FALSE /\ offset = 0 /\ left = 0
    OBVIOUS
  <2>2. peer \in Seq([msg : Nat, at : Nat])
    BY <2>1
  <2>3. multiple \in BOOLEAN
    BY <2>1
  <2>4. pc # "send" /\ offset + left <= MaxLength
    BY <2>1
  <2> QED
    BY ONLY <2>1, <2>2, <2>3, <2>4 DEF SendInv
<1>3. ReceiveInv
  <2>1. wire = <<>> /\ packet = <<>> /\ told = 0 /\ dropped = FALSE
    BY DEF Inspector!Init
  <2>2. Len(wire) = 0 /\ Len(packet) = 0 /\ wire \in Seq(Chunks) /\ packet \in Seq(Chunks)
    BY <2>1
  <2>3. Chained(wire)
    <3>1. 1..Len(wire) - 1 = {}
      BY ONLY <2>2
    <3> QED
      BY ONLY <2>1, <3>1, Zenon DEF Chained
  <2>4. dropped \in BOOLEAN
    BY <2>1
  <2>6. told \in Nat
    BY <2>1
  <2>5. \A i \in 1..Len(packet) : packet[i] = [msg |-> packet[1].msg, at |-> i, final |-> FALSE]
    BY <2>2
  <2> QED
    BY ONLY <2>1, <2>2, <2>3, <2>4, <2>5, <2>6 DEF ReceiveInv
<1>4. Inspector!SentWhole /\ Inspector!ReceivedWhole
  BY DEF Inspector!SentWhole, Inspector!ReceivedWhole
<1> QED
  BY <1>1, <1>2, <1>3, <1>4 DEF InspectorInv

\* What a chunk makes of the device's packet.
LEMMA SendChunkKeeps ==
  ASSUME InspectorInv, Inspector!SendChunk
  PROVE  Inspector!TypeOK' /\ SendInv' /\ Inspector!SentWhole'
<1> USE InspectorAssumption
<1> DEFINE size == IF left < Chunk THEN left ELSE Chunk
           units == Inspector!Units(number, offset, size)
<1>1. /\ pc = "send" /\ left' = left - size /\ offset' = offset + size /\ number' = number
      /\ IF left < Chunk THEN heard' = peer \o units /\ peer' = <<>>
                         ELSE peer' = peer \o units /\ heard' = heard
      /\ IF left = size THEN pc' = "idle" ELSE pc' = "send"
      /\ multiple' = multiple
  BY DEF Inspector!SendChunk, Inspector!Final, Inspector!Advance
<1>2. /\ number \in Nat /\ left \in Nat /\ offset \in Nat /\ size \in Nat /\ size <= left
      /\ offset + left <= MaxLength /\ number \in 0..MaxMessages
      /\ peer \in Seq([msg : Nat, at : Nat]) /\ multiple \in BOOLEAN
  BY DEF InspectorInv, Inspector!TypeOK, SendInv
<1>3. units \in Seq([msg : Nat, at : Nat])
  BY <1>2, UnitsType
<1>4. peer \o units \in Seq([msg : Nat, at : Nat])
  BY <1>2, <1>3
<1>5. ~multiple => left % Chunk # 0 /\ peer \o units = Inspector!Units(number, 0, offset + size)
  <2>1. Inspector!Units(number, 0, offset) \o units = Inspector!Units(number, 0, offset + size)
    BY ONLY <1>2, UnitsJoin
  <2>2. ~multiple => left % Chunk # 0 /\ peer = Inspector!Units(number, 0, offset)
    BY <1>1 DEF InspectorInv, SendInv
  <2> QED
    BY ONLY <2>1, <2>2
<1>6. ASSUME ~multiple, left >= Chunk
      PROVE  left # Chunk /\ left' % Chunk # 0
  <2>1. size = Chunk /\ left' = left - Chunk
    BY <1>1, <1>2, <1>6
  <2>2. (left - Chunk) % Chunk = left % Chunk
    BY <1>2, <1>6, RestKept
  <2>3. Chunk % Chunk = 0
    OBVIOUS
  <2>4. left % Chunk # 0
    BY <1>5, <1>6
  <2> QED
    BY ONLY <2>1, <2>2, <2>3, <2>4, Zenon
<1>7. Len(Inspector!Units(number, 0, offset + size)) = offset + size
  <2>1. offset + size \in Nat
    BY <1>2
  <2> QED
    BY ONLY <1>2, <2>1, UnitsType
<1> HIDE DEF units
<1>8. Inspector!TypeOK'
  BY <1>1, <1>2 DEF Inspector!TypeOK
<1>9. SendInv'
  <2>1. peer' \in Seq([msg : Nat, at : Nat])
    <3>1. peer' = <<>> \/ peer' = peer \o units
      BY <1>1
    <3>2. <<>> \in Seq([msg : Nat, at : Nat])
      OBVIOUS
    <3> QED
      BY ONLY <1>4, <3>1, <3>2
  <2>5. multiple' \in BOOLEAN /\ offset' + left' <= MaxLength
    BY <1>1, <1>2
  <2>6. pc' = "send" => res' = Inspector!NoResult
    BY <1>1, <1>2 DEF Inspector!SendChunk, Inspector!Final, InspectorInv, SendInv
  <2>7. Inspector!NoResult' = Inspector!NoResult
    BY DEF Inspector!NoResult
  <2>2. ASSUME ~multiple', pc' = "send"
        PROVE  left' % Chunk # 0 /\ peer' = Inspector!Units(number', 0, offset')
    BY <1>1, <1>2, <1>5, <1>6, <2>2
  <2>3. ~multiple' /\ pc' \in {"idle", "receive"} => peer' = <<>>
    BY <1>1, <1>2, <1>5, <1>6
  <2>4. Inspector!Units(number, 0, offset)' = Inspector!Units(number', 0, offset')
    BY DEF Inspector!Units
  <2> QED
    BY <2>1, <2>2, <2>3, <2>4, <2>5, <2>6, <2>7 DEF SendInv
<1>10. Inspector!SentWhole'
  <2> SUFFICES ASSUME ~multiple', res'.op = "send"
               PROVE  peer' = <<>> /\ heard' = Inspector!Units(number', 0, Len(heard')) /\ Len(heard') = offset'
    BY DEF Inspector!SentWhole, Inspector!Units
  <2>1. left = size
    <3>1. left # size => res' = res /\ res = Inspector!NoResult
      BY <1>1 DEF Inspector!SendChunk, Inspector!Final, InspectorInv, SendInv
    <3>2. Inspector!NoResult.op = "none"
      BY DEF Inspector!NoResult
    <3> QED
      BY <3>1, <3>2
  <2>2. left < Chunk /\ offset' = offset + size
    BY <1>1, <1>2, <1>6, <2>1
  <2>3. heard' = Inspector!Units(number, 0, offset + size) /\ peer' = <<>>
    BY <1>1, <1>5, <2>2
  <2> QED
    BY <1>1, <1>7, <2>2, <2>3
<1> QED
  BY <1>8, <1>9, <1>10

\* The half of the invariant that is about what the host sends.
LEMMA SendingKeeps ==
  ASSUME InspectorInv, Inspector!Next
  PROVE  Inspector!TypeOK' /\ SendInv' /\ Inspector!SentWhole'
<1> USE InspectorAssumption
<1>1. CASE Inspector!Send
  <2>1. /\ pc = "idle" /\ number < MaxMessages /\ pc' = "send" /\ number' = number + 1
        /\ left' \in 1..MaxLength /\ offset' = 0 /\ res' = Inspector!NoResult /\ peer' = peer
    BY <1>1 DEF Inspector!Send
  <2>2. multiple' \in BOOLEAN /\ (~multiple' => ~multiple /\ left' % Chunk # 0)
    BY <1>1 DEF Inspector!Send, InspectorInv, SendInv
  <2>3. Inspector!TypeOK'
    BY <2>1 DEF InspectorInv, Inspector!TypeOK
  <2>4. ~multiple' => peer' = Inspector!Units(number', 0, offset')
    BY <2>1, <2>2 DEF InspectorInv, SendInv, Inspector!Units
  <2>5. SendInv'
    <3>1. Inspector!NoResult' = Inspector!NoResult
      BY DEF Inspector!NoResult
    <3>2. Inspector!Units(number, 0, offset)' = Inspector!Units(number', 0, offset')
      BY DEF Inspector!Units
    <3>3. peer' \in Seq([msg : Nat, at : Nat])
      BY <2>1 DEF InspectorInv, SendInv
    <3>4. offset' + left' <= MaxLength
      <4>1. left' \in Nat /\ left' <= MaxLength
        BY <2>1
      <4>2. \A m, n \in Nat : m <= n => 0 + m <= n
        OBVIOUS
      <4>3. MaxLength \in Nat /\ offset' = 0
        BY <2>1
      <4> QED
        BY ONLY <4>1, <4>2, <4>3, Zenon
    <3> QED
      BY ONLY <2>1, <2>2, <2>4, <3>1, <3>2, <3>3, <3>4 DEF SendInv
  <2>6. Inspector!SentWhole'
    BY <2>1 DEF Inspector!SentWhole, Inspector!NoResult
  <2> QED
    BY <2>3, <2>5, <2>6
<1>2. CASE Inspector!SendChunk
  BY <1>2, SendChunkKeeps
<1>3. CASE \/ Inspector!SendFails \/ Inspector!DeviceSends \/ Inspector!Receive
           \/ Inspector!ReceiveChunk \/ Inspector!ReceiveFails
  <2>1. UNCHANGED <<number, left, offset, peer, heard, multiple>>
    BY <1>3 DEF Inspector!SendFails, Inspector!DeviceSends, Inspector!Receive, Inspector!ReceiveChunk,
                Inspector!ReceiveFails
  <2>2. \/ pc' = pc /\ res' = res
        \/ /\ pc' \in {"idle", "receive", "lost"} /\ (pc' # "lost" => pc \in {"idle", "receive"})
           /\ ~(res'.op = "send" /\ res'.ok)
    BY <1>3 DEF Inspector!SendFails, Inspector!DeviceSends, Inspector!Receive, Inspector!ReceiveChunk,
                Inspector!ReceiveFails, Inspector!NoResult
  <2>3. Inspector!TypeOK'
    BY <2>1, <2>2 DEF InspectorInv, Inspector!TypeOK
  <2>4. SendInv'
    BY <2>1, <2>2 DEF InspectorInv, SendInv, Inspector!Units, Inspector!NoResult
  <2>5. Inspector!SentWhole'
    BY <2>1, <2>2 DEF InspectorInv, Inspector!SentWhole, Inspector!Units
  <2> QED
    BY <2>3, <2>4, <2>5
<1> QED
  BY <1>1, <1>2, <1>3 DEF Inspector!Next

\* The half of the invariant that is about what the device sends.
LEMMA ReceivingKeeps ==
  ASSUME InspectorInv, Inspector!Next
  PROVE  ReceiveInv' /\ Inspector!ReceivedWhole'
<1> USE DEF Inspector!NoResult
<1>0. /\ wire \in Seq(Chunks) /\ packet \in Seq(Chunks) /\ told \in Nat /\ dropped \in BOOLEAN
      /\ Chained(wire) /\ (pc # "receive" => packet = <<>>)
  BY DEF InspectorInv, ReceiveInv
<1>1. CASE Inspector!Send \/ Inspector!SendChunk \/ Inspector!SendFails \/ Inspector!Receive
  <2>1. UNCHANGED <<wire, told, dropped>> /\ pc # "receive"
    BY <1>1 DEF Inspector!Send, Inspector!SendChunk, Inspector!SendFails, Inspector!Receive
  <2>2. packet' = packet \/ packet' = <<>>
    BY <1>1 DEF Inspector!Send, Inspector!SendChunk, Inspector!SendFails, Inspector!Receive
  <2>3. res' = res \/ res'.op # "receive"
    <3>1. Inspector!SendChunk => res' = res \/ res' = [Inspector!NoResult EXCEPT !.op = "send", !.ok = TRUE]
      BY DEF Inspector!SendChunk
    <3>2. Inspector!SendFails => res' = [Inspector!NoResult EXCEPT !.op = "send"]
      BY DEF Inspector!SendFails
    <3>3. Inspector!Send \/ Inspector!Receive => res' = Inspector!NoResult
      BY DEF Inspector!Send, Inspector!Receive
    <3>4. /\ Inspector!NoResult.op = "none"
          /\ [Inspector!NoResult EXCEPT !.op = "send"].op = "send"
          /\ [Inspector!NoResult EXCEPT !.op = "send", !.ok = TRUE].op = "send"
      BY DEF Inspector!NoResult
    <3> HIDE DEF Inspector!NoResult
    <3> QED
      BY ONLY <1>1, <3>1, <3>2, <3>3, <3>4
  <2>4. packet = <<>> /\ packet' = <<>>
    BY <1>0, <2>1, <2>2
  <2>5. ReceiveInv'
    BY <2>1, <2>4 DEF InspectorInv, ReceiveInv, Chained
  <2>6. Inspector!ReceivedWhole'
    BY <2>1, <2>3 DEF InspectorInv, Inspector!ReceivedWhole
  <2> QED
    BY <2>5, <2>6
<1>2. CASE Inspector!DeviceSends
  <2>1. PICK chunks \in 1..3 :
          wire' = wire \o [i \in 1..chunks |-> [msg |-> told + 1, at |-> i, final |-> i = chunks]]
    BY <1>2 DEF Inspector!DeviceSends
  <2>2. /\ wire' \in Seq(Chunks) /\ Chained(wire') /\ wire' # <<>>
        /\ IF wire = <<>> THEN wire'[1].at = 1 ELSE wire'[1] = wire[1]
    <3>1. told + 1 \in Nat /\ chunks \in Nat \ {0}
      BY <1>0
    <3> QED
      BY <1>0, <2>1, <3>1, ChainedAppend, ZenonT(60)
  <2>3. UNCHANGED <<pc, packet, dropped, res>> /\ told' = told + 1
    BY <1>2 DEF Inspector!DeviceSends
  <2>4. ReceiveInv'
    BY <1>0, <2>2, <2>3 DEF InspectorInv, ReceiveInv, Chained
  <2>5. Inspector!ReceivedWhole'
    BY <2>3 DEF InspectorInv, Inspector!ReceivedWhole
  <2> QED
    BY <2>4, <2>5
<1>3. CASE Inspector!ReceiveChunk
  <2> DEFINE all == Append(packet, Head(wire))
             n == Len(packet)
  <2>1. /\ wire # <<>> /\ wire' = Tail(wire) /\ dropped' = dropped /\ told' = told /\ pc = "receive"
        /\ IF Head(wire).final
             THEN pc' = "idle" /\ packet' = <<>> /\ res' = [op |-> "receive", ok |-> TRUE, packet |-> all]
             ELSE packet' = all /\ pc' = pc /\ res' = res
    BY <1>3 DEF Inspector!ReceiveChunk, Inspector!Last
  <2>2. /\ Tail(wire) \in Seq(Chunks) /\ Chained(Tail(wire)) /\ Head(wire) = wire[1] /\ wire[1] \in Chunks
        /\ wire[1].final /\ Tail(wire) # <<>> => Tail(wire)[1].at = 1
        /\ ~wire[1].final => /\ Tail(wire) # <<>>
                             /\ Tail(wire)[1].msg = wire[1].msg /\ Tail(wire)[1].at = wire[1].at + 1
    BY <1>0, <2>1, ChainedTail
  <2>3. /\ all \in Seq(Chunks) /\ Len(all) = n + 1 /\ n \in Nat /\ all # <<>>
        /\ \A i \in 1..n : all[i] = packet[i]
        /\ all[n + 1] = wire[1]
    BY ONLY <1>0, <2>2, AppendProperties, LenProperties
  <2> HIDE DEF all
  <2>4. ASSUME ~dropped
        PROVE  /\ \A i \in 1..n : all[i] = [msg |-> all[1].msg, at |-> i, final |-> FALSE]
               /\ wire[1] = [msg |-> all[1].msg, at |-> n + 1, final |-> wire[1].final]
    <3>1. /\ packet = <<>> => wire[1].at = 1
          /\ packet # <<>> => wire[1].msg = packet[1].msg /\ wire[1].at = n + 1
          /\ \A i \in 1..n : packet[i] = [msg |-> packet[1].msg, at |-> i, final |-> FALSE]
      BY <2>1, <2>4 DEF InspectorInv, ReceiveInv
    <3>2. wire[1].at = n + 1 /\ wire[1].msg = all[1].msg
      BY <1>0, <2>3, <3>1
    <3>3. wire[1] = [msg |-> wire[1].msg, at |-> wire[1].at, final |-> wire[1].final]
      BY <2>2 DEF Chunks
    <3>4. n # 0 => packet[1].msg = all[1].msg
      BY <2>3
    <3> QED
      BY <2>3, <3>1, <3>2, <3>3, <3>4
  <2>5. CASE wire[1].final
    <3>1. /\ pc' = "idle" /\ packet' = <<>>
          /\ res' = [op |-> "receive", ok |-> TRUE, packet |-> all]
      BY <2>1, <2>2, <2>5
    <3>2. ReceiveInv'
      BY <1>0, <2>1, <2>2, <2>5, <3>1 DEF ReceiveInv
    <3>3. ASSUME ~dropped, NEW i \in 1..n + 1
          PROVE  all[i] = [msg |-> all[1].msg, at |-> i, final |-> i = n + 1]
      <4>1. CASE i \in 1..n
        <5>1. all[i] = [msg |-> all[1].msg, at |-> i, final |-> FALSE]
          BY ONLY <2>4, <3>3, <4>1
        <5>2. (i = n + 1) = FALSE
          BY ONLY <2>3, <4>1
        <5> QED
          BY <5>1, <5>2
      <4>2. CASE i = n + 1
        BY <2>2, <2>3, <2>4, <2>5, <3>3, <4>2 DEF Chunks
      <4> QED
        BY <2>3, <4>1, <4>2
    <3>4. Inspector!ReceivedWhole'
      BY <2>1, <2>3, <3>1, <3>3 DEF Inspector!ReceivedWhole
    <3> QED
      BY <3>2, <3>4
  <2>6. CASE ~wire[1].final
    <3>1. packet' = all /\ pc' = pc /\ res' = res
      BY <2>1, <2>2, <2>6
    <3>2. ReceiveInv'
      <4>1. /\ Tail(wire) # <<>> /\ wire' # <<>> /\ packet' # <<>>
            /\ Tail(wire)[1].msg = wire[1].msg /\ Tail(wire)[1].at = wire[1].at + 1
        BY <2>1, <2>2, <2>3, <2>6, <3>1
      <4>2. ASSUME ~dropped
            PROVE  /\ wire'[1].msg = packet'[1].msg /\ wire'[1].at = Len(packet') + 1
                   /\ \A i \in 1..Len(packet') : packet'[i] = [msg |-> packet'[1].msg, at |-> i, final |-> FALSE]
        <5>1. wire[1].msg = all[1].msg /\ wire[1].at = n + 1
          BY <2>4, <4>2
        <5>2. wire[1].final = FALSE
          BY <2>2, <2>6 DEF Chunks
        <5>3. \A i \in 1..n + 1 : all[i] = [msg |-> all[1].msg, at |-> i, final |-> FALSE]
          <6>1. ASSUME NEW i \in 1..n + 1
                PROVE  i \in 1..n \/ i = n + 1
            BY <2>3
          <6>2. all[n + 1] = [msg |-> all[1].msg, at |-> n + 1, final |-> FALSE]
            BY ONLY <2>3, <2>4, <4>2, <5>2
          <6> QED
            BY ONLY <2>4, <4>2, <6>1, <6>2
        <5> QED
          BY <2>1, <2>3, <3>1, <4>1, <5>1, <5>3
      <4>3. wire' \in Seq(Chunks) /\ packet' \in Seq(Chunks) /\ Chained(wire') /\ pc' = "receive"
        BY <2>1, <2>2, <2>3, <3>1
      <4> QED
        BY <1>0, <2>1, <4>1, <4>2, <4>3 DEF ReceiveInv, Chained
    <3>3. Inspector!ReceivedWhole'
      BY <2>1, <3>1 DEF InspectorInv, Inspector!ReceivedWhole
    <3> QED
      BY <3>2, <3>3
  <2> QED
    BY <2>5, <2>6
<1>4. CASE Inspector!ReceiveFails
  <2>1. /\ pc' = "idle" /\ packet' = <<>> /\ told' = told /\ res'.ok = FALSE
        /\ wire' = wire \/ (wire # <<>> /\ wire' = Tail(wire))
        /\ dropped' \in BOOLEAN /\ (~dropped' => ~dropped /\ packet = <<>> /\ wire' = wire)
    BY <1>0, <1>4 DEF Inspector!ReceiveFails
  <2>2. wire' \in Seq(Chunks) /\ Chained(wire')
    BY <1>0, <2>1, ChainedTail
  <2>3. ReceiveInv'
    BY <1>0, <2>1, <2>2 DEF InspectorInv, ReceiveInv
  <2>4. Inspector!ReceivedWhole'
    BY <2>1 DEF Inspector!ReceivedWhole
  <2> QED
    BY <2>3, <2>4
<1> QED
  BY <1>1, <1>2, <1>3, <1>4 DEF Inspector!Next

\* Every step of the web inspector keeps both halves.
LEMMA InspectorSteps ==
  ASSUME InspectorInv, Inspector!Next
  PROVE  InspectorInv'
BY SendingKeeps, ReceivingKeeps DEF InspectorInv

-----------------------------------------------------------------------------
(* Request and reply *)

OpNames ==
  {"any", "GetValue", "SetValue", "RemoveValue", "StartService", "Activate", "Deactivate",
   "EnterRecovery", "Goodbye"}
OpRecords ==
  [sends : BOOLEAN, stops : BOOLEAN, receives : {"plist", "raw", "none"}, checked : BOOLEAN, name : OpNames]
Outstanding == [id : 1..MaxCalls, name : OpNames]
Busy(t) == pc[t] \in {"send", "recv", "leave"}

\* What holds of a thread.  When it has sent its request and no answer of that name was still
\* to come, the only one that is to come is its own; and until misagent has an answer its
\* status is unknown.
ThreadInv(t) ==
  /\ pc[t] # "idle" => op[t] \in Requests!Operations(service) /\ t \in Requests!Users
  /\ pc[t] = "lock" => Requests!Locked
  /\ Busy(t) /\ Requests!Locked => lock = t
  /\ pc[t] \in {"lock", "send"} => id[t] # 0
  /\ pc[t] \in {"lock", "send", "recv"} => from[t] = 0
  /\ pc[t] = "recv" /\ ~behind[t] =>
       \A i \in 1..Len(owed) : owed[i].name = op[t].name => owed[i].id = id[t]
  /\ pc[t] \in {"send", "recv"} /\ service = "misagent" => status = "unknown"
  /\ pc[t] = "leave" /\ from[t] # 0 => from[t] = id[t] \/ behind[t]
  /\ pc[t] = "leave" /\ service = "misagent" =>
       status = (IF res[t] = "ok" THEN "zero" ELSE IF res[t] = "refused" THEN "code" ELSE "unknown")

RequestsTypes ==
  /\ Requests!TypeOK
  /\ op \in [Threads -> OpRecords]
  /\ owed \in Seq(Outstanding)

RequestsInv == RequestsTypes /\ \A t \in Threads : ThreadInv(t)

\* What is in an operation's record; all of sbservices send, and those of misagent are the plain
\* exchange.
LEMMA OperationTypes ==
  ASSUME NEW s, NEW o \in Requests!Operations(s)
  PROVE  /\ o \in OpRecords
         /\ s = "sbservices" => o.sends
         /\ s = "misagent" => o.sends /\ o.stops /\ o.receives = "plist" /\ o.checked
<1>1. /\ Requests!Asks = [sends |-> TRUE, stops |-> TRUE, receives |-> "plist", checked |-> TRUE, name |-> "any"]
      /\ Requests!AsksOn = [sends |-> TRUE, stops |-> FALSE, receives |-> "plist", checked |-> TRUE, name |-> "any"]
      /\ Requests!Fetches = [sends |-> TRUE, stops |-> TRUE, receives |-> "plist", checked |-> FALSE, name |-> "any"]
      /\ Requests!Tells = [sends |-> TRUE, stops |-> TRUE, receives |-> "none", checked |-> FALSE, name |-> "any"]
      /\ Requests!Listens = [sends |-> FALSE, stops |-> TRUE, receives |-> "plist", checked |-> FALSE, name |-> "any"]
      /\ Requests!set_icon_state =
           [sends |-> TRUE, stops |-> FALSE, receives |-> "raw", checked |-> FALSE, name |-> "any"]
      /\ Requests!restored_goodbye =
           [sends |-> TRUE, stops |-> FALSE, receives |-> "plist", checked |-> FALSE, name |-> "any"]
  BY DEF Requests!Op, Requests!Asks, Requests!AsksOn, Requests!Fetches, Requests!Tells, Requests!Listens,
         Requests!set_icon_state, Requests!restored_goodbye
<1>2. \A a, b, c \in BOOLEAN, r \in {"plist", "raw", "none"}, n \in OpNames :
        [sends |-> a, stops |-> b, receives |-> r, checked |-> c, name |-> n] \in OpRecords
  BY Zenon DEF OpRecords
<1>6. {Requests!Asks, Requests!AsksOn, Requests!Fetches, Requests!Tells, Requests!Listens,
       Requests!set_icon_state, Requests!restored_goodbye} \subseteq OpRecords
  <2>1. "any" \in OpNames
    BY DEF OpNames
  <2>2. \A a, b, c \in BOOLEAN, r \in {"plist", "raw", "none"} :
          [sends |-> a, stops |-> b, receives |-> r, checked |-> c, name |-> "any"] \in OpRecords
    BY <1>2, <2>1
  <2>3. Requests!Asks \in OpRecords /\ Requests!AsksOn \in OpRecords
    BY <1>1, <2>2
  <2>4. Requests!Fetches \in OpRecords /\ Requests!Tells \in OpRecords /\ Requests!Listens \in OpRecords
    BY <1>1, <2>2
  <2>5. Requests!set_icon_state \in OpRecords /\ Requests!restored_goodbye \in OpRecords
    BY <1>1, <2>2
  <2> QED
    BY <2>3, <2>4, <2>5
<1>7. ASSUME NEW x \in OpRecords, NEW n \in OpNames
      PROVE  Requests!Named(x, n) \in OpRecords
  BY DEF OpRecords, Requests!Named
<1>8. s # "lockdown" =>
        o \in {Requests!Asks, Requests!AsksOn, Requests!Fetches, Requests!Tells, Requests!Listens,
              Requests!set_icon_state, Requests!restored_goodbye}
  BY
    DEF Requests!Operations, Requests!goodbye, Requests!sleep, Requests!action,
        Requests!request_diagnostics, Requests!query_mobilegestalt,
        Requests!query_ioregistry_entry, Requests!query_ioregistry_plane,
        Requests!get_icon_state, Requests!get_icon_pngdata,
        Requests!get_interface_orientation, Requests!get_home_screen_wallpaper_pngdata,
        Requests!install, Requests!copy, Requests!copy_all, Requests!remove,
        Requests!send_command, Requests!send_request, Requests!get_result,
        Requests!request_sources, Requests!heartbeat_send, Requests!heartbeat_receive,
        Requests!query_type, Requests!query_value, Requests!start_restore, Requests!reboot
<1>9. s = "lockdown" =>
        \E x \in {Requests!Asks, Requests!AsksOn}, n \in OpNames : o = Requests!Named(x, n)
  <2>1. s = "lockdown" =>
          \/ \E n \in {"GetValue", "SetValue", "RemoveValue", "StartService"} :
                o = Requests!Named(Requests!Asks, n)
          \/ \E n \in {"Activate", "Deactivate", "EnterRecovery", "Goodbye"} :
                o = Requests!Named(Requests!AsksOn, n)
    BY
      DEF Requests!Operations, Requests!get_value, Requests!get_sync_data_classes,
          Requests!set_value, Requests!remove_value, Requests!start_service,
          Requests!activate, Requests!deactivate, Requests!enter_recovery,
          Requests!lockdownd_goodbye
  <2>2. {"GetValue", "SetValue", "RemoveValue", "StartService", "Activate", "Deactivate", "EnterRecovery",
         "Goodbye"} \subseteq OpNames
    BY DEF OpNames
  <2> QED
    BY <2>1, <2>2
<1>3. o \in OpRecords
  BY <1>6, <1>7, <1>8, <1>9
<1>4. s = "sbservices" => o.sends
  BY <1>1
  DEF Requests!Operations, Requests!get_icon_state, Requests!get_icon_pngdata,
      Requests!get_interface_orientation, Requests!get_home_screen_wallpaper_pngdata
<1>5. s = "misagent" => o = Requests!Asks
  BY DEF Requests!Operations, Requests!install, Requests!copy, Requests!copy_all, Requests!remove
<1> QED
  BY <1>1, <1>3, <1>4, <1>5

\* The operation that stands for none, before the first call, is of the type of operations.
LEMMA TellsType == Requests!Tells \in OpRecords
<1>1. \A r \in {"plist", "raw", "none"}, n \in OpNames :
        [sends |-> TRUE, stops |-> TRUE, receives |-> r, checked |-> FALSE, name |-> n] \in OpRecords
  BY Zenon DEF OpRecords
<1>2. "any" \in OpNames
  BY DEF OpNames
<1> QED
  BY <1>1, <1>2 DEF Requests!Tells, Requests!Op

\* Before the first call every thread is idle and nothing is owed.
LEMMA RequestsStart == Requests!Init => RequestsInv
<1> SUFFICES ASSUME Requests!Init PROVE RequestsInv
  OBVIOUS
<1>1. /\ lock = 0 /\ owed = <<>> /\ skew = FALSE /\ half = FALSE /\ status = "zero" /\ mode = "normal"
      /\ calls = 0 /\ service \in Names
      /\ pc = [t \in Threads |-> "idle"] /\ op = [t \in Threads |-> Requests!Tells]
      /\ id = [t \in Threads |-> 0] /\ from = [t \in Threads |-> 0]
      /\ res = [t \in Threads |-> "none"] /\ behind = [t \in Threads |-> FALSE]
  BY DEF Requests!Init
<1>2. /\ Len(owed) = 0 /\ owed \in Seq(Outstanding)
      /\ \A t \in Threads : pc[t] = "idle" /\ op[t] = Requests!Tells
  BY <1>1
<1>3. op \in [Threads -> OpRecords]
  BY <1>1, TellsType
<1>4. 0 \in 0..MaxCalls
  BY RequestsAssumption
<1>5. Requests!TypeOK
  <2>1. skew \in BOOLEAN /\ half \in BOOLEAN
    BY <1>1
  <2>2. behind \in [Threads -> BOOLEAN]
    BY <1>1
  <2>3. id \in [Threads -> 0..MaxCalls] /\ from \in [Threads -> 0..MaxCalls]
    BY <1>1, <1>4
  <2> QED
    BY <1>1, <1>2, <1>4, <2>1, <2>2, <2>3 DEF Requests!TypeOK
<1>6. \A t \in Threads : ThreadInv(t)
  BY <1>2 DEF ThreadInv, Busy
<1> QED
  BY <1>2, <1>3, <1>5, <1>6 DEF RequestsInv, RequestsTypes

\* The thread that has the lock is alone with the connection.
LEMMA BusyAlone ==
  ASSUME RequestsInv, NEW t \in Threads, NEW u \in Threads, Busy(t), Busy(u)
  PROVE  t = u
BY DEF RequestsInv, ThreadInv, Busy, Requests!Users

\* A thread that does nothing keeps what holds of it while the others leave what it uses.
LEMMA Bystander ==
  ASSUME RequestsInv, NEW u \in Threads, service' = service,
         pc'[u] = pc[u], op'[u] = op[u], id'[u] = id[u], res'[u] = res[u], from'[u] = from[u],
         behind'[u] = behind[u],
         Busy(u) => lock' = lock /\ owed' = owed /\ status' = status
  PROVE  ThreadInv(u)'
<1>1. ThreadInv(u)
  BY DEF RequestsInv
<1>2. Requests!Users' = Requests!Users /\ Requests!Locked' = Requests!Locked
  BY DEF Requests!Users, Requests!Locked
<1>3. CASE ~Busy(u)
  BY <1>1, <1>2, <1>3 DEF ThreadInv, Busy, Requests!Operations
<1>4. CASE Busy(u)
  BY <1>1, <1>2, <1>4 DEF ThreadInv, Busy, Requests!Operations
<1> QED
  BY <1>3, <1>4

\* What is in the queue of answers, and the request that is the last in it.
LEMMA QueueTypes ==
  ASSUME RequestsTypes
  PROVE  /\ Len(owed) \in Nat
         /\ \A i \in 1..Len(owed) : owed[i] \in Outstanding
         /\ owed # <<>> => /\ Tail(owed) \in Seq(Outstanding) /\ Len(Tail(owed)) = Len(owed) - 1
                           /\ \A i \in 1..Len(Tail(owed)) : Tail(owed)[i] = owed[i + 1]
                           /\ Head(owed) = owed[1] /\ Len(owed) > 0
         /\ Requests!Last \in 0..MaxCalls
<1>1. owed \in Seq(Outstanding)
  BY DEF RequestsTypes
<1>2. Len(owed) \in Nat /\ \A i \in 1..Len(owed) : owed[i] \in Outstanding
  BY <1>1, LenProperties, ElementOfSeq
<1>3. owed # <<>> => /\ Tail(owed) \in Seq(Outstanding) /\ Len(Tail(owed)) = Len(owed) - 1
                     /\ \A i \in 1..Len(Tail(owed)) : Tail(owed)[i] = owed[i + 1]
  BY <1>1, HeadTailProperties
<1>4. owed # <<>> => Head(owed) = owed[1] /\ Len(owed) > 0
  BY <1>1
<1>5. owed # <<>> => owed[Len(owed)] \in Outstanding
  BY <1>2, <1>4
<1>6. \A r \in Outstanding : r.id \in 1..MaxCalls
  BY DEF Outstanding
<1>7. calls \in 0..MaxCalls /\ 1..MaxCalls \subseteq 0..MaxCalls
  BY RequestsAssumption DEF RequestsTypes, Requests!TypeOK
<1>8. Requests!Last \in 0..MaxCalls
  BY <1>5, <1>6, <1>7 DEF Requests!Last
<1> QED
  BY <1>2, <1>3, <1>4, <1>8

\* A step of one thread leaves the others as they were, so that only what holds of that thread
\* has to be shown.
LEMMA ActorIsEnough ==
  ASSUME RequestsInv, NEW t \in Threads, service' = service, RequestsTypes', ThreadInv(t)',
         \A u \in Threads \ {t} :
           /\ pc'[u] = pc[u] /\ op'[u] = op[u] /\ id'[u] = id[u] /\ res'[u] = res[u]
           /\ from'[u] = from[u] /\ behind'[u] = behind[u]
           /\ Busy(u) => lock' = lock /\ owed' = owed /\ status' = status
  PROVE  RequestsInv'
<1>1. ASSUME NEW u \in Threads \ {t} PROVE ThreadInv(u)'
  BY Bystander
<1>2. \A u \in Threads : ThreadInv(u)'
  BY <1>1
<1> QED
  BY <1>2 DEF RequestsInv

\* A call that begins: of a client without a lock the one thread calls, so that no answer of
\* another call is of its name unless one was outstanding before.
LEMMA CallKeeps ==
  ASSUME RequestsInv, NEW t \in Threads, Requests!Call(t)
  PROVE  RequestsInv'
<1> PICK o \in Requests!Operations(service) :
      /\ op' = [op EXCEPT ![t] = o]
      /\ pc' = [pc EXCEPT ![t] = IF Requests!Locked THEN "lock" ELSE IF o.sends THEN "send" ELSE "recv"]
      /\ id' = [id EXCEPT ![t] = IF o.sends THEN calls + 1 ELSE Requests!Last]
  BY DEF Requests!Call, Requests!Goto
<1>1. /\ pc[t] = "idle" /\ t \in Requests!Users /\ calls < MaxCalls
      /\ res' = [res EXCEPT ![t] = "none"] /\ from' = [from EXCEPT ![t] = 0]
      /\ behind' = [behind EXCEPT ![t] = Len(owed) > 1] /\ calls' = calls + 1
      /\ status' = IF service = "misagent" THEN "unknown" ELSE status
      /\ UNCHANGED <<service, lock, owed, skew, half, mode>>
  BY DEF Requests!Call, Requests!Begin, Requests!Result, Requests!streamVars
<1>2. /\ o \in OpRecords /\ (service = "sbservices" => o.sends)
      /\ service = "misagent" => o.sends /\ o.stops /\ o.receives = "plist" /\ o.checked
  BY OperationTypes
<1>3. RequestsTypes /\ Requests!TypeOK
  BY DEF RequestsInv, RequestsTypes
<1>4. (Len(owed) > 1) \in BOOLEAN
  OBVIOUS
<1>5. RequestsTypes'
  <2>1. calls' \in 0..MaxCalls
    BY <1>1, <1>3, RequestsAssumption DEF Requests!TypeOK
  <2>2. id' \in [Threads -> 0..MaxCalls]
    <3>1. (IF o.sends THEN calls + 1 ELSE Requests!Last) \in 0..MaxCalls
      BY <2>1, <1>1, <1>3, QueueTypes
    <3> QED
      BY <3>1, <1>3 DEF Requests!TypeOK
  <2>3. from' \in [Threads -> 0..MaxCalls]
    BY <1>1, <1>3, RequestsAssumption DEF Requests!TypeOK
  <2>4. behind' \in [Threads -> BOOLEAN]
    BY <1>1, <1>3, <1>4 DEF Requests!TypeOK
  <2>5. op' \in [Threads -> OpRecords]
    BY <1>2, <1>3 DEF RequestsTypes
  <2>6. \A u \in Threads : op'[u] \in Requests!Operations(service)' \union {Requests!Tells}
    BY <1>1, <1>3 DEF RequestsTypes, Requests!TypeOK, Requests!Operations
  <2>7. pc' \in [Threads -> {"idle", "lock", "send", "recv", "leave"}]
    BY <1>3 DEF Requests!TypeOK
  <2>8. res' \in [Threads -> {"none", "ok", "error", "refused"}]
    BY <1>1, <1>3 DEF Requests!TypeOK
  <2>9. status' \in {"unknown", "zero", "code"} /\ mode' \in {"normal", "afc"}
    BY <1>1, <1>3 DEF Requests!TypeOK
  <2>10. /\ service' \in Names /\ lock' \in Threads \union {0}
         /\ skew' \in BOOLEAN /\ half' \in BOOLEAN
    BY <1>1, <1>3 DEF Requests!TypeOK
  <2>11. /\ owed' \in Seq(Outstanding)
         /\ \A i \in 1..Len(owed') : owed'[i].id \in 1..MaxCalls
    BY <1>1, <1>3 DEF RequestsTypes, Requests!TypeOK
  <2> QED
    BY <2>1, <2>2, <2>3, <2>4, <2>5, <2>6, <2>7, <2>8, <2>9, <2>10, <2>11 DEF RequestsTypes, Requests!TypeOK
<1>6. /\ pc'[t] = (IF Requests!Locked THEN "lock" ELSE IF o.sends THEN "send" ELSE "recv")
      /\ op'[t] = o /\ from'[t] = 0 /\ res'[t] = "none"
      /\ id'[t] = (IF o.sends THEN calls + 1 ELSE Requests!Last)
  BY <1>1, <1>3 DEF RequestsTypes, Requests!TypeOK
<1>7. behind'[t] <=> Len(owed) > 1
  BY <1>1, <1>3 DEF Requests!TypeOK
<1>8. ThreadInv(t)'
  <2>1. Requests!Users' = Requests!Users /\ Requests!Locked' = Requests!Locked
    BY <1>1 DEF Requests!Users, Requests!Locked
  <2>2. op'[t] \in Requests!Operations(service)' /\ t \in Requests!Users'
    BY <1>1, <1>6, <2>1 DEF Requests!Operations
  <2>3. pc'[t] = "lock" => Requests!Locked'
    BY <1>6, <2>1
  <2>4. (Busy(t) /\ Requests!Locked)' => lock' = t
    BY <1>6, <2>1 DEF Busy
  <2>5. pc'[t] \in {"lock", "send"} => id'[t] # 0
    BY <1>2, <1>3, <1>6 DEF Requests!Locked, Requests!TypeOK
  <2>6. pc'[t] = "recv" /\ ~behind'[t] =>
          \A i \in 1..Len(owed') : owed'[i].name = op'[t].name => owed'[i].id = id'[t]
    <3> SUFFICES ASSUME pc'[t] = "recv", ~behind'[t], NEW i \in 1..Len(owed')
                 PROVE  owed'[i].id = id'[t]
      OBVIOUS
    <3>1. Len(owed) \in Nat /\ Len(owed) <= 1 /\ i \in 1..Len(owed) /\ owed' = owed
      BY <1>1, <1>3, <1>7, QueueTypes
    <3>2. i = Len(owed) /\ owed # <<>>
      BY <3>1
    <3>3. id'[t] = Requests!Last
      BY <1>6
    <3> QED
      BY <3>1, <3>2, <3>3 DEF Requests!Last
  <2>7. service' = "misagent" => status' = "unknown"
    BY <1>1
  <2> QED
    BY <1>6, <2>2, <2>3, <2>4, <2>5, <2>6, <2>7 DEF ThreadInv
<1>9. \A u \in Threads \ {t} :
        /\ pc'[u] = pc[u] /\ op'[u] = op[u] /\ id'[u] = id[u] /\ res'[u] = res[u]
        /\ from'[u] = from[u] /\ behind'[u] = behind[u]
  BY <1>1, <1>3 DEF RequestsTypes, Requests!TypeOK
<1>10. \A u \in Threads \ {t} : Busy(u) => lock' = lock /\ owed' = owed /\ status' = status
  BY <1>1 DEF RequestsInv, ThreadInv, Busy, Requests!Users, Requests!Locked
<1> QED
  BY <1>1, <1>5, <1>8, <1>9, <1>10, ActorIsEnough

\* A thread takes the lock, which nobody has, so that no other one is busy.
LEMMA LockKeeps ==
  ASSUME RequestsInv, NEW t \in Threads, Requests!Lock(t)
  PROVE  RequestsInv'
<1>1. /\ pc[t] = "lock" /\ lock = 0 /\ lock' = t /\ pc' = [pc EXCEPT ![t] = "send"]
      /\ UNCHANGED <<service, op, id, res, from, behind, owed, skew, half, status, mode, calls>>
  BY DEF Requests!Lock, Requests!Goto, Requests!streamVars, Requests!keptVars
<1>2. RequestsTypes /\ Requests!TypeOK /\ ThreadInv(t)
  BY DEF RequestsInv, RequestsTypes
<1>3. pc' \in [Threads -> {"idle", "lock", "send", "recv", "leave"}] /\ lock' \in Threads \union {0}
  BY <1>1, <1>2 DEF Requests!TypeOK
<1>4. RequestsTypes'
  BY <1>1, <1>2, <1>3 DEF RequestsTypes, Requests!TypeOK, Requests!Operations
<1>5. pc'[t] = "send" /\ \A u \in Threads \ {t} : pc'[u] = pc[u]
  BY <1>1, <1>2 DEF Requests!TypeOK
<1>6. Requests!Locked /\ Requests!Locked' /\ t \in Requests!Users' /\ service = "sbservices"
  BY <1>1, <1>2 DEF ThreadInv, Requests!Locked, Requests!Users
<1>7. ThreadInv(t)'
  BY <1>1, <1>2, <1>5, <1>6 DEF ThreadInv, Busy, Requests!Operations
<1>8. \A u \in Threads \ {t} : ~Busy(u)
  BY <1>1, <1>6, RequestsAssumption DEF RequestsInv, ThreadInv
<1> QED
  BY <1>1, <1>4, <1>5, <1>7, <1>8, ActorIsEnough

\* A step of the thread that has the connection.
LEMMA HolderIsEnough ==
  ASSUME RequestsInv, NEW t \in Threads, Busy(t), service' = service, RequestsTypes', ThreadInv(t)',
         \A u \in Threads \ {t} :
           /\ pc'[u] = pc[u] /\ op'[u] = op[u] /\ id'[u] = id[u] /\ res'[u] = res[u]
           /\ from'[u] = from[u] /\ behind'[u] = behind[u]
  PROVE  RequestsInv'
<1>1. \A u \in Threads \ {t} : ~Busy(u)
  BY BusyAlone
<1> QED
  BY <1>1, ActorIsEnough

\* A request that is sent, or not: the queue grows only by an answer to this one.
LEMMA SendKeeps ==
  ASSUME RequestsInv, NEW t \in Threads, Requests!Send(t)
  PROVE  RequestsInv'
<1> DEFINE Named == \E i \in 1..Len(owed) : owed[i].name = op[t].name
           Answer == [id |-> id[t], name |-> op[t].name]
<1>1. /\ pc[t] = "send" /\ (Requests!Sent(t) \/ Requests!NotSent(t))
      /\ UNCHANGED <<service, lock, op, id, from, skew, status, mode, calls>>
  BY DEF Requests!Send, Requests!keptVars
<1>2. behind' = [behind EXCEPT ![t] = Named]
  BY DEF Requests!Send
<1>3. RequestsTypes /\ Requests!TypeOK /\ ThreadInv(t) /\ Busy(t)
  BY <1>1 DEF RequestsInv, RequestsTypes, Busy
<1>4. op[t] \in OpRecords /\ op[t] \in Requests!Operations(service) /\ t \in Requests!Users
  BY <1>1, <1>3 DEF RequestsTypes, ThreadInv
<1>5. Answer \in Outstanding
  <2>1. id[t] \in 1..MaxCalls
    BY <1>1, <1>3, RequestsAssumption DEF ThreadInv, Requests!TypeOK
  <2>2. op[t].name \in OpNames
    BY <1>4 DEF OpRecords
  <2> QED
    BY <2>1, <2>2 DEF Outstanding
<1>6. owed \in Seq(Outstanding) /\ Len(owed) \in Nat
  BY <1>3, QueueTypes DEF RequestsTypes
<1> HIDE DEF Named
<1>7. /\ \/ owed' = owed
         \/ owed' = Append(owed, Answer)
      /\ half' \in BOOLEAN
      /\ \/ pc' = [pc EXCEPT ![t] = "leave"]
         \/ pc' = [pc EXCEPT ![t] = "recv"]
      /\ \E r \in {"none", "ok", "error"} : res' = [res EXCEPT ![t] = r]
  BY <1>1, <1>3 DEF Requests!Sent, Requests!NotSent, Requests!Goto, Requests!Result, Requests!TypeOK
<1>8. owed' \in Seq(Outstanding)
  BY <1>5, <1>6, <1>7, AppendFacts
<1>9. RequestsTypes'
  <2>1. pc' \in [Threads -> {"idle", "lock", "send", "recv", "leave"}]
    BY <1>3, <1>7 DEF Requests!TypeOK
  <2>2. res' \in [Threads -> {"none", "ok", "error", "refused"}]
    BY <1>3, <1>7 DEF Requests!TypeOK
  <2>3. behind' \in [Threads -> BOOLEAN]
    <3>1. Named \in BOOLEAN
      BY DEF Named
    <3> QED
      BY <1>2, <1>3, <3>1 DEF Requests!TypeOK
  <2>4. \A i \in 1..Len(owed') : owed'[i].id \in 1..MaxCalls
    <3>1. \A i \in 1..Len(owed') : owed'[i] \in Outstanding
      BY <1>8, ElementOfSeq
    <3>2. \A r \in Outstanding : r.id \in 1..MaxCalls
      BY DEF Outstanding
    <3> QED
      BY <3>1, <3>2
  <2> QED
    BY <1>1, <1>3, <1>7, <1>8, <2>1, <2>2, <2>3, <2>4 DEF RequestsTypes, Requests!TypeOK, Requests!Operations
<1>10. behind'[t] <=> Named
  BY <1>2, <1>3 DEF Requests!TypeOK
<1>11. ThreadInv(t)'
  <2>1. Requests!Users' = Requests!Users /\ Requests!Locked' = Requests!Locked
    BY <1>1 DEF Requests!Users, Requests!Locked
  <2>2. pc'[t] \in {"leave", "recv"}
    BY <1>3, <1>7 DEF Requests!TypeOK
  <2>3. op'[t] \in Requests!Operations(service)' /\ t \in Requests!Users'
    BY <1>1, <1>4, <2>1 DEF Requests!Operations
  <2>4. (Busy(t) /\ Requests!Locked)' => lock' = t
    BY <1>1, <1>3, <2>1 DEF ThreadInv
  <2>5. from'[t] = 0
    BY <1>1, <1>3 DEF ThreadInv
  <2>6. pc'[t] = "recv" /\ ~behind'[t] =>
          \A i \in 1..Len(owed') : owed'[i].name = op'[t].name => owed'[i].id = id'[t]
    <3> SUFFICES ASSUME ~behind'[t], NEW i \in 1..Len(owed'), owed'[i].name = op[t].name
                 PROVE  owed'[i].id = id[t]
      BY <1>1
    <3>1. \A j \in 1..Len(owed) : owed[j].name # op[t].name
      BY <1>10 DEF Named
    <3>2. CASE owed' = owed
      BY <3>1, <3>2
    <3>3. CASE owed' = Append(owed, Answer)
      <4>1. /\ Len(owed') = Len(owed) + 1
            /\ \A j \in 1..Len(owed) : owed'[j] = owed[j]
            /\ owed'[Len(owed) + 1] = Answer
        BY <1>5, <1>6, <3>3, AppendProperties
      <4>2. i \in 1..Len(owed) \/ i = Len(owed) + 1
        BY <1>6, <4>1
      <4>3. i = Len(owed) + 1
        BY <3>1, <4>1, <4>2
      <4> QED
        BY <4>1, <4>3
    <3> QED
      BY <1>7, <3>2, <3>3
  <2>7. service' = "misagent" => status' = "unknown"
    BY <1>1, <1>3 DEF ThreadInv
  <2>8. service' = "misagent" /\ pc'[t] = "leave" => res'[t] \notin {"ok", "refused"}
    <3>1. service = "misagent" => op[t].sends /\ op[t].stops /\ op[t].receives = "plist" /\ op[t].checked
      BY <1>4, OperationTypes
    <3>2. service = "misagent" /\ Requests!Sent(t) => pc'[t] = "recv"
      BY <3>1, <1>3 DEF Requests!Sent, Requests!Goto, Requests!TypeOK
    <3>3. Requests!NotSent(t) => res'[t] = "error"
      BY <1>3 DEF Requests!NotSent, Requests!Result, Requests!TypeOK
    <3> QED
      BY <1>1, <3>2, <3>3
  <2> QED
    BY <1>1, <2>2, <2>3, <2>4, <2>5, <2>6, <2>7, <2>8 DEF ThreadInv
<1>12. \A u \in Threads \ {t} :
         /\ pc'[u] = pc[u] /\ op'[u] = op[u] /\ id'[u] = id[u] /\ res'[u] = res[u]
         /\ from'[u] = from[u] /\ behind'[u] = behind[u]
  BY <1>1, <1>2, <1>3, <1>7 DEF Requests!TypeOK
<1> QED
  BY <1>1, <1>3, <1>9, <1>11, <1>12, HolderIsEnough

\* A call that has received: with an answer, without one, or with a part of the stream.
LEMMA ReceivedKeeps ==
  ASSUME RequestsInv, NEW t \in Threads, pc[t] = "recv",
         pc' = [pc EXCEPT ![t] = "leave"],
         UNCHANGED <<service, lock, op, id, behind, half, mode, calls>>,
         owed' = owed \/ (owed # <<>> /\ owed' = Tail(owed)),
         skew' \in BOOLEAN,
         \E r \in {"none", "ok", "error", "refused"} : res' = [res EXCEPT ![t] = r],
         \E i \in 0..MaxCalls : from' = [from EXCEPT ![t] = i],
         status' \in {"unknown", "zero", "code"},
         from'[t] # 0 => from'[t] = id[t] \/ behind[t],
         service = "misagent" =>
           status' = (IF res'[t] = "ok" THEN "zero" ELSE IF res'[t] = "refused" THEN "code" ELSE "unknown")
  PROVE  RequestsInv'
<1>1. RequestsTypes /\ Requests!TypeOK /\ ThreadInv(t) /\ Busy(t)
  BY DEF RequestsInv, RequestsTypes, Busy
<1>2. owed' \in Seq(Outstanding)
  BY <1>1, QueueTypes DEF RequestsTypes
<1>3. \A i \in 1..Len(owed') : owed'[i].id \in 1..MaxCalls
  <2>1. \A i \in 1..Len(owed') : owed'[i] \in Outstanding
    BY <1>2, ElementOfSeq
  <2>2. \A r \in Outstanding : r.id \in 1..MaxCalls
    BY DEF Outstanding
  <2> QED
    BY <2>1, <2>2
<1>4. /\ pc' \in [Threads -> {"idle", "lock", "send", "recv", "leave"}]
      /\ res' \in [Threads -> {"none", "ok", "error", "refused"}]
      /\ from' \in [Threads -> 0..MaxCalls]
  BY <1>1 DEF Requests!TypeOK
<1>5. RequestsTypes'
  BY <1>1, <1>2, <1>3, <1>4 DEF RequestsTypes, Requests!TypeOK, Requests!Operations
<1>6. pc'[t] = "leave"
  BY <1>1 DEF Requests!TypeOK
<1>7. Requests!Users' = Requests!Users /\ Requests!Locked' = Requests!Locked
  BY DEF Requests!Users, Requests!Locked
<1>8. ThreadInv(t)'
  <2>1. op'[t] \in Requests!Operations(service)' /\ t \in Requests!Users'
    BY <1>1, <1>7 DEF ThreadInv, Requests!Operations
  <2>2. (Busy(t) /\ Requests!Locked)' => lock' = t
    BY <1>1, <1>7 DEF ThreadInv
  <2> QED
    BY <1>6, <2>1, <2>2 DEF ThreadInv
<1>9. \A u \in Threads \ {t} :
        /\ pc'[u] = pc[u] /\ op'[u] = op[u] /\ id'[u] = id[u] /\ res'[u] = res[u]
        /\ from'[u] = from[u] /\ behind'[u] = behind[u]
  BY <1>1 DEF Requests!TypeOK
<1> QED
  BY <1>1, <1>5, <1>8, <1>9, HolderIsEnough

\* Every way to receive: a plain answer, none, a part of one, an odd one, or bytes.
LEMMA ReceiveKeeps ==
  ASSUME RequestsInv, NEW t \in Threads,
         \/ Requests!ReceiveNothing(t) \/ Requests!ReceiveBroken(t) \/ Requests!Receive(t)
         \/ Requests!ReceiveOdd(t) \/ Requests!ReceiveRaw(t)
  PROVE  RequestsInv'
<1>1. RequestsTypes /\ Requests!TypeOK /\ ThreadInv(t)
  BY DEF RequestsInv, RequestsTypes
<1>2. /\ pc[t] = "recv" /\ pc' = [pc EXCEPT ![t] = "leave"]
      /\ UNCHANGED <<service, lock, op, id, behind, half, mode, calls>>
  BY DEF Requests!ReceiveNothing, Requests!ReceiveBroken, Requests!Receive, Requests!ReceiveOdd,
         Requests!ReceiveRaw, Requests!Goto, Requests!Keep, Requests!streamVars, Requests!keptVars
<1>3. from[t] = 0 /\ (service = "misagent" => status = "unknown") /\ op[t] \in Requests!Operations(service)
  BY <1>1, <1>2 DEF ThreadInv
<1>4. service = "misagent" => op[t].receives = "plist" /\ op[t].checked
  BY <1>3, OperationTypes
<1>5. 0 \in 0..MaxCalls /\ from = [from EXCEPT ![t] = 0] /\ res = [res EXCEPT ![t] = res[t]]
  BY <1>1, <1>3, RequestsAssumption DEF Requests!TypeOK
<1>6. CASE Requests!ReceiveNothing(t)
  <2>1. res' = [res EXCEPT ![t] = "error"] /\ UNCHANGED <<from, owed, skew, status>>
    BY <1>6 DEF Requests!ReceiveNothing, Requests!Result, Requests!streamVars, Requests!keptVars
  <2>2. res'[t] = "error"
    BY <1>1, <2>1 DEF Requests!TypeOK
  <2>3. skew' \in BOOLEAN /\ status' \in {"unknown", "zero", "code"}
    BY <1>1, <2>1 DEF Requests!TypeOK
  <2>4. \E i \in 0..MaxCalls : from' = [from EXCEPT ![t] = i]
    BY <1>5, <2>1
  <2> QED
    BY <1>2, <1>3, <2>1, <2>2, <2>3, <2>4, ReceivedKeeps
<1>7. CASE Requests!ReceiveBroken(t) \/ Requests!ReceiveOdd(t)
  <2>1. /\ res' = [res EXCEPT ![t] = "error"] /\ UNCHANGED <<from, status>>
        /\ owed # <<>> /\ owed' = Tail(owed) /\ skew' \in {skew, TRUE}
    BY <1>7 DEF Requests!ReceiveBroken, Requests!ReceiveOdd, Requests!Result, Requests!keptVars
  <2>2. res'[t] = "error"
    BY <1>1, <2>1 DEF Requests!TypeOK
  <2>3. skew' \in BOOLEAN /\ status' \in {"unknown", "zero", "code"}
    BY <1>1, <2>1 DEF Requests!TypeOK
  <2>4. \E i \in 0..MaxCalls : from' = [from EXCEPT ![t] = i]
    BY <1>5, <2>1
  <2> QED
    BY <1>2, <1>3, <2>1, <2>2, <2>3, <2>4, ReceivedKeeps
<1>8. CASE Requests!Receive(t)
  <2> PICK yes \in BOOLEAN :
        /\ res' = [res EXCEPT ![t] = IF Requests!Success(t, yes) THEN "ok" ELSE "refused"]
        /\ status' = IF service # "misagent" THEN status ELSE IF yes THEN "zero" ELSE "code"
    BY <1>8 DEF Requests!Receive, Requests!Result, Requests!Keep
  <2>1. /\ owed # <<>> /\ owed' = Tail(owed) /\ UNCHANGED skew
        /\ Head(owed).name = op[t].name /\ from' = [from EXCEPT ![t] = Head(owed).id]
    BY <1>8 DEF Requests!Receive, Requests!Answers
  <2>2. Head(owed) = owed[1] /\ 1 \in 1..Len(owed)
    BY <1>1, <2>1, QueueTypes
  <2>3. Head(owed).id \in 0..MaxCalls
    BY <1>1, <2>2, RequestsAssumption DEF Requests!TypeOK
  <2>4. \E i \in 0..MaxCalls : from' = [from EXCEPT ![t] = i]
    BY <2>1, <2>3
  <2>5. from'[t] = owed[1].id /\ res'[t] = (IF Requests!Success(t, yes) THEN "ok" ELSE "refused")
    BY <1>1, <2>1, <2>2 DEF Requests!TypeOK
  <2>6. from'[t] = id[t] \/ behind[t]
    BY <1>1, <1>2, <2>1, <2>2, <2>5 DEF ThreadInv
  <2>7. service = "misagent" => (Requests!Success(t, yes) <=> yes)
    BY <1>4 DEF Requests!Success
  <2>8. service = "misagent" =>
          status' = (IF res'[t] = "ok" THEN "zero" ELSE IF res'[t] = "refused" THEN "code" ELSE "unknown")
    BY <2>5, <2>7
  <2>9. skew' \in BOOLEAN /\ status' \in {"unknown", "zero", "code"}
    BY <1>1, <2>1 DEF Requests!TypeOK
  <2>10. \E r \in {"none", "ok", "error", "refused"} : res' = [res EXCEPT ![t] = r]
    OBVIOUS
  <2> QED
    BY <1>2, <2>1, <2>4, <2>6, <2>8, <2>9, <2>10, ReceivedKeeps
<1>9. CASE Requests!ReceiveRaw(t)
  <2>1. /\ op[t].receives = "raw" /\ UNCHANGED <<res, from, status>>
        /\ (owed' = owed \/ (owed # <<>> /\ owed' = Tail(owed))) /\ skew' \in {skew, TRUE}
    BY <1>9 DEF Requests!ReceiveRaw, Requests!keptVars
  <2>2. service # "misagent"
    BY <1>4, <2>1
  <2>3. skew' \in BOOLEAN /\ status' \in {"unknown", "zero", "code"}
    BY <1>1, <2>1 DEF Requests!TypeOK
  <2>4. \E i \in 0..MaxCalls : from' = [from EXCEPT ![t] = i]
    BY <1>5, <2>1
  <2>5. res[t] \in {"none", "ok", "error", "refused"}
    BY <1>1 DEF Requests!TypeOK
  <2>6. \E r \in {"none", "ok", "error", "refused"} : res' = [res EXCEPT ![t] = r]
    BY <1>5, <2>1, <2>5
  <2> QED
    BY <1>2, <1>3, <2>1, <2>2, <2>3, <2>4, <2>6, ReceivedKeeps
<1> QED
  BY <1>6, <1>7, <1>8, <1>9

\* A result is returned, and the lock given back.
LEMMA LeaveKeeps ==
  ASSUME RequestsInv, NEW t \in Threads, Requests!Leave(t)
  PROVE  RequestsInv'
<1>1. /\ pc[t] = "leave" /\ pc' = [pc EXCEPT ![t] = "idle"]
      /\ lock' = IF Requests!Locked THEN 0 ELSE lock
      /\ UNCHANGED <<service, op, id, res, from, behind, owed, skew, half, status, mode, calls>>
  BY DEF Requests!Leave, Requests!Goto, Requests!streamVars, Requests!keptVars
<1>2. RequestsTypes /\ Requests!TypeOK /\ ThreadInv(t) /\ Busy(t)
  BY <1>1 DEF RequestsInv, RequestsTypes, Busy
<1>3. pc' \in [Threads -> {"idle", "lock", "send", "recv", "leave"}] /\ lock' \in Threads \union {0}
  BY <1>1, <1>2 DEF Requests!TypeOK
<1>4. RequestsTypes'
  BY <1>1, <1>2, <1>3 DEF RequestsTypes, Requests!TypeOK, Requests!Operations
<1>5. pc'[t] = "idle" /\ \A u \in Threads \ {t} : pc'[u] = pc[u]
  BY <1>1, <1>2 DEF Requests!TypeOK
<1>6. ThreadInv(t)'
  BY <1>5 DEF ThreadInv, Busy
<1> QED
  BY <1>1, <1>2, <1>4, <1>5, <1>6, HolderIsEnough

\* The connection is handed to AFC.
LEMMA HandoverKeeps ==
  ASSUME RequestsInv, Requests!Handover
  PROVE  RequestsInv'
<1>1. /\ mode' = "afc"
      /\ UNCHANGED <<service, lock, pc, op, id, res, from, behind, owed, skew, half, status, calls>>
  BY DEF Requests!Handover, Requests!streamVars
<1>2. RequestsTypes'
  BY <1>1 DEF RequestsInv, RequestsTypes, Requests!TypeOK, Requests!Operations
<1>3. ASSUME NEW u \in Threads PROVE ThreadInv(u)'
  BY <1>1, Bystander
<1> QED
  BY <1>2, <1>3 DEF RequestsInv

\* Every step of a call, and the handover, keeps the invariant of the services.
LEMMA RequestsSteps ==
  ASSUME RequestsInv, Requests!Next
  PROVE  RequestsInv'
BY CallKeeps, LockKeeps, SendKeeps, ReceiveKeeps, LeaveKeeps, HandoverKeeps
DEF Requests!Next, Requests!CallSteps

-----------------------------------------------------------------------------
(* A connection with and without SSL *)

Pieces == [unit : Nat, part : 0..4]

\* Where a part is among all parts of the device, and where what the device has sent ends.
Place(p) == 4 * p.unit + p.part
SentTo == 4 * sent.unit + sent.part

\* The units that the caller has or that are in its buffer.
Taken == Len(got) + Len(buf)

LinkTypes ==
  /\ Link!TypeOK
  /\ record \in Seq(Pieces) /\ partial \in Seq(Pieces) /\ wire \in Seq(Pieces)
  /\ got \in Seq(Nat) /\ buf \in Seq(Nat)
  /\ sent \in [unit : Nat, part : 1..4] /\ before \in Nat /\ due \in Nat
  /\ shut \in BOOLEAN /\ devtls \in BOOLEAN /\ torn \in BOOLEAN /\ apart \in BOOLEAN

\* What a call leaves when it returns.
CallInv ==
  /\ pc = "timeout" => Len(buf) < len
  /\ pc = "send" => before <= out /\ before + len <= MaxOut
  /\ buf # <<>> \/ limit # "never" => pc = "timeout" /\ ssl
  /\ pc # "idle" => conn = "open"
  /\ conn = "none" => ~devtls
  /\ pc = "handshake" => ~ssl
  /\ partial # <<>> => ~shut /\ pc \in {"receive", "timeout"}
  /\ record # <<>> \/ partial # <<>> \/ shut => ssl
  /\ Link!ResultTrue

\* Without SSL a unit that has arrived is the next one or comes after it.
PlainInv ==
  /\ devtls => ~alive
  /\ ~torn /\ sent.part = 4 /\ sent.unit = Len(got) + Len(wire)
  /\ \A i \in 1..Len(wire) : wire[i].unit = Len(got) + i

\* With SSL the parts that have arrived are the last ones of the device, and the record that
\* the library counts on is the next one.  Unless a part was lost the library has the
\* beginning of that record, and the session is closed only when the socket is lost or a
\* receive with the predefined timeout has found nothing.
SecureInv ==
  /\ devtls /\ due = Taken + 1
  /\ \A i \in 1..Len(wire) : wire[i].part # 0 /\ Place(wire[i]) + Len(wire) = SentTo + i
  /\ ~torn =>
       /\ SentTo = 4 * Taken + 4 + Len(record) + Len(partial) + Len(wire)
       /\ record # <<>> => /\ record[1] = [unit |-> Taken + 1, part |-> 1]
                          /\ record[2] = [unit |-> Taken + 1, part |-> 2]
       /\ partial # <<>> => partial[1] = [unit |-> Taken + 1, part |-> IF record = <<>> THEN 1 ELSE 3]
       /\ shut => ~alive \/ expired

StreamInv ==
  ~apart =>
    /\ \A i \in 1..Len(got) : got[i] = i
    /\ \A i \in 1..Len(buf) : buf[i] = Len(got) + i
    /\ conn # "freed" => IF ssl THEN SecureInv ELSE PlainInv

LinkInv == LinkTypes /\ CallInv /\ StreamInv

\* The first element and the rest of a queue, by their places.
LEMMA QueueFacts ==
  ASSUME NEW S, NEW q \in Seq(S), q # <<>>
  PROVE  /\ Len(q) \in Nat /\ Len(q) > 0 /\ Head(q) = q[1] /\ Head(q) \in S
         /\ Tail(q) \in Seq(S) /\ Len(Tail(q)) = Len(q) - 1
         /\ \A i \in 1..Len(Tail(q)) : Tail(q)[i] = q[i + 1]
<1>1. Len(q) \in Nat /\ Len(q) > 0 /\ Head(q) = q[1]
  OBVIOUS
<1> QED
  BY <1>1, HeadTailProperties

\* What is left after the first n elements.
LEMMA RestFacts ==
  ASSUME NEW S, NEW q \in Seq(S), NEW n \in 1..Len(q)
  PROVE  /\ SubSeq(q, n + 1, Len(q)) \in Seq(S) /\ Len(SubSeq(q, n + 1, Len(q))) = Len(q) - n
         /\ \A i \in 1..Len(q) - n : SubSeq(q, n + 1, Len(q))[i] = q[n + i]
<1>1. Len(q) \in Nat /\ \A i \in n + 1..Len(q) : q[i] \in S
  BY LenProperties, ElementOfSeq
<1>2. /\ SubSeq(q, n + 1, Len(q)) \in Seq(S)
      /\ Len(SubSeq(q, n + 1, Len(q))) = (IF n + 1 <= Len(q) THEN Len(q) - (n + 1) + 1 ELSE 0)
      /\ \A i \in 1..Len(q) - (n + 1) + 1 : SubSeq(q, n + 1, Len(q))[i] = q[n + 1 + i - 1]
  BY <1>1, SubSeqProperties
<1> QED
  BY <1>1, <1>2

\* What the types say of the buffers of a connection.
LEMMA LinkFacts ==
  ASSUME LinkTypes
  PROVE  /\ Len(wire) \in Nat /\ Len(got) \in Nat /\ Len(buf) \in Nat
         /\ \A i \in 1..Len(wire) : wire[i] \in Pieces
         /\ wire # <<>> => /\ Len(wire) > 0 /\ Head(wire) = wire[1] /\ Head(wire) \in Pieces
                           /\ Tail(wire) \in Seq(Pieces) /\ Len(Tail(wire)) = Len(wire) - 1
                           /\ \A i \in 1..Len(Tail(wire)) : Tail(wire)[i] = wire[i + 1]
         /\ record = <<>> => Len(record) = 0
         /\ record # <<>> => Len(record) = 2 /\ record[1] \in Pieces /\ record[2] \in Pieces
         /\ partial = <<>> => Len(partial) = 0
         /\ partial # <<>> => Len(partial) = 1 /\ partial[1] \in Pieces
<1>1. /\ wire \in Seq(Pieces) /\ got \in Seq(Nat) /\ buf \in Seq(Nat)
      /\ record \in Seq(Pieces) /\ partial \in Seq(Pieces) /\ Len(record) \in {0, 2} /\ Len(partial) <= 1
  BY DEF LinkTypes, Link!TypeOK
<1>2. Len(wire) \in Nat /\ Len(got) \in Nat /\ Len(buf) \in Nat
  BY <1>1, LenProperties
<1>3. \A i \in 1..Len(wire) : wire[i] \in Pieces
  BY <1>1, ElementOfSeq
<1>4. wire # <<>> => /\ Len(wire) > 0 /\ Head(wire) = wire[1] /\ Head(wire) \in Pieces
                     /\ Tail(wire) \in Seq(Pieces) /\ Len(Tail(wire)) = Len(wire) - 1
                     /\ \A i \in 1..Len(Tail(wire)) : Tail(wire)[i] = wire[i + 1]
  BY <1>1, QueueFacts
<1>5. record # <<>> => Len(record) = 2 /\ record[1] \in Pieces /\ record[2] \in Pieces
  <2>1. record # <<>> => Len(record) \in Nat /\ Len(record) > 0
    BY <1>1, QueueFacts
  <2>2. \A n \in {0, 2} : n > 0 => n = 2
    OBVIOUS
  <2>3. record # <<>> => Len(record) = 2
    BY ONLY <1>1, <2>1, <2>2
  <2>4. Len(record) = 2 => 1 \in 1..Len(record) /\ 2 \in 1..Len(record)
    OBVIOUS
  <2> QED
    BY ONLY <1>1, <2>3, <2>4, ElementOfSeq
<1>6. partial # <<>> => Len(partial) = 1 /\ partial[1] \in Pieces
  <2>1. partial # <<>> => Len(partial) \in Nat /\ Len(partial) > 0 /\ partial[1] \in Pieces
    BY <1>1, QueueFacts
  <2>2. \A n \in Nat : n > 0 /\ n <= 1 => n = 1
    OBVIOUS
  <2> QED
    BY <1>1, <2>1, <2>2, Zenon
<1>7. (record = <<>> => Len(record) = 0) /\ (partial = <<>> => Len(partial) = 0)
  OBVIOUS
<1> QED
  BY <1>2, <1>3, <1>4, <1>5, <1>6, <1>7

\* Handing over what is in a buffer.
LEMMA HandFacts ==
  ASSUME NEW a, NEW e, NEW data \in Seq(Nat), got \in Seq(Nat), Link!Hand(a, e, data)
  PROVE  /\ pc' = "idle" /\ len' = 0 /\ buf' = <<>> /\ before' = 0
         /\ result' = [op |-> a, err |-> e, bytes |-> Len(data), len |-> len, moved |-> Len(data)]
         /\ got' \in Seq(Nat) /\ Len(got') = Len(got) + Len(data)
         /\ \A i \in 1..Len(got) + Len(data) :
              got'[i] = IF i <= Len(got) THEN got[i] ELSE data[i - Len(got)]
<1>1. got' = got \o data
  BY DEF Link!Hand
<1> QED
  BY <1>1, ConcatProperties DEF Link!Hand, Link!Return

\* Before a connection is made nothing was sent.
LEMMA LinkStart == Link!Init => LinkInv
<1> SUFFICES ASSUME Link!Init PROVE LinkInv
  OBVIOUS
<1>1. /\ pc = "idle" /\ conn = "none" /\ alive = FALSE /\ ssl = FALSE /\ shut = FALSE
      /\ record = <<>> /\ partial = <<>> /\ wire = <<>> /\ buf = <<>> /\ got = <<>>
      /\ limit = "never" /\ devtls = FALSE /\ sent = [unit |-> 0, part |-> 4] /\ due = 0
      /\ len = 0 /\ out = 0 /\ before = 0 /\ torn = FALSE /\ apart = FALSE
      /\ result = [op |-> "none", err |-> "success", bytes |-> 0, len |-> 0, moved |-> 0]
  BY DEF Link!Init, Link!NoResult
<1>2. Len(<<>>) = 0 /\ <<>> \in Seq(Pieces) /\ <<>> \in Seq(Nat)
  OBVIOUS
<1>3. sent \in [unit : Nat, part : 1..4] /\ sent.unit = 0 /\ sent.part = 4
  BY <1>1
<1>4. 0 \in 0..MaxLen /\ 0 \in 0..MaxOut
  BY LinkAssumption
<1>5. LinkTypes
  <2>1. Link!TypeOK
    <3>1. Len(record) \in {0, 2} /\ Len(partial) <= 1
      BY <1>1, <1>2
    <3>2. alive \in BOOLEAN /\ ssl \in BOOLEAN
      BY <1>1
    <3>3. len \in 0..MaxLen /\ out \in 0..MaxOut
      BY <1>1, <1>4
    <3> QED
      BY <1>1, <3>1, <3>2, <3>3 DEF Link!TypeOK
  <2>2. shut \in BOOLEAN /\ devtls \in BOOLEAN /\ torn \in BOOLEAN /\ apart \in BOOLEAN
    BY <1>1
  <2>3. before \in Nat /\ due \in Nat
    BY <1>1
  <2> QED
    BY <1>1, <1>2, <1>3, <2>1, <2>2, <2>3 DEF LinkTypes
<1>6. CallInv
  BY <1>1, <1>2 DEF CallInv, Link!ResultTrue
<1>7. StreamInv
  BY <1>1, <1>2, <1>3 DEF StreamInv, PlainInv
<1> QED
  BY <1>5, <1>6, <1>7 DEF LinkInv

\* A step that leaves the stream alone.
LEMMA QuietKeeps ==
  ASSUME LinkInv, CallInv',
         UNCHANGED <<apart, expired, due, got, buf, ssl, devtls, torn, sent, wire, record, partial, shut>>,
         pc' \in {"idle", "send", "receive", "timeout", "handshake"}, conn' \in {"none", "open", "freed"},
         alive' \in BOOLEAN, len' \in 0..MaxLen, out' \in 0..MaxOut, before' \in Nat,
         conn = "freed" => conn' = "freed", alive' => alive \/ conn = "none"
  PROVE  LinkInv'
<1>1. LinkTypes'
  <2>1. Link!TypeOK'
    BY DEF LinkInv, LinkTypes, Link!TypeOK
  <2> QED
    BY <2>1 DEF LinkInv, LinkTypes
<1>2. Taken' = Taken /\ SentTo' = SentTo
  BY DEF Taken, SentTo
<1>3. ssl /\ SecureInv => SecureInv'
  <2> SUFFICES ASSUME ssl, SecureInv PROVE SecureInv'
    OBVIOUS
  <2>1. devtls /\ (conn = "none" => ~devtls)
    BY DEF SecureInv, LinkInv, CallInv
  <2>2. ~alive => ~alive'
    BY <2>1
  <2> QED
    BY <1>2, <2>2 DEF SecureInv, Place
<1>4. PlainInv => PlainInv'
  BY DEF PlainInv, LinkInv, CallInv
<1>5. StreamInv'
  BY <1>3, <1>4 DEF LinkInv, StreamInv
<1> QED
  BY <1>1, <1>5 DEF LinkInv

\* Connecting, sending, the beginning of a receive and of a handshake, and the loss of the
\* socket.
LEMMA QuietSteps ==
  ASSUME LinkInv,
         \/ Link!Lose \/ Link!Connect \/ Link!Send \/ Link!SendFails \/ Link!SendEnds \/ Link!EnableSsl
         \/ \E n \in 1..MaxLen : Link!BeginSend(n) \/ \E a \in {"receive", "timeout"} : Link!BeginReceive(a, n)
  PROVE  LinkInv'
<1>1. LinkTypes /\ Link!TypeOK /\ CallInv
  BY DEF LinkInv, LinkTypes
<1>2. /\ pc \in {"idle", "send", "receive", "timeout", "handshake"} /\ conn \in {"none", "open", "freed"}
      /\ len \in 0..MaxLen /\ out \in 0..MaxOut /\ before \in Nat /\ Len(buf) \in Nat
      /\ MaxLen \in Nat /\ MaxOut \in Nat
  BY <1>1, LinkFacts, LinkAssumption DEF LinkTypes, Link!TypeOK
<1>3. alive \in BOOLEAN
  BY <1>1 DEF Link!TypeOK
<1> DEFINE Same == UNCHANGED <<apart, expired, due, got, ssl, devtls, torn, sent, wire, record, partial, shut>>
<1>4. CASE Link!Lose
  <2>1. Same /\ UNCHANGED <<pc, conn, limit, len, buf, out, before, result>>
    BY <1>4 DEF Link!Lose, Link!layer, Link!dev, Link!hist
  <2>2. alive' \in BOOLEAN /\ ~alive'
    BY <1>4 DEF Link!Lose
  <2>3. CallInv'
    BY <1>1, <2>1 DEF CallInv, Link!ResultTrue
  <2> QED
    BY <1>2, <2>1, <2>2, <2>3, QuietKeeps
<1>5. CASE Link!Connect
  <2>1. Same /\ UNCHANGED <<pc, limit, len, buf, out, before>> /\ pc = "idle" /\ conn = "none"
    BY <1>5 DEF Link!Connect, Link!layer, Link!dev, Link!hist
  <2>2. /\ \/ conn' = "open" /\ alive' = TRUE
           \/ UNCHANGED <<conn, alive>>
        /\ result'.op = "connect"
    BY <1>5 DEF Link!Connect, Link!NoResult
  <2>3. alive' \in BOOLEAN /\ conn' \in {"none", "open", "freed"}
    BY <1>2, <1>3, <2>2
  <2>4. CallInv'
    BY <1>1, <2>1, <2>2 DEF CallInv, Link!ResultTrue
  <2> QED
    BY <1>2, <2>1, <2>3, <2>4, QuietKeeps
<1>6. CASE Link!Send
  <2>1. Same /\ UNCHANGED <<pc, conn, alive, limit, len, buf, before, result>> /\ pc = "send"
    BY <1>6 DEF Link!Send, Link!link, Link!layer, Link!dev, Link!hist
  <2>2. out' \in out + 1..before + len
    BY <1>6 DEF Link!Send
  <2>3. out' \in 0..MaxOut /\ before <= out'
    BY <1>1, <1>2, <2>1, <2>2 DEF CallInv
  <2>4. CallInv'
    BY <1>1, <2>1, <2>3 DEF CallInv, Link!ResultTrue
  <2> QED
    BY <1>2, <1>3, <2>1, <2>3, <2>4, QuietKeeps
<1>7. CASE Link!SendFails \/ Link!SendEnds
  <2>1. /\ Same /\ UNCHANGED <<conn, alive, limit, out>> /\ pc = "send"
        /\ pc' = "idle" /\ len' = 0 /\ buf' = <<>> /\ before' = 0
    BY <1>7
    DEF Link!SendFails, Link!SendEnds, Link!SendReturns, Link!Return, Link!link, Link!layer, Link!dev,
        Link!hist
  <2>2. buf = <<>> /\ partial = <<>> /\ limit = "never"
    BY <1>1, <2>1 DEF CallInv
  <2>3. \E e \in {"unknown", "notenough", "success"}, b \in {0, out - before} :
          /\ result' = [op |-> "send", err |-> e, bytes |-> b, len |-> len, moved |-> out - before]
          /\ e = "success" <=> out - before = len
          /\ ~ssl => b = out - before
    <3>1. CASE Link!SendFails
      <4>1. Link!Sent = out - before /\ Link!Sent < len
        BY <3>1 DEF Link!SendFails, Link!Sent
      <4>2. Link!Sent # len
        BY <4>1, <1>1, <1>2, <2>1 DEF CallInv
      <4>3. CASE ssl
        BY <3>1, <4>1, <4>2, <4>3 DEF Link!SendFails, Link!SendReturns, Link!Return
      <4>4. CASE ~ssl
        BY <3>1, <4>1, <4>2, <4>4 DEF Link!SendFails, Link!SendReturns, Link!Return
      <4> QED
        BY <4>3, <4>4
    <3>2. CASE Link!SendEnds
      <4>1. Link!Sent = out - before /\ Link!Sent = len
        BY <3>2 DEF Link!SendEnds, Link!AllSent, Link!Sent
      <4>2. result' = [op |-> "send", err |-> "success", bytes |-> out - before, len |-> len, moved |-> out - before]
        BY <3>2, <4>1 DEF Link!SendEnds, Link!SendReturns, Link!Return
      <4> QED
        BY <4>1, <4>2
    <3> QED
      BY <1>7, <3>1, <3>2
  <2>4. CallInv'
    BY <1>1, <2>1, <2>2, <2>3 DEF CallInv, Link!ResultTrue
  <2>5. 0 \in 0..MaxLen /\ 0 \in Nat
    BY <1>2
  <2> QED
    BY <1>2, <1>3, <2>1, <2>2, <2>4, <2>5, QuietKeeps
<1>8. CASE Link!EnableSsl
  <2>1. Same /\ UNCHANGED <<conn, alive, limit, len, buf, out, before>> /\ pc = "idle" /\ conn = "open"
    BY <1>8 DEF Link!EnableSsl, Link!Call, Link!link, Link!layer, Link!dev, Link!hist
  <2>2. \/ pc' = "idle" /\ result'.op = "enable"
        \/ pc' = "handshake" /\ ~ssl
    BY <1>8, <2>1 DEF Link!EnableSsl, Link!NoResult
  <2>3. CallInv'
    BY <1>1, <2>1, <2>2 DEF CallInv, Link!ResultTrue
  <2> QED
    BY <1>2, <1>3, <2>1, <2>2, <2>3, QuietKeeps
<1>9. ASSUME NEW n \in 1..MaxLen, Link!BeginSend(n) PROVE LinkInv'
  <2>1. /\ Same /\ UNCHANGED <<conn, alive, limit, buf, out>> /\ pc = "idle" /\ conn = "open"
        /\ pc' = "send" /\ len' = n /\ before' = out /\ out + n <= MaxOut
    BY <1>9 DEF Link!BeginSend, Link!Call, Link!link, Link!layer, Link!dev, Link!hist
  <2>2. CallInv'
    BY <1>1, <1>2, <2>1 DEF CallInv, Link!ResultTrue
  <2>3. len' \in 0..MaxLen /\ before' \in Nat
    BY <1>2, <2>1
  <2> QED
    BY <1>2, <1>3, <2>1, <2>2, <2>3, QuietKeeps
<1>10. ASSUME NEW n \in 1..MaxLen, NEW a \in {"receive", "timeout"}, Link!BeginReceive(a, n) PROVE LinkInv'
  <2>1. /\ Same /\ UNCHANGED <<conn, alive, buf, out, before>> /\ pc = "idle" /\ conn = "open"
        /\ pc' = a /\ len' = n /\ limit' = IF ssl /\ a = "timeout" THEN "set" ELSE "never"
    BY <1>10 DEF Link!BeginReceive, Link!Call, Link!link, Link!layer, Link!dev, Link!hist
  <2>2. buf = <<>> /\ partial = <<>> /\ Len(buf) < n
    BY <1>1, <2>1 DEF CallInv
  <2>3. CallInv'
    BY <1>1, <1>2, <2>1, <2>2 DEF CallInv, Link!ResultTrue
  <2>4. len' \in 0..MaxLen
    BY <1>2, <2>1
  <2> QED
    BY <1>2, <1>3, <2>1, <2>3, <2>4, QuietKeeps
<1> QED
  BY <1>4, <1>5, <1>6, <1>7, <1>8, <1>9, <1>10

\* A part is known by its place.
LEMMA PlaceTells ==
  ASSUME NEW p \in Pieces, NEW n \in Nat, NEW k \in 1..4, p.part # 0, Place(p) = 4 * n + k
  PROVE  p = [unit |-> n, part |-> k]
<1>1. p = [unit |-> p.unit, part |-> p.part] /\ p.unit \in Nat /\ p.part \in 1..4
  BY DEF Pieces
<1>2. 4 * p.unit + p.part = 4 * n + k
  BY DEF Place
<1>3. p.unit = n /\ p.part = k
  <2>1. n \in Nat /\ k \in 1..4 /\ p.unit \in Nat /\ p.part \in 1..4
    BY <1>1
  <2> QED
    BY ONLY <1>2, <2>1
<1> QED
  BY <1>1, <1>3

\* The device sends the next part, or the next unit.
LEMMA DeviceKeeps ==
  ASSUME LinkInv, Link!DeviceSends
  PROVE  LinkInv'
<1> DEFINE p == [unit |-> sent'.unit, part |-> IF devtls \/ sent.part < 4 THEN sent'.part ELSE 0]
<1>1. LinkTypes /\ Link!TypeOK /\ CallInv /\ sent \in [unit : Nat, part : 1..4] /\ wire \in Seq(Pieces)
  BY DEF LinkInv, LinkTypes
<1>2. /\ conn = "open" /\ alive /\ wire' = Append(wire, p)
      /\ UNCHANGED <<pc, conn, alive, ssl, record, partial, shut, limit, devtls, len, buf, got, out, before,
                     result, torn, apart, expired, due>>
  BY DEF Link!DeviceSends, Link!link, Link!layer, Link!hist
<1>3. sent' = IF devtls \/ sent.part < 4 THEN Link!Next4(sent) ELSE [unit |-> sent.unit + 1, part |-> 4]
  BY DEF Link!DeviceSends
<1>4. Link!Next4(sent) = IF sent.part < 4 THEN [unit |-> sent.unit, part |-> sent.part + 1]
                         ELSE [unit |-> sent.unit + 1, part |-> 1]
  BY <1>1 DEF Link!Next4
<1>5. sent' \in [unit : Nat, part : 1..4]
  BY <1>1, <1>3, <1>4
<1>6. p \in Pieces
  BY <1>5 DEF Pieces
<1>7. p.unit = sent'.unit /\ p.part = IF devtls \/ sent.part < 4 THEN sent'.part ELSE 0
  OBVIOUS
<1> HIDE DEF p
<1>8. /\ wire' \in Seq(Pieces) /\ Len(wire') = Len(wire) + 1 /\ wire'[Len(wire) + 1] = p
      /\ \A i \in 1..Len(wire) : wire'[i] = wire[i]
  BY <1>1, <1>2, <1>6, AppendProperties
<1>9. LinkTypes'
  BY <1>1, <1>2, <1>5, <1>8 DEF LinkTypes, Link!TypeOK
<1>10. CallInv'
  BY <1>1, <1>2 DEF CallInv, Link!ResultTrue
<1>11. Len(wire) \in Nat /\ Len(got) \in Nat
  BY <1>1, LinkFacts
<1>12. ssl /\ SecureInv => SecureInv'
  <2> SUFFICES ASSUME ssl, SecureInv PROVE SecureInv'
    OBVIOUS
  <2>1. devtls
    BY DEF SecureInv
  <2>2. SentTo' = SentTo + 1 /\ p.part # 0 /\ Place(p) = SentTo' /\ SentTo \in Nat
    BY <1>1, <1>3, <1>4, <1>5, <1>7, <2>1 DEF SentTo, Place
  <2>3. Taken' = Taken /\ Taken \in Nat
    BY <1>1, <1>2, LinkFacts DEF Taken
  <2>4. \A i \in 1..Len(wire') : wire'[i].part # 0 /\ Place(wire'[i]) + Len(wire') = SentTo' + i
    <3> SUFFICES ASSUME NEW i \in 1..Len(wire')
                 PROVE  wire'[i].part # 0 /\ Place(wire'[i]) + Len(wire') = SentTo' + i
      OBVIOUS
    <3>1. CASE i = Len(wire) + 1
      BY <1>8, <1>11, <2>2, <3>1
    <3>2. CASE i # Len(wire) + 1
      <4>1. i \in 1..Len(wire)
        BY <1>8, <1>11, <3>2
      <4>2. wire[i].part # 0 /\ Place(wire[i]) + Len(wire) = SentTo + i /\ wire[i] \in Pieces
        BY <4>1, <1>1, LinkFacts DEF SecureInv
      <4>3. Place(wire[i]) \in Nat
        BY <4>2 DEF Place, Pieces
      <4>4. wire'[i] = wire[i] /\ i \in Nat
        BY <1>8, <4>1
      <4>5. Place(wire[i]) + Len(wire') = SentTo' + i
        <5>1. Len(wire') = Len(wire) + 1
          BY ONLY <1>8
        <5>2. SentTo' = SentTo + 1 /\ SentTo \in Nat
          BY ONLY <2>2
        <5>3. Place(wire[i]) + Len(wire) = SentTo + i
          BY ONLY <4>2
        <5> QED
          BY ONLY <5>1, <5>2, <5>3, <4>3, <4>4, <1>11
      <4>6. Place(wire'[i]) = Place(wire[i]) /\ wire'[i].part = wire[i].part
        BY ONLY <4>4
      <4> QED
        BY ONLY <4>2, <4>5, <4>6
    <3> QED
      BY <3>1, <3>2
  <2>5. ~torn => SentTo' = 4 * Taken' + 4 + Len(record) + Len(partial) + Len(wire')
    <3>1. Len(record) \in Nat /\ Len(partial) \in Nat
      BY <1>1, LinkFacts
    <3>2. ~torn => SentTo = 4 * Taken + 4 + Len(record) + Len(partial) + Len(wire)
      BY DEF SecureInv
    <3> QED
      BY ONLY <1>8, <1>11, <2>2, <2>3, <3>1, <3>2
  <2> QED
    BY <1>2, <2>1, <2>3, <2>4, <2>5 DEF SecureInv, Place
<1>13. ~ssl /\ PlainInv => PlainInv'
  <2> SUFFICES ASSUME PlainInv PROVE PlainInv'
    OBVIOUS
  <2>1. ~devtls /\ sent.part = 4
    BY <1>2 DEF PlainInv
  <2>2. sent'.unit = sent.unit + 1 /\ sent'.part = 4 /\ p.unit = sent.unit + 1
    BY <1>3, <1>7, <2>1
  <2>3. sent'.unit = Len(got) + Len(wire')
    BY <1>1, <1>8, <1>11, <2>2 DEF PlainInv
  <2>4. \A i \in 1..Len(wire') : wire'[i].unit = Len(got) + i
    <3> SUFFICES ASSUME NEW i \in 1..Len(wire') PROVE wire'[i].unit = Len(got) + i
      OBVIOUS
    <3>1. i \in 1..Len(wire) \/ i = Len(wire')
      BY <1>8, <1>11
    <3>2. i \in 1..Len(wire) => wire'[i].unit = Len(got) + i
      BY <1>8 DEF PlainInv
    <3>3. wire'[Len(wire')] = p
      BY <1>8
    <3>4. p.unit = Len(got) + Len(wire')
      BY <2>2, <2>3
    <3> QED
      BY <3>1, <3>2, <3>3, <3>4
  <2> QED
    BY <1>2, <2>1, <2>2, <2>3, <2>4 DEF PlainInv
<1>14. StreamInv'
  BY <1>2, <1>12, <1>13 DEF LinkInv, StreamInv
<1> QED
  BY <1>9, <1>10, <1>14 DEF LinkInv

\* SSL is shut down with the connection; what the caller has stays what it was.
LEMMA DisconnectKeeps ==
  ASSUME LinkInv, Link!Disconnect
  PROVE  LinkInv'
<1>1. LinkTypes /\ Link!TypeOK /\ CallInv
  BY DEF LinkInv, LinkTypes
<1>2. /\ pc = "idle" /\ conn' = "freed" /\ ~alive' /\ ~ssl' /\ ~shut' /\ record' = <<>> /\ partial' = <<>> /\ due' = 0
      /\ result'.op = "disconnect"
      /\ UNCHANGED <<pc, limit, wire, devtls, sent, len, buf, got, out, before, torn, apart>>
  BY DEF Link!Disconnect, Link!Call, Link!Cleanup, Link!dev, Link!hist, Link!NoResult
<1>3. alive' \in BOOLEAN /\ ssl' \in BOOLEAN /\ shut' \in BOOLEAN
  BY DEF Link!Disconnect, Link!Cleanup
<1>4. Len(record') \in {0, 2} /\ Len(partial') <= 1 /\ record' \in Seq(Pieces) /\ partial' \in Seq(Pieces)
  BY <1>2
<1>5. LinkTypes'
  BY <1>1, <1>2, <1>3, <1>4 DEF LinkTypes, Link!TypeOK
<1>6. CallInv'
  BY <1>1, <1>2 DEF CallInv, Link!ResultTrue
<1>7. StreamInv'
  BY <1>2 DEF LinkInv, StreamInv
<1> QED
  BY <1>5, <1>6, <1>7 DEF LinkInv

\* After a handshake both ends are in SSL or, as far as they agree, neither is.
LEMMA HandshakeKeeps ==
  ASSUME LinkInv, Link!Handshake
  PROVE  LinkInv'
<1>1. LinkTypes /\ Link!TypeOK /\ CallInv
  BY DEF LinkInv, LinkTypes
<1>2. /\ pc = "handshake" /\ pc' = "idle" /\ result'.op = "enable"
      /\ UNCHANGED <<conn, alive, record, partial, shut, limit, sent, len, buf, got, out, before, torn, expired>>
  BY DEF Link!Handshake, Link!link, Link!NoResult
<1>3. /\ conn = "open" /\ ~ssl /\ buf = <<>> /\ record = <<>> /\ partial = <<>> /\ ~shut
      /\ limit = "never"
  BY <1>1, <1>2 DEF CallInv
<1>4. CASE /\ alive /\ wire = <<>> /\ ~devtls /\ ssl' = TRUE /\ devtls' = TRUE /\ due' = sent.unit + 1
           /\ UNCHANGED <<wire, apart>>
  <2>1. devtls' \in BOOLEAN /\ ssl' \in BOOLEAN /\ due' \in Nat
    BY <1>1, <1>4 DEF LinkTypes
  <2>2. LinkTypes'
    BY <1>1, <1>2, <1>4, <2>1 DEF LinkTypes, Link!TypeOK
  <2>3. CallInv'
    BY <1>1, <1>2, <1>3 DEF CallInv, Link!ResultTrue
  <2>4. ~ssl /\ PlainInv => SecureInv'
    <3> SUFFICES ASSUME PlainInv PROVE SecureInv'
      OBVIOUS
    <3>1. Len(wire) = 0 /\ Len(buf) = 0 /\ Len(record) = 0 /\ Len(partial) = 0 /\ Len(got) \in Nat
      BY <1>1, <1>3, <1>4, LinkFacts
    <3>2. ~torn /\ sent.part = 4 /\ sent.unit = Len(got)
      BY <3>1 DEF PlainInv
    <3>3. Taken' = Len(got) /\ SentTo' = 4 * Len(got) + 4 /\ due' = Len(got) + 1
      BY <1>2, <1>4, <3>1, <3>2 DEF Taken, SentTo
    <3> QED
      BY <1>2, <1>3, <1>4, <3>1, <3>2, <3>3 DEF SecureInv
  <2>5. StreamInv'
    BY <1>2, <1>3, <1>4, <2>4 DEF LinkInv, StreamInv
  <2> QED
    BY <2>2, <2>3, <2>5 DEF LinkInv
<1>5. CASE /\ ssl' = FALSE /\ wire' = <<>> /\ due' = due
           /\ devtls' \in {devtls, devtls \/ (alive /\ sent.part = 4)}
           /\ apart' = (apart \/ devtls' \/ wire # <<>>)
  <2>1. (devtls \/ (alive /\ sent.part = 4)) \in BOOLEAN /\ (apart \/ devtls' \/ wire # <<>>) \in BOOLEAN
    OBVIOUS
  <2>2. devtls' \in BOOLEAN /\ apart' \in BOOLEAN
    BY <1>1, <1>5, <2>1 DEF LinkTypes
  <2>3. ssl' \in BOOLEAN /\ wire' \in Seq(Pieces)
    <3>1. ssl' \in BOOLEAN
      BY <1>5
    <3>2. wire' \in Seq(Pieces)
      BY <1>5
    <3> QED
      BY <3>1, <3>2
  <2>4. LinkTypes'
    BY <1>1, <1>2, <1>5, <2>2, <2>3 DEF LinkTypes, Link!TypeOK
  <2>5. CallInv'
    BY <1>1, <1>2, <1>3, <1>5 DEF CallInv, Link!ResultTrue
  <2>6. ~apart' => ~apart /\ ~devtls' /\ wire = <<>>
    BY <1>5
  <2>7. ~apart' => StreamInv'
    BY <1>2, <1>3, <1>5, <2>6 DEF LinkInv, StreamInv, PlainInv
  <2> QED
    BY <2>4, <2>5, <2>7 DEF LinkInv, StreamInv
<1> QED
  BY <1>4, <1>5 DEF Link!Handshake

\* SSL is left: what was unread in it is lost, unless there was nothing.
LEMMA DisableKeeps ==
  ASSUME LinkInv, NEW bypass \in BOOLEAN, Link!DisableSsl(bypass)
  PROVE  LinkInv'
<1>1. LinkTypes /\ Link!TypeOK /\ CallInv
  BY DEF LinkInv, LinkTypes
<1>2. /\ pc = "idle" /\ conn = "open" /\ ssl /\ ~ssl' /\ ~shut' /\ record' = <<>> /\ partial' = <<>> /\ due' = 0
      /\ result'.op = "disable"
      /\ UNCHANGED <<pc, conn, alive, limit, wire, sent, len, buf, got, out, before, torn>>
  BY DEF Link!DisableSsl, Link!Call, Link!Cleanup, Link!link, Link!NoResult
<1>3. ssl' \in BOOLEAN /\ shut' \in BOOLEAN
  BY DEF Link!DisableSsl, Link!Cleanup
<1>4. Len(record') \in {0, 2} /\ Len(partial') <= 1 /\ record' \in Seq(Pieces) /\ partial' \in Seq(Pieces)
  BY <1>2
<1>5. devtls' = IF alive \/ bypass THEN FALSE ELSE devtls
  BY DEF Link!DisableSsl
<1>6. apart' = (apart \/ torn \/ wire # <<>> \/ record # <<>> \/ sent.part < 4)
  BY DEF Link!DisableSsl
<1>7. apart' \in BOOLEAN /\ devtls' \in BOOLEAN
  BY <1>1, <1>5, <1>6 DEF LinkTypes
<1>8. LinkTypes'
  BY <1>1, <1>2, <1>3, <1>4, <1>7 DEF LinkTypes, Link!TypeOK
<1>9. limit = "never" /\ buf = <<>> /\ partial = <<>>
  BY <1>1, <1>2 DEF CallInv
<1>10. CallInv'
  BY <1>2, <1>9 DEF CallInv, Link!ResultTrue
<1>11. ~apart' => ~apart /\ ~torn /\ wire = <<>> /\ record = <<>> /\ sent.part = 4
  <2>1. ~apart' => ~apart /\ ~torn /\ wire = <<>> /\ record = <<>> /\ ~(sent.part < 4)
    BY <1>6
  <2>2. sent.part \in 1..4
    BY <1>1 DEF LinkTypes
  <2>3. ~(sent.part < 4) => sent.part = 4
    BY <2>2
  <2> QED
    BY <2>1, <2>3
<1>12. ~apart' /\ SecureInv => PlainInv'
  <2> SUFFICES ASSUME ~apart', SecureInv PROVE PlainInv'
    OBVIOUS
  <2>1. /\ Len(wire) = 0 /\ Len(buf) = 0 /\ Len(record) = 0 /\ Len(partial) = 0
        /\ Len(got) \in Nat /\ sent.unit \in Nat
    BY <1>1, <1>9, <1>11, LinkFacts DEF LinkTypes
  <2>2. SentTo = 4 * Taken + 4
    BY <1>11, <2>1 DEF SecureInv, Taken
  <2>3. sent.unit = Len(got)
    BY <1>11, <2>1, <2>2 DEF SentTo, Taken
  <2>4. devtls' => ~alive'
    BY <1>2, <1>5
  <2> QED
    BY <1>2, <1>11, <2>1, <2>3, <2>4 DEF PlainInv
<1>13. StreamInv'
  BY <1>2, <1>9, <1>11, <1>12 DEF LinkInv, StreamInv
<1> QED
  BY <1>8, <1>10, <1>13 DEF LinkInv

\* Units in their order that are handed over go on where the caller is.
LEMMA HandKeeps ==
  ASSUME LinkTypes, NEW a, NEW e, NEW data \in Seq(Nat), Link!Hand(a, e, data)
  PROVE  /\ Taken' = Len(got) + Len(data) /\ Len(got') = Len(got) + Len(data) /\ buf' = <<>>
         /\ (\A i \in 1..Len(got) : got[i] = i) /\ (\A i \in 1..Len(data) : data[i] = Len(got) + i) =>
              \A i \in 1..Len(got') : got'[i] = i
<1>1. /\ buf' = <<>> /\ Len(got') = Len(got) + Len(data)
      /\ \A i \in 1..Len(got) + Len(data) :
           got'[i] = IF i <= Len(got) THEN got[i] ELSE data[i - Len(got)]
  BY HandFacts DEF LinkTypes
<1>2. Len(got) \in Nat /\ Len(data) \in Nat
  BY LinkFacts
<1>3. Taken' = Len(got) + Len(data)
  <2>1. Len(buf') = 0
    BY <1>1
  <2> QED
    BY <1>1, <1>2, <2>1 DEF Taken
<1>4. ASSUME \A i \in 1..Len(got) : got[i] = i, \A i \in 1..Len(data) : data[i] = Len(got) + i,
             NEW i \in 1..Len(got')
      PROVE  got'[i] = i
  <2>1. i \in 1..Len(got) + Len(data)
    BY <1>1
  <2>2. CASE i <= Len(got)
    BY <1>1, <1>2, <1>4, <2>1, <2>2
  <2>3. CASE ~(i <= Len(got))
    <3>1. i - Len(got) \in 1..Len(data)
      BY <1>2, <2>1, <2>3
    <3>2. data[i - Len(got)] = Len(got) + (i - Len(got))
      BY <1>4, <3>1
    <3> QED
      BY <1>1, <1>2, <2>1, <2>3, <3>2
  <2> QED
    BY <2>2, <2>3
<1> QED
  BY <1>1, <1>3, <1>4

\* Without SSL a receive hands over what is there, or nothing.
LEMMA PlainReceives ==
  ASSUME LinkInv, NEW a \in {"receive", "timeout"}, Link!ReceivePlain(a) \/ Link!ReceivePlainFails(a)
  PROVE  LinkInv'
<1>1. LinkTypes /\ Link!TypeOK /\ CallInv /\ wire \in Seq(Pieces) /\ got \in Seq(Nat)
  BY DEF LinkInv, LinkTypes
<1>2. PICK e \in {"success", "unknown", "notenough", "timeout"}, n \in 0..Len(wire) :
        /\ Link!Hand(a, e, [i \in 1..n |-> wire[i].unit])
        /\ IF n = 0 THEN wire' = wire ELSE wire' = SubSeq(wire, n + 1, Len(wire))
  <2>1. CASE Link!ReceivePlain(a)
    <3>1. PICK n \in 1..len :
            /\ n <= Len(wire) /\ wire' = SubSeq(wire, n + 1, Len(wire))
            /\ Link!Hand(a, "success", [i \in 1..n |-> wire[i].unit])
      BY <2>1 DEF Link!ReceivePlain
    <3>2. n \in 0..Len(wire) /\ n # 0
      BY <1>1, <3>1, LinkFacts, LinkAssumption DEF Link!TypeOK
    <3> QED
      BY <3>1, <3>2
  <2>2. CASE Link!ReceivePlainFails(a)
    <3>1. [i \in 1..0 |-> wire[i].unit] = <<>>
      OBVIOUS
    <3>2. \E e \in {"success", "unknown", "notenough", "timeout"} : Link!Hand(a, e, <<>>)
      BY <2>2 DEF Link!ReceivePlainFails
    <3>3. wire' = wire
      BY <2>2 DEF Link!ReceivePlainFails, Link!dev
    <3>4. 0 \in 0..Len(wire)
      BY <1>1, LinkFacts
    <3> QED
      BY <3>1, <3>2, <3>3, <3>4
  <2> QED
    BY <2>1, <2>2
<1> DEFINE data == [i \in 1..n |-> wire[i].unit]
<1>3. /\ pc = a /\ ~ssl
      /\ UNCHANGED <<conn, alive, ssl, record, partial, shut, limit, devtls, sent, out, torn, apart, expired, due>>
  BY DEF Link!ReceivePlain, Link!ReceivePlainFails, Link!Receiving, Link!link, Link!layer, Link!dev, Link!hist
<1>4. Len(wire) \in Nat /\ Len(got) \in Nat /\ \A i \in 1..Len(wire) : wire[i] \in Pieces
  BY <1>1, LinkFacts
<1>5. n \in Nat /\ n <= Len(wire)
  BY <1>4
<1>6. data \in Seq(Nat) /\ Len(data) = n /\ \A i \in 1..n : data[i] = wire[i].unit
  <2>1. \A i \in 1..n : wire[i].unit \in Nat
    BY <1>4, <1>5 DEF Pieces
  <2> QED
    BY <1>5, <2>1
<1>7. /\ wire' \in Seq(Pieces) /\ Len(wire') = Len(wire) - n
      /\ \A i \in 1..Len(wire) - n : wire'[i] = wire[n + i]
  <2>1. CASE n = 0
    BY <1>1, <1>2, <1>4, <2>1
  <2>2. CASE n # 0
    <3>1. n \in 1..Len(wire) /\ wire' = SubSeq(wire, n + 1, Len(wire))
      BY <1>2, <1>4, <1>5, <2>2
    <3> QED
      BY <1>1, <3>1, RestFacts
  <2> QED
    BY <2>1, <2>2
<1>8. Link!Hand(a, e, data)
  BY <1>2
<1> HIDE DEF data
<1>9. /\ pc' = "idle" /\ len' = 0 /\ buf' = <<>> /\ before' = 0 /\ got' \in Seq(Nat)
      /\ result'.op = a
  BY <1>1, <1>6, <1>8, HandFacts
<1>10. LinkTypes'
  <2>1. 0 \in 0..MaxLen
    BY LinkAssumption
  <2>2. buf' \in Seq(Nat) /\ before' \in Nat
    BY <1>9
  <2> QED
    BY <1>1, <1>3, <1>7, <1>9, <2>1, <2>2 DEF LinkTypes, Link!TypeOK
<1>11. buf = <<>> /\ limit = "never" /\ record = <<>> /\ partial = <<>> /\ ~shut /\ conn = "open"
  BY <1>1, <1>3 DEF CallInv
<1>12. CallInv'
  BY <1>3, <1>9, <1>11 DEF CallInv, Link!ResultTrue
<1>13. ~apart => \A i \in 1..n : data[i] = Len(got) + i
  <2>1. ~apart => PlainInv
    BY <1>3, <1>11 DEF LinkInv, StreamInv
  <2>2. \A i \in 1..n : i \in 1..Len(wire)
    BY <1>4, <1>5
  <2> QED
    BY <1>6, <2>1, <2>2 DEF PlainInv
<1>14. Len(got') = Len(got) + n /\ (~apart => \A i \in 1..Len(got') : got'[i] = i)
  BY <1>1, <1>6, <1>8, <1>13, HandKeeps DEF LinkInv, StreamInv
<1>15. ~apart => PlainInv'
  <2> SUFFICES ASSUME ~apart PROVE PlainInv'
    OBVIOUS
  <2>1. PlainInv
    BY <1>3, <1>11 DEF LinkInv, StreamInv
  <2>2. sent.unit = Len(got') + Len(wire')
    BY <1>4, <1>5, <1>7, <1>14, <2>1 DEF PlainInv
  <2>3. ASSUME NEW i \in 1..Len(wire') PROVE wire'[i].unit = Len(got') + i
    <3>1. n + i \in 1..Len(wire) /\ wire'[i] = wire[n + i]
      BY <1>4, <1>5, <1>7
    <3>2. wire[n + i].unit = Len(got) + (n + i)
      BY <2>1, <3>1 DEF PlainInv
    <3> QED
      BY <1>4, <1>5, <1>7, <1>14, <3>1, <3>2
  <2> QED
    BY <1>3, <2>1, <2>2, <2>3 DEF PlainInv
<1>16. StreamInv'
  BY <1>3, <1>9, <1>14, <1>15 DEF StreamInv
<1> QED
  BY <1>10, <1>12, <1>16 DEF LinkInv

\* With SSL a call that returns leaves no part of a body, and its timeout behind it.
LEMMA SslReturnKeeps ==
  ASSUME LinkTypes, CallInv, NEW a \in {"receive", "timeout"}, NEW e, NEW data \in Seq(Nat), pc = a, ssl,
         Link!SslReturns(a, e, data), partial' = <<>>, record' \in Seq(Pieces), Len(record') \in {0, 2}, due' \in Nat,
         wire' \in Seq(Pieces), shut' \in BOOLEAN, torn' \in BOOLEAN,
         a = "timeout" /\ e = "success" => Len(data) = len
  PROVE  /\ LinkTypes' /\ CallInv'
         /\ UNCHANGED <<conn, alive, ssl, devtls, sent, apart>>
         /\ buf' = <<>> /\ conn = "open" /\ Taken' = Len(got) + Len(data) /\ SentTo' = SentTo
         /\ (\A i \in 1..Len(got) : got[i] = i) /\ (\A i \in 1..Len(data) : data[i] = Len(got) + i) =>
              \A i \in 1..Len(got') : got'[i] = i
<1>1. /\ Link!Hand(a, e, data) /\ limit' = "never"
      /\ UNCHANGED <<conn, alive, ssl, devtls, sent, out, apart>>
  BY DEF Link!SslReturns, Link!link
<1>2. /\ pc' = "idle" /\ len' = 0 /\ buf' = <<>> /\ before' = 0 /\ got' \in Seq(Nat)
      /\ result' = [op |-> a, err |-> e, bytes |-> Len(data), len |-> len, moved |-> Len(data)]
  BY <1>1, HandFacts DEF LinkTypes
<1>3. LinkTypes'
  <2>1. 0 \in 0..MaxLen
    BY LinkAssumption
  <2>2. buf' \in Seq(Nat) /\ before' \in Nat
    BY <1>2
  <2>3. Len(partial') <= 1 /\ partial' \in Seq(Pieces)
    OBVIOUS
  <2> QED
    BY <1>1, <1>2, <2>1, <2>2, <2>3 DEF LinkTypes, Link!TypeOK
<1>4. CallInv'
  BY <1>1, <1>2 DEF CallInv, Link!ResultTrue
<1>5. conn = "open" /\ SentTo' = SentTo
  BY <1>1 DEF CallInv, SentTo
<1> QED
  BY <1>1, <1>2, <1>3, <1>4, <1>5, HandKeeps

\* The places of the parts when the first one is read.
LEMMA WireMoves ==
  ASSUME LinkTypes, SecureInv, wire # <<>>, wire' = Tail(wire), SentTo' = SentTo
  PROVE  /\ \A i \in 1..Len(wire') : wire'[i].part # 0 /\ Place(wire'[i]) + Len(wire') = SentTo' + i
         /\ wire[1].part # 0 /\ Place(wire[1]) + Len(wire) = SentTo + 1 /\ Place(wire[1]) \in Nat
<1>1. /\ Len(wire) \in Nat /\ Len(wire) > 0 /\ Len(wire') = Len(wire) - 1
      /\ \A i \in 1..Len(wire) : wire[i] \in Pieces
      /\ \A i \in 1..Len(wire') : wire'[i] = wire[i + 1]
  BY LinkFacts
<1>2. SentTo \in Nat
  BY DEF SentTo, LinkTypes
<1>3. ASSUME NEW i \in 1..Len(wire')
      PROVE  wire'[i].part # 0 /\ Place(wire'[i]) + Len(wire') = SentTo' + i
  <2>1. wire'[i] = wire[i + 1] /\ i + 1 \in 1..Len(wire) /\ wire[i + 1] \in Pieces
    BY <1>1
  <2>2. wire[i + 1].part # 0 /\ Place(wire[i + 1]) + Len(wire) = SentTo + (i + 1)
    BY <2>1 DEF SecureInv
  <2>3. Place(wire[i + 1]) \in Nat
    BY <2>1 DEF Place, Pieces
  <2>4. Place(wire'[i]) = Place(wire[i + 1]) /\ i \in Nat
    BY <1>1, <2>1
  <2>5. Place(wire'[i]) + Len(wire') = SentTo' + i
    <3>1. /\ Place(wire'[i]) \in Nat /\ Place(wire'[i]) + Len(wire) = SentTo + (i + 1)
          /\ Len(wire') = Len(wire) - 1 /\ Len(wire) \in Nat /\ SentTo' = SentTo
      BY <1>1, <2>2, <2>3, <2>4
    <3> QED
      BY ONLY <1>2, <2>4, <3>1
  <2> QED
    BY <2>1, <2>2, <2>5
<1>4. 1 \in 1..Len(wire)
  BY <1>1
<1>5. wire[1].part # 0 /\ Place(wire[1]) + Len(wire) = SentTo + 1
  BY <1>4 DEF SecureInv
<1>6. Place(wire[1]) \in Nat
  BY <1>1, <1>4 DEF Place, Pieces
<1> QED
  BY <1>3, <1>5, <1>6

\* The place of the first part that has arrived, unless a part was lost.
LEMMA FirstPart ==
  ASSUME LinkInv, ~apart, ssl, conn = "open", ~torn, wire # <<>>, NEW k \in 1..4,
         Len(record) + Len(partial) = k - 1
  PROVE  wire[1] = [unit |-> Taken + 1, part |-> k]
<1>1. LinkTypes /\ SecureInv
  BY DEF LinkInv, StreamInv
<1>2. /\ Len(wire) \in Nat /\ Len(wire) > 0 /\ wire[1] \in Pieces /\ Len(record) \in Nat /\ Len(partial) \in Nat
  BY <1>1, LinkFacts
<1>3. Taken \in Nat /\ SentTo \in Nat
  BY <1>1, LinkFacts DEF Taken, SentTo, LinkTypes
<1>4. wire[1].part # 0 /\ Place(wire[1]) + Len(wire) = SentTo + 1 /\ Place(wire[1]) \in Nat
  <2>1. 1 \in 1..Len(wire)
    BY <1>2
  <2>2. wire[1].part # 0 /\ Place(wire[1]) + Len(wire) = SentTo + 1
    BY <1>1, <2>1 DEF SecureInv
  <2>3. Place(wire[1]) \in Nat
    BY <1>2 DEF Place, Pieces
  <2> QED
    BY <2>2, <2>3
<1>5. SentTo = 4 * Taken + 4 + Len(record) + Len(partial) + Len(wire)
  BY <1>1 DEF SecureInv
<1>6. Place(wire[1]) = 4 * (Taken + 1) + k
  <2>1. k \in Nat /\ Len(record) + Len(partial) = k - 1
    OBVIOUS
  <2> QED
    BY ONLY <1>2, <1>3, <1>4, <1>5, <2>1
<1>7. Taken + 1 \in Nat
  BY <1>3
<1>8. \A p \in Pieces : p.part # 0 /\ Place(p) = 4 * (Taken + 1) + k => p = [unit |-> Taken + 1, part |-> k]
  BY <1>7, PlaceTells
<1> QED
  BY ONLY <1>2, <1>4, <1>6, <1>8

\* The library takes a part of a record.
LEMMA SslPartKeeps ==
  ASSUME LinkInv, NEW a \in {"receive", "timeout"}, Link!SslPart(a)
  PROVE  LinkInv'
<1> DEFINE p == Head(wire)
<1>1. LinkTypes /\ Link!TypeOK /\ CallInv /\ record \in Seq(Pieces) /\ partial \in Seq(Pieces)
  BY DEF LinkInv, LinkTypes
<1>2. /\ pc = a /\ ssl /\ ~shut /\ wire # <<>> /\ wire' = Tail(wire) /\ conn = "open"
      /\ UNCHANGED <<pc, conn, alive, ssl, shut, limit, devtls, sent, len, buf, got, out, before, result,
                     torn, apart, expired, due>>
      /\ \/ partial = <<>> /\ partial' = <<p>> /\ record' = record
         \/ record = <<>> /\ partial # <<>> /\ record' = partial \o <<p>> /\ partial' = <<>>
  BY <1>1 DEF Link!SslPart, Link!Receiving, Link!link, Link!hist, CallInv
<1>3. /\ Len(wire) \in Nat /\ Len(wire) > 0 /\ p = wire[1] /\ p \in Pieces
      /\ wire' \in Seq(Pieces) /\ Len(wire') = Len(wire) - 1
  BY <1>1, <1>2, LinkFacts
<1> HIDE DEF p
<1>4. /\ Taken \in Nat /\ SentTo \in Nat /\ Taken' = Taken /\ SentTo' = SentTo
  BY <1>1, <1>2, LinkFacts DEF Taken, SentTo, LinkTypes
<1>5. /\ record = <<>> => Len(record) = 0
      /\ record # <<>> => Len(record) = 2
      /\ partial = <<>> => Len(partial) = 0
      /\ partial # <<>> => Len(partial) = 1 /\ partial[1] \in Pieces
  BY <1>1, LinkFacts
<1>6. <<p>> \in Seq(Pieces) /\ Len(<<p>>) = 1 /\ <<p>>[1] = p /\ <<p>> # <<>>
  BY <1>3
<1>7. partial # <<>> => /\ partial \o <<p>> \in Seq(Pieces) /\ Len(partial \o <<p>>) = 2
                        /\ (partial \o <<p>>)[1] = partial[1] /\ (partial \o <<p>>)[2] = p
  <2> SUFFICES ASSUME partial # <<>>
               PROVE  /\ partial \o <<p>> \in Seq(Pieces) /\ Len(partial \o <<p>>) = 2
                      /\ (partial \o <<p>>)[1] = partial[1] /\ (partial \o <<p>>)[2] = p
    OBVIOUS
  <2> DEFINE last == <<p>>
  <2>1. last \in Seq(Pieces) /\ Len(last) = 1 /\ last[1] = p /\ Len(partial) = 1
    BY <1>5, <1>6
  <2> HIDE DEF last
  <2>2. /\ partial \o last \in Seq(Pieces) /\ Len(partial \o last) = Len(partial) + Len(last)
        /\ \A i \in 1..Len(partial) + Len(last) :
             (partial \o last)[i] = IF i <= Len(partial) THEN partial[i] ELSE last[i - Len(partial)]
    BY <1>1, <2>1, ConcatProperties
  <2>3. Len(partial \o last) = 2 /\ (partial \o last)[1] = partial[1] /\ (partial \o last)[2] = last[1]
    BY ONLY <2>1, <2>2
  <2> QED
    BY <2>1, <2>2, <2>3 DEF last
<1>8. /\ record' \in Seq(Pieces) /\ Len(record') \in {0, 2} /\ partial' \in Seq(Pieces) /\ Len(partial') <= 1
      /\ Len(record') + Len(partial') = Len(record) + Len(partial) + 1
  <2>1. CASE partial = <<>> /\ partial' = <<p>> /\ record' = record
    <3>1. Len(record) \in {0, 2}
      BY <1>1 DEF Link!TypeOK
    <3> QED
      BY <1>1, <1>5, <1>6, <2>1, <3>1
  <2>2. CASE record = <<>> /\ partial # <<>> /\ record' = partial \o <<p>> /\ partial' = <<>>
    BY <1>5, <1>7, <2>2
  <2> QED
    BY <1>2, <2>1, <2>2
<1>9. LinkTypes'
  <2>1. Link!TypeOK'
    BY <1>1, <1>2, <1>8 DEF Link!TypeOK
  <2> QED
    BY <1>1, <1>2, <1>3, <1>8, <2>1 DEF LinkTypes
<1>10. CallInv'
  BY <1>1, <1>2, <1>6 DEF CallInv, Link!ResultTrue
<1>11. ASSUME ~apart PROVE SecureInv'
  <2>1. SecureInv
    BY <1>2, <1>11 DEF LinkInv, StreamInv
  <2>2. \A i \in 1..Len(wire') : wire'[i].part # 0 /\ Place(wire'[i]) + Len(wire') = SentTo' + i
    BY <1>1, <1>2, <1>4, <2>1, WireMoves
  <2>3. ASSUME ~torn
        PROVE  /\ SentTo' = 4 * Taken' + 4 + Len(record') + Len(partial') + Len(wire')
               /\ record' # <<>> => /\ record'[1] = [unit |-> Taken' + 1, part |-> 1]
                                   /\ record'[2] = [unit |-> Taken' + 1, part |-> 2]
               /\ partial' # <<>> => partial'[1] = [unit |-> Taken' + 1, part |-> IF record' = <<>> THEN 1 ELSE 3]
    <3>1. SentTo' = 4 * Taken' + 4 + Len(record') + Len(partial') + Len(wire')
      <4>1. SentTo = 4 * Taken + 4 + Len(record) + Len(partial) + Len(wire)
        BY <2>1, <2>3 DEF SecureInv
      <4>2. Len(record) \in Nat /\ Len(partial) \in Nat
        BY <1>5
      <4>3. Len(record') \in Nat /\ Len(partial') \in Nat
        BY <1>8
      <4> QED
        BY ONLY <1>3, <1>4, <1>8, <4>1, <4>2, <4>3
    <3>2. CASE partial = <<>> /\ partial' = <<p>> /\ record' = record
      <4>1. record = <<>> => p = [unit |-> Taken + 1, part |-> 1]
        <5>1. record = <<>> => Len(record) + Len(partial) = 1 - 1 /\ 1 \in 1..4
          BY <1>5, <3>2
        <5> QED
          BY <1>2, <1>3, <1>11, <2>3, <5>1, FirstPart
      <4>2. record # <<>> => p = [unit |-> Taken + 1, part |-> 3]
        <5>1. record # <<>> => Len(record) + Len(partial) = 3 - 1 /\ 3 \in 1..4
          BY <1>5, <3>2
        <5> QED
          BY <1>2, <1>3, <1>11, <2>3, <5>1, FirstPart
      <4>3. record # <<>> => /\ record[1] = [unit |-> Taken + 1, part |-> 1]
                            /\ record[2] = [unit |-> Taken + 1, part |-> 2]
        BY <2>1, <2>3 DEF SecureInv
      <4> QED
        BY <1>4, <1>6, <3>1, <3>2, <4>1, <4>2, <4>3
    <3>3. CASE record = <<>> /\ partial # <<>> /\ record' = partial \o <<p>> /\ partial' = <<>>
      <4>1. Len(record) + Len(partial) = 2 - 1 /\ 2 \in 1..4
        BY <1>5, <3>3
      <4>2. p = [unit |-> Taken + 1, part |-> 2]
        BY <1>2, <1>3, <1>11, <2>3, <4>1, FirstPart
      <4>3. partial[1] = [unit |-> Taken + 1, part |-> 1]
        BY <2>1, <2>3, <3>3 DEF SecureInv
      <4> QED
        BY <1>4, <1>7, <3>1, <3>3, <4>2, <4>3
    <3> QED
      BY <1>2, <3>2, <3>3
  <2> QED
    BY <1>2, <1>4, <2>1, <2>2, <2>3 DEF SecureInv
<1>12. StreamInv'
  BY <1>2, <1>11 DEF LinkInv, StreamInv
<1> QED
  BY <1>9, <1>10, <1>12 DEF LinkInv

\* The parts of a record, in the library, in the buffer of the read and behind it.
LEMMA RecordParts ==
  ASSUME LinkTypes, record # <<>>, partial # <<>>, wire # <<>>
  PROVE  LET parts == record \o partial \o <<Head(wire)>>
         IN  parts[1] = record[1] /\ parts[2] = record[2] /\ parts[3] = partial[1] /\ parts[4] = wire[1]
<1> DEFINE body == record \o partial
           last == <<Head(wire)>>
           parts == record \o partial \o <<Head(wire)>>
<1>1. /\ record \in Seq(Pieces) /\ partial \in Seq(Pieces) /\ Len(record) = 2 /\ Len(partial) = 1
      /\ Head(wire) = wire[1] /\ wire[1] \in Pieces
  BY LinkFacts DEF LinkTypes
<1>2. /\ body \in Seq(Pieces) /\ Len(body) = 3
      /\ body[1] = record[1] /\ body[2] = record[2] /\ body[3] = partial[1]
  <2>1. /\ body \in Seq(Pieces) /\ Len(body) = Len(record) + Len(partial)
        /\ \A i \in 1..Len(record) + Len(partial) :
             body[i] = IF i <= Len(record) THEN record[i] ELSE partial[i - Len(record)]
    BY <1>1, ConcatProperties
  <2> HIDE DEF body
  <2> QED
    BY ONLY <1>1, <2>1
<1>3. last \in Seq(Pieces) /\ Len(last) = 1 /\ last[1] = wire[1]
  BY <1>1
<1>4. parts = body \o last
  OBVIOUS
<1> HIDE DEF body, last, parts
<1>5. \A i \in 1..4 : parts[i] = IF i <= 3 THEN body[i] ELSE last[i - 3]
  <2>1. \A i \in 1..Len(body) + Len(last) :
          (body \o last)[i] = IF i <= Len(body) THEN body[i] ELSE last[i - Len(body)]
    BY <1>2, <1>3, ConcatProperties
  <2>2. Len(body) + Len(last) = 4
    BY <1>2, <1>3
  <2> QED
    BY <1>2, <1>4, <2>1, <2>2
<1>6. parts[1] = body[1] /\ parts[2] = body[2] /\ parts[3] = body[3] /\ parts[4] = last[1]
  BY ONLY <1>5
<1> QED
  BY <1>2, <1>3, <1>6 DEF parts

\* Unless a part was lost what comes next completes the head or the record of the next unit.
LEMMA NextRecord ==
  ASSUME LinkInv, ~apart, ssl, conn = "open", ~torn, wire # <<>>, partial # <<>>
  PROVE  /\ record = <<>> => Link!IsHead(partial \o <<Head(wire)>>)
         /\ record # <<>> => Link!Verifies(record \o partial \o <<Head(wire)>>)
<1>1. LinkTypes /\ SecureInv
  BY DEF LinkInv, StreamInv
<1>2. /\ Head(wire) = wire[1] /\ wire[1] \in Pieces /\ Len(partial) = 1 /\ partial \in Seq(Pieces)
      /\ record = <<>> => Len(record) = 0
      /\ record # <<>> => Len(record) = 2
  BY <1>1, LinkFacts DEF LinkTypes
<1>3. ASSUME record = <<>> PROVE Link!IsHead(partial \o <<Head(wire)>>)
  <2>1. Len(record) + Len(partial) = 2 - 1 /\ 2 \in 1..4
    BY <1>2, <1>3
  <2>2. wire[1] = [unit |-> Taken + 1, part |-> 2]
    BY <2>1, FirstPart
  <2>3. partial[1] = [unit |-> Taken + 1, part |-> 1]
    BY <1>1, <1>3 DEF SecureInv
  <2>4. (partial \o <<wire[1]>>)[1] = partial[1] /\ (partial \o <<wire[1]>>)[2] = wire[1]
    <3> DEFINE last == <<wire[1]>>
    <3>1. last \in Seq(Pieces) /\ Len(last) = 1 /\ last[1] = wire[1]
      BY <1>2
    <3> HIDE DEF last
    <3>2. \A i \in 1..Len(partial) + Len(last) :
            (partial \o last)[i] = IF i <= Len(partial) THEN partial[i] ELSE last[i - Len(partial)]
      BY <1>2, <3>1, ConcatProperties
    <3>3. (partial \o last)[1] = partial[1] /\ (partial \o last)[2] = last[1]
      BY ONLY <1>2, <3>1, <3>2
    <3> QED
      BY <3>1, <3>3 DEF last
  <2>5. \A i \in 1..2 : i = 1 \/ i = 2
    OBVIOUS
  <2> DEFINE parts == partial \o <<Head(wire)>>
  <2>6. parts[1] = [unit |-> Taken + 1, part |-> 1] /\ parts[2] = [unit |-> Taken + 1, part |-> 2]
    BY <1>2, <2>2, <2>3, <2>4
  <2> HIDE DEF parts
  <2>7. Link!IsHead(parts)
    BY ONLY <2>5, <2>6 DEF Link!IsHead
  <2> QED
    BY <2>7 DEF parts
<1>4. ASSUME record # <<>> PROVE Link!Verifies(record \o partial \o <<Head(wire)>>)
  <2> DEFINE parts == record \o partial \o <<Head(wire)>>
  <2>1. Len(record) + Len(partial) = 4 - 1 /\ 4 \in 1..4
    <3>1. Len(record) = 2 /\ Len(partial) = 1
      BY <1>2, <1>4, Zenon
    <3> QED
      BY ONLY <3>1
  <2>2. wire[1] = [unit |-> Taken + 1, part |-> 4]
    BY <2>1, FirstPart
  <2>3. /\ partial[1] = [unit |-> Taken + 1, part |-> 3] /\ due = Taken + 1
        /\ record[1] = [unit |-> Taken + 1, part |-> 1] /\ record[2] = [unit |-> Taken + 1, part |-> 2]
    BY <1>1, <1>4 DEF SecureInv
  <2>4. parts[1] = record[1] /\ parts[2] = record[2] /\ parts[3] = partial[1] /\ parts[4] = wire[1]
    BY <1>1, <1>4, RecordParts
  <2> HIDE DEF parts
  <2>5. \A i \in 1..4 : i = 1 \/ i = 2 \/ i = 3 \/ i = 4
    OBVIOUS
  <2>6. Link!Verifies(parts)
    BY <2>2, <2>3, <2>4, <2>5 DEF Link!Verifies, Link!IsRecord
  <2> QED
    BY <2>6 DEF parts
<1> QED
  BY <1>3, <1>4

\* A record is complete: the caller has the unit, or goes on with the next one.
LEMMA SslRecordKeeps ==
  ASSUME LinkInv, NEW a \in {"receive", "timeout"}, Link!SslRecord(a)
  PROVE  LinkInv'
<1> DEFINE unit == record[1].unit
           data == Append(buf, unit)
<1>1. LinkTypes /\ Link!TypeOK /\ CallInv /\ buf \in Seq(Nat) /\ len \in 0..MaxLen /\ MaxLen \in Nat
  BY LinkAssumption DEF LinkInv, LinkTypes, Link!TypeOK
<1>2. /\ pc = a /\ ssl /\ ~shut /\ wire # <<>> /\ partial # <<>> /\ conn = "open"
      /\ record # <<>> /\ Link!Verifies(record \o partial \o <<Head(wire)>>) /\ due' = due + 1
      /\ wire' = Tail(wire) /\ record' = <<>> /\ partial' = <<>> /\ UNCHANGED <<shut, torn, expired>>
  BY <1>1 DEF Link!SslRecord, Link!Receiving, CallInv
<1>3. IF a = "timeout" /\ Len(buf) + 1 < len
      THEN buf' = data /\ UNCHANGED <<pc, conn, alive, ssl, limit, devtls, sent, len, out, before, apart, result, got>>
      ELSE Link!SslReturns(a, "success", data)
  BY DEF Link!SslRecord, Link!Into, Link!link
<1>4. /\ Len(buf) \in Nat /\ Len(got) \in Nat /\ Len(wire) \in Nat
      /\ record[1] \in Pieces /\ Len(record) = 2 /\ Len(partial) = 1
      /\ wire' \in Seq(Pieces) /\ Len(wire') = Len(wire) - 1
  BY <1>1, <1>2, LinkFacts DEF CallInv
<1>5. unit \in Nat
  BY <1>4 DEF Pieces
<1>6. /\ data \in Seq(Nat) /\ Len(data) = Len(buf) + 1 /\ data[Len(buf) + 1] = unit
      /\ \A i \in 1..Len(buf) : data[i] = buf[i]
  BY <1>1, <1>5, AppendProperties
<1>7. /\ record' \in Seq(Pieces) /\ Len(record') \in {0, 2} /\ partial' \in Seq(Pieces) /\ Len(partial') <= 1
      /\ Len(record') = 0 /\ Len(partial') = 0
  BY <1>2
<1>8. shut' \in BOOLEAN /\ torn' \in BOOLEAN /\ due' \in Nat
  BY <1>1, <1>2 DEF LinkTypes
<1>9. ~apart => /\ unit = Taken + 1 /\ due = Taken + 1 /\ SecureInv
                /\ ~torn => SentTo = 4 * Taken + 4 + 3 + Len(wire)
                /\ \A i \in 1..Len(got) : got[i] = i
                /\ \A i \in 1..Len(buf) : buf[i] = Len(got) + i
  <2> SUFFICES ASSUME ~apart
               PROVE  /\ unit = Taken + 1 /\ due = Taken + 1 /\ SecureInv
                      /\ ~torn => SentTo = 4 * Taken + 4 + 3 + Len(wire)
                      /\ \A i \in 1..Len(got) : got[i] = i
                      /\ \A i \in 1..Len(buf) : buf[i] = Len(got) + i
    OBVIOUS
  <2>1. /\ SecureInv
        /\ \A i \in 1..Len(got) : got[i] = i
        /\ \A i \in 1..Len(buf) : buf[i] = Len(got) + i
    BY <1>2 DEF LinkInv, StreamInv
  <2>2. due = Taken + 1
    BY <2>1 DEF SecureInv
  <2>3. unit = due
    <3> DEFINE parts == record \o partial \o <<Head(wire)>>
    <3>1. parts[1] = record[1]
      BY <1>1, <1>2, RecordParts
    <3>2. Link!Verifies(parts)
      BY <1>2
    <3> HIDE DEF parts
    <3>3. parts[1].unit = due
      BY <3>2 DEF Link!Verifies
    <3> QED
      BY <3>1, <3>3
  <2>4. ~torn => SentTo = 4 * Taken + 4 + 3 + Len(wire)
    <3>1. ~torn => SentTo = 4 * Taken + 4 + Len(record) + Len(partial) + Len(wire)
      BY <2>1 DEF SecureInv
    <3>2. Taken \in Nat
      BY <1>4 DEF Taken
    <3> QED
      BY ONLY <1>4, <3>1, <3>2
  <2> QED
    BY <2>1, <2>2, <2>3, <2>4
<1> HIDE DEF unit, data
<1>10. ~apart => \A i \in 1..Len(data) : data[i] = Len(got) + i
  <2> SUFFICES ASSUME ~apart, NEW i \in 1..Len(data) PROVE data[i] = Len(got) + i
    OBVIOUS
  <2>1. i \in 1..Len(buf) \/ i = Len(buf) + 1
    BY <1>4, <1>6
  <2>2. i \in 1..Len(buf) => data[i] = Len(got) + i
    BY <1>6, <1>9
  <2>3. unit = Len(got) + (Len(buf) + 1)
    BY <1>4, <1>9 DEF Taken
  <2> QED
    BY <1>6, <2>1, <2>2, <2>3
<1>11. Taken' = Len(got) + Len(data) /\ SentTo' = SentTo /\ ssl' /\ devtls' = devtls /\ torn' = torn /\ shut' = shut /\ alive' = alive =>
         (~apart => SecureInv')
  <2> SUFFICES ASSUME Taken' = Len(got) + Len(data), SentTo' = SentTo, devtls' = devtls, alive' = alive, ~apart
               PROVE  SecureInv'
    OBVIOUS
  <2>1. \A i \in 1..Len(wire') : wire'[i].part # 0 /\ Place(wire'[i]) + Len(wire') = SentTo' + i
    BY <1>1, <1>2, <1>9, WireMoves
  <2>2. Taken' = Taken + 1 /\ Taken \in Nat
    BY <1>4, <1>6 DEF Taken
  <2>3. ~torn => SentTo' = 4 * Taken' + 4 + Len(record') + Len(partial') + Len(wire')
    <3>1. ~torn => SentTo = 4 * Taken + 4 + 3 + Len(wire)
      BY <1>9
    <3>2. Len(wire) \in Nat /\ Len(wire') = Len(wire) - 1
      BY <1>4
    <3>3. Len(record') = 0 /\ Len(partial') = 0 /\ SentTo' = SentTo
      BY <1>7
    <3> QED
      BY ONLY <2>2, <3>1, <3>2, <3>3
  <2>4. due' = Taken' + 1
    BY <1>2, <1>9, <2>2
  <2> QED
    BY <1>2, <1>9, <2>1, <2>3, <2>4 DEF SecureInv
<1>12. CASE a = "timeout" /\ Len(buf) + 1 < len
  <2>1. buf' = data /\ UNCHANGED <<pc, conn, alive, ssl, limit, devtls, sent, len, out, before, apart, result, got>>
    BY <1>3, <1>12
  <2>2. LinkTypes'
    BY <1>1, <1>4, <1>6, <1>7, <1>8, <2>1 DEF LinkTypes, Link!TypeOK
  <2>3. CallInv'
    BY <1>1, <1>2, <1>6, <1>12, <2>1 DEF CallInv, Link!ResultTrue
  <2>4. Taken' = Len(got) + Len(data) /\ SentTo' = SentTo
    BY <2>1 DEF Taken, SentTo
  <2>5. StreamInv'
    BY <1>2, <1>9, <1>10, <1>11, <2>1, <2>4 DEF StreamInv
  <2> QED
    BY <2>2, <2>3, <2>5 DEF LinkInv
<1>13. CASE ~(a = "timeout" /\ Len(buf) + 1 < len)
  <2>1. Link!SslReturns(a, "success", data)
    BY <1>3, <1>13
  <2>2. a = "timeout" => Len(data) = len
    BY <1>1, <1>2, <1>4, <1>6, <1>13 DEF CallInv
  <2>3. /\ LinkTypes' /\ CallInv'
        /\ UNCHANGED <<conn, alive, ssl, devtls, sent, apart>>
        /\ buf' = <<>> /\ Taken' = Len(got) + Len(data) /\ SentTo' = SentTo
        /\ (\A i \in 1..Len(got) : got[i] = i) /\ (\A i \in 1..Len(data) : data[i] = Len(got) + i) =>
             \A i \in 1..Len(got') : got'[i] = i
    BY <1>1, <1>2, <1>4, <1>6, <1>7, <1>8, <2>1, <2>2, SslReturnKeeps
  <2>4. StreamInv'
    BY <1>2, <1>9, <1>10, <1>11, <2>3 DEF StreamInv
  <2> QED
    BY <2>3, <2>4 DEF LinkInv
<1> QED
  BY <1>12, <1>13

\* A call that ends without a record: what it has is the caller's, and what is not it stays
\* unread, or was torn, or nothing comes after it.
LEMMA SslEndKeeps ==
  ASSUME LinkInv, NEW a \in {"receive", "timeout"},
         Link!SslDamaged(a) \/ Link!SslShut(a) \/ Link!SslLost(a) \/ (a = "timeout" /\ Link!SslTimeout)
         \/ (a = "receive" /\ Link!SslExpires)
  PROVE  LinkInv'
<1>1. /\ LinkTypes /\ Link!TypeOK /\ CallInv /\ buf \in Seq(Nat) /\ record \in Seq(Pieces) /\ wire \in Seq(Pieces)
      /\ partial \in Seq(Pieces)
  BY DEF LinkInv, LinkTypes
<1>2. /\ pc = a /\ ssl /\ conn = "open" /\ Len(buf) \in Nat /\ Len(got) \in Nat /\ Len(wire) \in Nat
      /\ partial = <<>> => Len(partial) = 0
      /\ partial # <<>> => ~shut
  <2>1. pc = a /\ ssl
    BY DEF Link!SslDamaged, Link!SslShut, Link!SslLost, Link!SslTimeout, Link!SslExpires, Link!Receiving
  <2> QED
    BY <1>1, <2>1, LinkFacts DEF CallInv
<1>3. PICK e \in {"ssl", "timeout", "unknown"} : Link!SslReturns(a, e, buf)
  BY DEF Link!SslDamaged, Link!SslShut, Link!SslLost, Link!SslTimeout, Link!SslExpires
<1>4. /\ partial' = <<>> /\ record' \in Seq(Pieces) /\ Len(record') \in {0, 2} /\ wire' \in Seq(Pieces)
      /\ shut' \in BOOLEAN /\ torn' \in BOOLEAN /\ due' = due /\ due \in Nat
  <2>1. <<>> \in Seq(Pieces) /\ Len(<<>>) \in {0, 2}
    OBVIOUS
  <2>2. shut \in BOOLEAN /\ torn \in BOOLEAN /\ Len(record) \in {0, 2} /\ due \in Nat
    BY <1>1 DEF LinkTypes, Link!TypeOK
  <2>3. CASE Link!SslDamaged(a)
    <3>1. /\ wire # <<>> /\ wire' = Tail(wire) /\ record' = <<>> /\ partial' = <<>> /\ torn' = torn
          /\ shut' = TRUE /\ due' = due
      BY <2>3 DEF Link!SslDamaged
    <3>2. wire' \in Seq(Pieces)
      BY <1>1, <3>1, LinkFacts
    <3>3. record' \in Seq(Pieces) /\ Len(record') \in {0, 2}
      BY <3>1, <2>1
    <3>4. shut' \in BOOLEAN
      BY <3>1
    <3> QED
      BY <2>2, <3>1, <3>2, <3>3, <3>4
  <2>4. CASE Link!SslShut(a)
    <3>1. shut /\ UNCHANGED <<record, partial, shut, wire, torn, due>>
      BY <2>4 DEF Link!SslShut
    <3> QED
      BY <1>1, <1>2, <2>2, <3>1
  <2>5. CASE Link!SslTimeout \/ Link!SslLost(a) \/ Link!SslExpires
    <3>1. /\ UNCHANGED <<record, wire, due>> /\ partial' = <<>> /\ torn' = (torn \/ partial # <<>>)
      BY <2>5 DEF Link!SslTimeout, Link!SslLost, Link!SslExpires
    <3>2. shut' \in BOOLEAN
      BY <2>5 DEF Link!SslTimeout, Link!SslLost, Link!SslExpires, Link!StaysShut
    <3>3. torn' \in BOOLEAN
      BY <3>1
    <3> QED
      BY <1>1, <2>2, <3>1, <3>2, <3>3
  <2> QED
    BY <2>3, <2>4, <2>5
<1>5. /\ LinkTypes' /\ CallInv'
      /\ UNCHANGED <<conn, alive, ssl, devtls, sent, apart>>
      /\ buf' = <<>> /\ Taken' = Taken /\ SentTo' = SentTo
      /\ (\A i \in 1..Len(got) : got[i] = i) /\ (\A i \in 1..Len(buf) : buf[i] = Len(got) + i) =>
           \A i \in 1..Len(got') : got'[i] = i
  BY <1>1, <1>2, <1>3, <1>4, SslReturnKeeps DEF Taken
<1>6. ASSUME ~apart PROVE SecureInv'
  <2>1. SecureInv
    BY <1>2, <1>6 DEF LinkInv, StreamInv
  <2>2. Len(partial') = 0 /\ partial' = <<>>
    BY <1>4
  <2>3. Taken \in Nat /\ SentTo \in Nat
    BY <1>1, <1>2 DEF Taken, SentTo, LinkTypes
  <2>4. CASE Link!SslDamaged(a)
    <3>1. /\ ~shut /\ wire # <<>> /\ wire' = Tail(wire) /\ partial # <<>> /\ torn' = torn
          /\ \/ record = <<>> /\ ~Link!IsHead(partial \o <<Head(wire)>>)
             \/ record # <<>> /\ ~Link!Verifies(record \o partial \o <<Head(wire)>>)
      BY <2>4 DEF Link!SslDamaged
    <3>2. torn'
      BY <1>2, <1>6, <3>1, NextRecord
    <3>3. \A i \in 1..Len(wire') : wire'[i].part # 0 /\ Place(wire'[i]) + Len(wire') = SentTo' + i
      BY <1>1, <1>5, <2>1, <3>1, WireMoves
    <3> QED
      BY <1>4, <1>5, <2>1, <3>2, <3>3 DEF SecureInv
  <2>5. CASE Link!SslShut(a)
    <3>1. shut /\ UNCHANGED <<record, partial, shut, wire, torn, expired>>
      BY <2>5 DEF Link!SslShut
    <3> QED
      BY <1>4, <1>5, <2>1, <3>1 DEF SecureInv, Place
  <2>6. CASE Link!SslTimeout \/ Link!SslLost(a) \/ Link!SslExpires
    <3>1. /\ UNCHANGED <<record, wire>> /\ torn' = (torn \/ partial # <<>>)
          /\ ~shut' \/ ~alive \/ expired'
      BY <2>6 DEF Link!SslTimeout, Link!SslLost, Link!SslExpires, Link!StaysShut
    <3>2. ~torn' => ~torn /\ partial = <<>>
      BY <3>1
    <3>3. ~torn' => SentTo' = 4 * Taken' + 4 + Len(record') + Len(partial') + Len(wire')
      BY <1>2, <1>5, <2>1, <2>2, <3>1, <3>2 DEF SecureInv
    <3>4. ~torn' /\ record' # <<>> => /\ record'[1] = [unit |-> Taken' + 1, part |-> 1]
                                     /\ record'[2] = [unit |-> Taken' + 1, part |-> 2]
      BY <1>5, <2>1, <3>1, <3>2 DEF SecureInv
    <3> QED
      BY <1>4, <1>5, <2>1, <2>2, <3>1, <3>3, <3>4 DEF SecureInv, Place
  <2> QED
    BY <2>4, <2>5, <2>6
<1>7. StreamInv'
  <2>1. ~apart => \A i \in 1..Len(got') : got'[i] = i
    BY <1>5 DEF LinkInv, StreamInv
  <2> QED
    BY <1>2, <1>5, <1>6, <2>1 DEF StreamInv
<1> QED
  BY <1>5, <1>7 DEF LinkInv

\* Every step of the user, of the library and of the device keeps the invariant.
LEMMA LinkSteps ==
  ASSUME LinkInv, Link!Next
  PROVE  LinkInv'
BY QuietSteps, DeviceKeeps, DisconnectKeeps, PlainReceives, SslPartKeeps, SslRecordKeeps, SslEndKeeps,
   HandshakeKeeps, DisableKeeps
DEF Link!Next

\* What the user relies on follows.
LEMMA LinkTrue == LinkInv => Link!StreamTrue
<1> SUFFICES ASSUME LinkInv PROVE Link!StreamTrue
  OBVIOUS
<1>1. LinkTypes /\ Link!TypeOK /\ CallInv /\ StreamInv
  BY DEF LinkInv, LinkTypes
<1>2. Link!Delivered /\ Link!ResultTrue
  BY <1>1 DEF Link!Delivered, StreamInv, CallInv
<1>3. ASSUME ~torn, ~apart, conn = "open"
      PROVE  /\ shut => ~alive \/ expired
             /\ pc = "idle" => \A i \in 1..Len(wire) : wire[i].unit > Len(got)
             /\ pc = "idle" /\ ssl /\ record \o wire # <<>> =>
                  Head(record \o wire) = [unit |-> Len(got) + 1, part |-> 1]
  <2>1. IF ssl THEN SecureInv ELSE PlainInv
    BY <1>1, <1>3 DEF StreamInv
  <2>2. shut => ~alive \/ expired
    BY <1>1, <1>3, <2>1 DEF SecureInv, CallInv
  <2>3. /\ Len(wire) \in Nat /\ Len(got) \in Nat /\ \A i \in 1..Len(wire) : wire[i] \in Pieces
        /\ record \in Seq(Pieces) /\ wire \in Seq(Pieces) /\ SentTo \in Nat
        /\ record = <<>> => Len(record) = 0
        /\ record # <<>> => Len(record) = 2 /\ record[1] \in Pieces
    BY <1>1, LinkFacts DEF LinkTypes, SentTo
  <2>4. pc = "idle" => buf = <<>> /\ partial = <<>> /\ Taken = Len(got) /\ Len(partial) = 0
    <3>1. pc = "idle" => buf = <<>> /\ partial = <<>>
      BY <1>1 DEF CallInv
    <3>2. buf = <<>> => Len(buf) = 0
      OBVIOUS
    <3>3. partial = <<>> => Len(partial) = 0
      OBVIOUS
    <3> QED
      BY <2>3, <3>1, <3>2, <3>3 DEF Taken
  <2>5. ASSUME pc = "idle", ssl
        PROVE  /\ \A i \in 1..Len(wire) : wire[i].unit > Len(got)
               /\ record = <<>> /\ wire # <<>> => wire[1] = [unit |-> Len(got) + 1, part |-> 1]
    <3>1. SentTo = 4 * Len(got) + 4 + Len(record) + Len(wire)
      <4>1. SentTo = 4 * Taken + 4 + Len(record) + Len(partial) + Len(wire)
        BY <1>3, <2>1, <2>5 DEF SecureInv
      <4>2. /\ Taken = Len(got) /\ Len(partial) = 0 /\ Len(wire) \in Nat /\ Len(got) \in Nat
            /\ Len(record) \in Nat
        BY <2>3, <2>4, <2>5
      <4> QED
        BY ONLY <2>3, <4>1, <4>2
    <3>2. ASSUME NEW i \in 1..Len(wire)
          PROVE  Place(wire[i]) = 4 * Len(got) + 4 + Len(record) + i /\ wire[i].part # 0
      <4>1. Place(wire[i]) + Len(wire) = SentTo + i /\ wire[i].part # 0
        BY <2>1, <2>5 DEF SecureInv
      <4>2. Place(wire[i]) \in Nat /\ Len(record) \in Nat /\ Len(wire) > 0
        <5>1. wire[i] \in Pieces /\ Len(record) \in Nat /\ Len(wire) > 0
          BY <2>3
        <5>2. wire[i].unit \in Nat /\ wire[i].part \in Nat
          BY ONLY <5>1 DEF Pieces
        <5> QED
          BY ONLY <5>1, <5>2 DEF Place
      <4>3. Len(wire) \in Nat /\ Len(got) \in Nat /\ i \in Nat
        <5>1. Len(wire) \in Nat /\ Len(got) \in Nat
          BY <2>3
        <5> QED
          BY ONLY <5>1
      <4>4. SentTo = 4 * Len(got) + 4 + Len(record) + Len(wire)
        BY <3>1
      <4>5. Place(wire[i]) + Len(wire) = 4 * Len(got) + 4 + Len(record) + Len(wire) + i
        BY ONLY <4>1, <4>4
      <4>6. Place(wire[i]) = 4 * Len(got) + 4 + Len(record) + i
        BY ONLY <4>2, <4>3, <4>5
      <4> QED
        BY ONLY <4>1, <4>6
    <3>3. ASSUME NEW i \in 1..Len(wire) PROVE wire[i].unit > Len(got)
      <4>1. wire[i].unit \in Nat /\ wire[i].part \in 0..4 /\ i \in Nat /\ i > 0 /\ Len(record) \in Nat
        BY <2>3 DEF Pieces
      <4>2. 4 * wire[i].unit + wire[i].part = 4 * Len(got) + 4 + Len(record) + i
        BY <3>2 DEF Place
      <4>3. Len(got) \in Nat
        BY <2>3
      <4> QED
        BY ONLY <4>1, <4>2, <4>3
    <3>4. ASSUME record = <<>>, wire # <<>> PROVE wire[1] = [unit |-> Len(got) + 1, part |-> 1]
      <4>1. 1 \in 1..Len(wire)
        BY <2>3, <3>4
      <4>2. wire[1] \in Pieces /\ wire[1].part # 0 /\ Place(wire[1]) = 4 * (Len(got) + 1) + 1
        <5>1. wire[1] \in Pieces /\ Len(got) \in Nat /\ Len(record) = 0
          BY <2>3, <3>4, <4>1
        <5>2. Place(wire[1]) = 4 * Len(got) + 4 + Len(record) + 1 /\ wire[1].part # 0
          BY <3>2, <4>1
        <5> QED
          BY ONLY <5>1, <5>2
      <4>3. Len(got) + 1 \in Nat /\ 1 \in 1..4
        BY <2>3
      <4> QED
        BY <4>2, <4>3, PlaceTells
    <3> QED
      BY <3>3, <3>4
  <2>6. ~ssl => \A i \in 1..Len(wire) : wire[i].unit > Len(got)
    BY <2>1, <2>3 DEF PlainInv
  <2>7. ASSUME pc = "idle", ssl, record \o wire # <<>>
        PROVE  Head(record \o wire) = [unit |-> Len(got) + 1, part |-> 1]
    <3>1. CASE record = <<>>
      <4>1. record \o wire = wire
        BY <2>3, <3>1, ConcatEmptySeq
      <4>2. wire # <<>>
        BY <2>7, <4>1
      <4>3. Head(wire) = wire[1]
        BY <2>3, <4>2, QueueFacts
      <4>4. wire[1] = [unit |-> Len(got) + 1, part |-> 1]
        BY <2>5, <2>7, <3>1, <4>2
      <4>5. Head(record \o wire) = Head(wire)
        BY ONLY <4>1
      <4> QED
        BY ONLY <4>3, <4>4, <4>5
    <3>2. CASE record # <<>>
      <4>1. /\ record \o wire \in Seq(Pieces) /\ Len(record \o wire) = 2 + Len(wire)
            /\ (record \o wire)[1] = record[1]
        <5>1. record \in Seq(Pieces) /\ wire \in Seq(Pieces) /\ Len(record) = 2 /\ Len(wire) \in Nat
          BY <2>3, <3>2
        <5>2. \A i \in 1..Len(record) + Len(wire) :
                (record \o wire)[i] = IF i <= Len(record) THEN record[i] ELSE wire[i - Len(record)]
          BY ONLY <5>1, ConcatProperties
        <5>3. record \o wire \in Seq(Pieces) /\ Len(record \o wire) = Len(record) + Len(wire)
          BY ONLY <5>1, ConcatProperties
        <5> QED
          BY ONLY <5>1, <5>2, <5>3
      <4>2. Head(record \o wire) = record[1]
        BY <2>7, <4>1, QueueFacts
      <4> QED
        BY <1>3, <2>1, <2>4, <2>7, <3>2, <4>2 DEF SecureInv
    <3> QED
      BY <3>1, <3>2
  <2> QED
    BY <2>2, <2>5, <2>6, <2>7
<1>4. Link!TimeoutKeeps
  BY <1>3 DEF Link!TimeoutKeeps
<1> QED
  BY <1>1, <1>2, <1>4 DEF Link!StreamTrue

-----------------------------------------------------------------------------
(* The reverse proxy *)

\* client->th_ctrl names the control thread until it has left its loop (reverse_proxy.c:519), and no
\* thread runs while the client is being started.
HandleState ==
  /\ thCtrl = "ctrl" <=> cpc \in {"head", "recv", "down"}
  /\ app = "starting" => cpc = "none"

\* Every running connection thread is the one in th_conn or has been dropped (reverse_proxy.c:497).
ConnsNamed == \A c \in Conns : Reverse!Alive(c) => c = thConn \/ c \in dropped

\* The last connection thread is over when the control thread has joined it (line 522).
LastJoined ==
  /\ cpc = "none" => \A c \in Conns : pc[c] = "none"
  /\ cpc \in {"bye", "dead"} => \A c \in Conns : c = thConn => pc[c] = "dead"

\* A client that free is about to release has no control thread (reverse_proxy.c:652), unless free
\* did not see it.
FreeWaited ==
  /\ freed => app = "done"
  /\ app \in {"end", "done"} => cpc \in {"none", "dead"} \/ early

\* Once free has begun and no request to connect was under way, none is read and no connection
\* thread is about to look through client->parent (reverse_proxy.c:353, 511, 649).
OpenWindow ==
  /\ app \in {"idle", "starting"} => parent
  /\ nulled => ~parent
  /\ ~parent /\ ~opening => cpc # "recv" /\ \A c \in Conns : pc[c] # "open"
  /\ Reverse!OnlyWhileOpening

ReverseSafe ==
  /\ Reverse!TypeOK /\ HandleState /\ ConnsNamed /\ LastJoined /\ FreeWaited
  /\ Reverse!NoUseAfterFree /\ OpenWindow

LEMMA ReverseSafeStarts == Reverse!Init => ReverseSafe
<1> SUFFICES ASSUME Reverse!Init PROVE ReverseSafe
    OBVIOUS
<1> USE ReverseAssumption
<1>1. Reverse!TypeOK
  <2>1. hostGot \in [Reverse!Sessions -> Seq(Nat)]
        BY <<>> \in Seq(Nat) DEF Reverse!Init
  <2> QED BY <2>1 DEF Reverse!Init, Reverse!TypeOK, Reverse!AppPcs, Reverse!CtrlPcs, Reverse!ConnPcs
<1>2. HandleState /\ ConnsNamed /\ LastJoined /\ FreeWaited /\ Reverse!NoUseAfterFree
      BY DEF Reverse!Init, HandleState, ConnsNamed, LastJoined, FreeWaited, Reverse!NoUseAfterFree,
             Reverse!Alive
<1>3. OpenWindow
      BY DEF Reverse!Init, OpenWindow, Reverse!OnlyWhileOpening
<1> QED BY <1>1, <1>2, <1>3 DEF ReverseSafe

LEMMA ControlKeeps == ReverseSafe /\ Reverse!ControlThread => ReverseSafe'
<1> SUFFICES ASSUME ReverseSafe, Reverse!ControlThread PROVE ReverseSafe'
    OBVIOUS
<1> USE ReverseAssumption DEF ReverseSafe, Reverse!UseClient, Reverse!CtrlAlive, Reverse!Alive
<1>1. Reverse!TypeOK'
  <2>1. /\ cpc' \in Reverse!CtrlPcs /\ thCtrl' \in {"none", "ctrl"}
        /\ thConn' \in Conns \union {0} /\ dropped' \subseteq Conns
        BY DEF Reverse!TypeOK, Reverse!CtrlPcs, Reverse!ControlThread, Reverse!CtrlHead,
               Reverse!CtrlNothing, Reverse!CtrlStop, Reverse!CtrlConnect, Reverse!CtrlDown,
               Reverse!CtrlJoin, Reverse!CtrlBye, Reverse!clientVars
  <2>2. used' \in BOOLEAN
        BY Zenon
        DEF Reverse!TypeOK, Reverse!ControlThread, Reverse!CtrlHead, Reverse!CtrlNothing,
            Reverse!CtrlStop, Reverse!CtrlConnect, Reverse!CtrlDown, Reverse!CtrlJoin,
            Reverse!CtrlBye
  <2>3. pc' \in [Conns -> Reverse!ConnPcs]
        BY DEF Reverse!TypeOK, Reverse!ConnPcs, Reverse!ControlThread, Reverse!CtrlHead,
               Reverse!CtrlNothing, Reverse!CtrlStop, Reverse!CtrlConnect, Reverse!CtrlDown,
               Reverse!CtrlJoin, Reverse!CtrlBye, Reverse!connVars, Reverse!Goto
  <2>4. UNCHANGED <<app, parent, freed, early, res, taken, fd, sess, open, begun, hostGot, nsess, foreign,
                    nulled, opening>>
        BY Zenon
        DEF Reverse!ControlThread, Reverse!CtrlHead, Reverse!CtrlNothing, Reverse!CtrlStop,
            Reverse!CtrlConnect, Reverse!CtrlDown, Reverse!CtrlJoin, Reverse!CtrlBye,
            Reverse!clientVars, Reverse!connVars, Reverse!hostVars, Reverse!crash
  <2> HIDE DEF ReverseSafe
  <2>5. Reverse!TypeOK
        BY DEF ReverseSafe
  <2> QED BY ONLY <2>1, <2>2, <2>3, <2>4, <2>5 DEF Reverse!TypeOK
<1>2. HandleState'
      BY DEF HandleState, Reverse!ControlThread, Reverse!CtrlHead, Reverse!CtrlNothing,
             Reverse!CtrlStop, Reverse!CtrlConnect, Reverse!CtrlDown, Reverse!CtrlJoin,
             Reverse!CtrlBye, Reverse!clientVars
<1>3. ConnsNamed'
  <2>1. CASE Reverse!CtrlConnect
    <3>1. \/ pc' = pc /\ (thConn # 0 => thConn \in dropped') /\ dropped \subseteq dropped'
          \/ \E c \in Conns : /\ thConn' = c /\ pc' = [pc EXCEPT ![c] = "open"]
                              /\ (thConn # 0 => thConn \in dropped') /\ dropped \subseteq dropped'
          BY <2>1 DEF Reverse!CtrlConnect, Reverse!Goto
    <3>2. 0 \notin Conns /\ pc \in [Conns -> Reverse!ConnPcs]
          BY DEF Reverse!TypeOK
    <3> QED BY <3>1, <3>2 DEF ConnsNamed
  <2> QED
    BY <2>1
    DEF ConnsNamed, Reverse!ControlThread, Reverse!CtrlHead, Reverse!CtrlNothing, Reverse!CtrlStop,
        Reverse!CtrlDown, Reverse!CtrlJoin, Reverse!CtrlBye, Reverse!connVars
<1>4. LastJoined'
      BY DEF LastJoined, Reverse!ControlThread, Reverse!CtrlHead, Reverse!CtrlNothing,
             Reverse!CtrlStop, Reverse!CtrlConnect, Reverse!CtrlDown, Reverse!CtrlJoin,
             Reverse!CtrlBye, Reverse!connVars
<1>5. FreeWaited'
      BY DEF FreeWaited, Reverse!ControlThread, Reverse!CtrlHead, Reverse!CtrlNothing,
             Reverse!CtrlStop, Reverse!CtrlConnect, Reverse!CtrlDown, Reverse!CtrlJoin,
             Reverse!CtrlBye, Reverse!clientVars
<1>6. Reverse!NoUseAfterFree'
  <2>1. cpc \notin {"none", "dead"}
        BY DEF Reverse!ControlThread, Reverse!CtrlHead, Reverse!CtrlNothing, Reverse!CtrlStop,
               Reverse!CtrlConnect, Reverse!CtrlDown, Reverse!CtrlJoin, Reverse!CtrlBye
  <2>2. freed => early
        BY <2>1 DEF FreeWaited
  <2>3. early' = early /\ (used' = used \/ used' = (used \/ freed))
        BY Zenon
        DEF Reverse!ControlThread, Reverse!CtrlHead, Reverse!CtrlNothing, Reverse!CtrlStop,
            Reverse!CtrlConnect, Reverse!CtrlDown, Reverse!CtrlJoin, Reverse!CtrlBye,
            Reverse!clientVars
  <2>4. dropped # {} => dropped' # {}
        BY DEF Reverse!ControlThread, Reverse!CtrlHead, Reverse!CtrlNothing, Reverse!CtrlStop,
               Reverse!CtrlConnect, Reverse!CtrlDown, Reverse!CtrlJoin, Reverse!CtrlBye
  <2> QED BY <2>2, <2>3, <2>4 DEF Reverse!NoUseAfterFree
<1>7. OpenWindow'
  <2>1. UNCHANGED <<app, parent, nulled, opening>>
        BY Zenon
        DEF Reverse!ControlThread, Reverse!CtrlHead, Reverse!CtrlNothing, Reverse!CtrlStop,
            Reverse!CtrlConnect, Reverse!CtrlDown, Reverse!CtrlJoin, Reverse!CtrlBye,
            Reverse!clientVars, Reverse!crash
  <2>2. cpc' = "recv" => parent
        BY DEF Reverse!ControlThread, Reverse!CtrlHead, Reverse!CtrlNothing, Reverse!CtrlStop,
               Reverse!CtrlConnect, Reverse!CtrlDown, Reverse!CtrlJoin, Reverse!CtrlBye
  <2>3. cpc = "recv" \/ pc' = pc
        BY Zenon
        DEF Reverse!ControlThread, Reverse!CtrlHead, Reverse!CtrlNothing, Reverse!CtrlStop,
            Reverse!CtrlConnect, Reverse!CtrlDown, Reverse!CtrlJoin, Reverse!CtrlBye,
            Reverse!connVars
  <2> QED BY <2>1, <2>2, <2>3 DEF OpenWindow, Reverse!OnlyWhileOpening
<1> QED BY <1>1, <1>2, <1>3, <1>4, <1>5, <1>6, <1>7

LEMMA ApplicationKeeps == ReverseSafe /\ Reverse!Application => ReverseSafe'
<1> SUFFICES ASSUME ReverseSafe, Reverse!Application PROVE ReverseSafe'
    OBVIOUS
<1> USE ReverseAssumption
    DEF ReverseSafe, Reverse!CtrlAlive, Reverse!Alive, Reverse!Application, Reverse!Start,
        Reverse!StartFails, Reverse!StartThread, Reverse!Free, Reverse!FreeSteps, Reverse!FreeLook,
        Reverse!FreeReread, Reverse!FreeJoin, Reverse!FreeEnd, Reverse!ctrlVars, Reverse!connVars,
        Reverse!hostVars, Reverse!crash
<1>1. Reverse!TypeOK'
  <2>1. app' \in Reverse!AppPcs /\ thCtrl' \in {"none", "ctrl"} /\ cpc' \in Reverse!CtrlPcs
        BY DEF Reverse!TypeOK, Reverse!AppPcs, Reverse!CtrlPcs
  <2>2. parent' \in BOOLEAN /\ freed' \in BOOLEAN /\ early' \in BOOLEAN
        BY Zenon DEF Reverse!TypeOK
  <2>3. UNCHANGED <<thConn, dropped, pc, res, taken, fd, sess, open, begun, hostGot, nsess, foreign, used,
                    nulled>>
        BY Zenon
  <2>4. opening' \in BOOLEAN
    <3>1. opening' = opening \/ opening' = (cpc = "recv" \/ \E c \in Conns : pc[c] = "open")
          BY Zenon
    <3> QED BY <3>1, Zenon DEF Reverse!TypeOK
  <2> HIDE DEF ReverseSafe
  <2>5. Reverse!TypeOK
        BY DEF ReverseSafe
  <2> QED BY ONLY <2>1, <2>2, <2>3, <2>4, <2>5 DEF Reverse!TypeOK
<1>2. HandleState'
      BY DEF HandleState
<1>3. ConnsNamed' /\ LastJoined'
      BY DEF ConnsNamed, LastJoined, HandleState
<1>4. FreeWaited'
  <2>1. cpc \notin {"head", "recv", "down"} /\ cpc \notin {"none", "dead"} => Reverse!CtrlAlive
        BY DEF Reverse!CtrlAlive
  <2>2. CASE Reverse!FreeLook
        BY <2>2 DEF FreeWaited
  <2>3. CASE Reverse!FreeReread
        BY <2>3 DEF FreeWaited
  <2> QED BY <2>2, <2>3 DEF FreeWaited
<1>5. Reverse!NoUseAfterFree'
      BY DEF Reverse!NoUseAfterFree
<1>6. OpenWindow'
  <2>1. CASE Reverse!Free
    <3>1. /\ ~nulled /\ nulled' = nulled /\ app' = "look" /\ ~parent'
          /\ ~opening' => cpc' # "recv" /\ \A c \in Conns : pc'[c] # "open"
          BY <2>1 DEF OpenWindow, Reverse!clientVars
    <3> QED BY ONLY <3>1 DEF OpenWindow, Reverse!OnlyWhileOpening
  <2>2. CASE ~Reverse!Free
    <3>1. UNCHANGED <<parent, nulled, opening, pc>> /\ (cpc' = "recv" => cpc = "recv")
          BY <2>2
    <3>2. app' \in {"idle", "starting"} => app \in {"idle", "starting"}
          BY <2>2
    <3>3. OpenWindow
          OBVIOUS
    <3> QED BY ONLY <3>1, <3>2, <3>3 DEF OpenWindow, Reverse!OnlyWhileOpening
  <2> QED BY <2>1, <2>2
<1> QED BY <1>1, <1>2, <1>3, <1>4, <1>5, <1>6

LEMMA ConnectionTypes == ReverseSafe /\ (\E c \in Conns : Reverse!ConnectionThread(c)) => Reverse!TypeOK'
<1> SUFFICES ASSUME ReverseSafe, NEW c \in Conns, Reverse!ConnectionThread(c) PROVE Reverse!TypeOK'
    OBVIOUS
<1> USE ReverseAssumption
    DEF ReverseSafe, Reverse!TypeOK, Reverse!Goto, Reverse!clientVars, Reverse!ctrlVars,
        Reverse!connVars, Reverse!hostVars, Reverse!ConnPcs, Reverse!crash
<1>1. CASE \/ Reverse!ConnOpen(c) \/ Reverse!ConnConnect(c) \/ Reverse!ConnHello(c)
           \/ Reverse!ConnHead(c) \/ Reverse!ConnPlist(c) \/ Reverse!ConnLeave(c)
      BY <1>1, ZenonT(30)
      DEF Reverse!ConnOpen, Reverse!ConnConnect, Reverse!ConnHello, Reverse!ConnHead, Reverse!ConnPlist,
          Reverse!ConnLeave, Reverse!UseClient
<1>2. CASE Reverse!ConnReceive(c)
  <2>1. pc' \in [Conns -> Reverse!ConnPcs]
        BY <1>2 DEF Reverse!ConnReceive
  <2>2. taken' = taken \/ taken' = [taken EXCEPT ![c] = taken[c] + 1]
        BY <1>2, Zenon DEF Reverse!ConnReceive, Reverse!Take
  <2>3. taken[c] + 1 \in Nat
        BY SMT
  <2>4. taken' \in [Conns -> Nat]
        BY <2>2, <2>3
  <2> QED BY <1>2, <2>1, <2>4 DEF Reverse!ConnReceive
<1>3. CASE Reverse!ConnProxy(c)
  <2>1. pc' \in [Conns -> Reverse!ConnPcs]
        BY <1>3 DEF Reverse!ConnProxy
  <2>2. fd' \in [Conns -> Fds \union {0}]
        BY <1>3 DEF Reverse!ConnProxy, Reverse!FreeFd
  <2>3. nsess + 1 \in Nat /\ taken[c] \in Nat
        BY SMT
  <2>4. nsess' \in Nat /\ sess' \in [Conns -> Nat]
        BY <1>3, <2>3 DEF Reverse!ConnProxy
  <2>5. begun' \in [Reverse!Sessions -> Nat]
        BY <1>3, <2>3 DEF Reverse!ConnProxy
  <2>6. open' = open \/ \E f \in Fds : open' = [open EXCEPT ![f] = nsess + 1]
        BY <1>3 DEF Reverse!ConnProxy, Reverse!FreeFd
  <2>7. open' \in [Fds -> Nat]
        BY <2>3, <2>6
  <2> QED BY <1>3, <2>1, <2>2, <2>4, <2>5, <2>7 DEF Reverse!ConnProxy
<1>4. CASE Reverse!OutNothing(c) \/ Reverse!In(c)
      BY <1>4, ZenonT(30) DEF Reverse!OutNothing, Reverse!In
<1>5. ASSUME Reverse!Take(c) PROVE taken' \in [Conns -> Nat] /\ taken'[c] \in Nat
  <2>1. taken[c] + 1 \in Nat
        BY SMT
  <2> QED BY <1>5, <2>1 DEF Reverse!Take
<1>6. ASSUME Reverse!CloseFd(c) PROVE open' \in [Fds -> Nat] /\ foreign' \in BOOLEAN
  <2>1. open' = [open EXCEPT ![fd[c]] = 0] /\ 0 \in Nat
        BY <1>6 DEF Reverse!CloseFd
  <2>2. open' \in [Fds -> Nat]
        BY <2>1
  <2> QED BY <1>6, <2>2 DEF Reverse!CloseFd
<1>7. CASE Reverse!OutFails(c)
  <2>1. pc' \in [Conns -> Reverse!ConnPcs] /\ res' \in [Conns -> {"ok", "error"}]
        BY <1>7 DEF Reverse!OutFails
  <2>2. Reverse!Take(c) /\ Reverse!CloseFd(c)
        BY <1>7 DEF Reverse!OutFails
  <2> QED BY <1>7, <2>1, <2>2, <1>5, <1>6 DEF Reverse!OutFails
<1>8. CASE Reverse!Out(c)
  <2>1. Reverse!Take(c) /\ pc' \in [Conns -> Reverse!ConnPcs]
        BY <1>8 DEF Reverse!Out
  <2>2. hostGot' \in [Reverse!Sessions -> Seq(Nat)]
    <3> DEFINE s == open[fd[c]]
    <3>1. CASE s \in Reverse!Sessions
      <4>1. hostGot[s] \in Seq(Nat) /\ taken'[c] \in Nat
            BY <3>1, <2>1, <1>5
      <4>2. Append(hostGot[s], taken'[c]) \in Seq(Nat)
            BY <4>1
      <4> QED BY <1>8, <4>2, <3>1 DEF Reverse!Out
    <3>2. CASE s \notin Reverse!Sessions
          BY <1>8, <3>2 DEF Reverse!Out
    <3> QED BY <3>1, <3>2
  <2> QED BY <1>8, <2>1, <2>2, <1>5 DEF Reverse!Out
<1>9. CASE Reverse!Close(c)
  <2>1. pc' \in [Conns -> Reverse!ConnPcs] /\ res' \in [Conns -> {"ok", "error"}]
        BY <1>9 DEF Reverse!Close
  <2>2. Reverse!CloseFd(c)
        BY <1>9 DEF Reverse!Close
  <2>3. fd' \in [Conns -> Fds \union {0}] /\ sess' \in [Conns -> Nat]
        BY <1>9 DEF Reverse!Close
  <2>4. begun' \in [Reverse!Sessions -> Nat]
        BY <1>9 DEF Reverse!Close
  <2>5. hostGot' \in [Reverse!Sessions -> Seq(Nat)]
        BY <1>9, <<>> \in Seq(Nat) DEF Reverse!Close
  <2> QED BY <1>9, <2>1, <2>2, <2>3, <2>4, <2>5, <1>6 DEF Reverse!Close
<1> QED BY <1>1, <1>2, <1>3, <1>4, <1>7, <1>8, <1>9 DEF Reverse!ConnectionThread

\* What a connection thread does for the others: it stays alive or ends, and leaves client
\* and control thread alone.
LEMMA ConnectionFrame ==
  ASSUME ReverseSafe, NEW c \in Conns, Reverse!ConnectionThread(c)
  PROVE  /\ Reverse!Alive(c)
         /\ UNCHANGED <<app, parent, thCtrl, freed, early, cpc, thConn, dropped, opening>>
         /\ pc'[c] \notin {"none", "open"} /\ \A d \in Conns \ {c} : pc'[d] = pc[d]
         /\ used' = used \/ used' = (used \/ freed)
<1> USE DEF ReverseSafe, Reverse!TypeOK, Reverse!Goto, Reverse!Alive, Reverse!clientVars,
            Reverse!ctrlVars, Reverse!UseClient, Reverse!crash
<1>1. CASE \/ Reverse!ConnOpen(c) \/ Reverse!ConnConnect(c) \/ Reverse!ConnHello(c)
           \/ Reverse!ConnHead(c) \/ Reverse!ConnPlist(c) \/ Reverse!ConnLeave(c)
           \/ Reverse!ConnReceive(c)
      BY <1>1
      DEF Reverse!ConnOpen, Reverse!ConnConnect, Reverse!ConnHello, Reverse!ConnHead, Reverse!ConnPlist,
          Reverse!ConnLeave, Reverse!ConnReceive
<1>2. CASE \/ Reverse!ConnProxy(c) \/ Reverse!OutNothing(c) \/ Reverse!In(c)
           \/ Reverse!OutFails(c) \/ Reverse!Out(c) \/ Reverse!Close(c)
      BY <1>2
      DEF Reverse!ConnProxy, Reverse!OutNothing, Reverse!In, Reverse!OutFails, Reverse!Out,
          Reverse!Close
<1> QED BY <1>1, <1>2 DEF Reverse!ConnectionThread

\* It looks through client->parent only as it starts.
LEMMA ParentLooked ==
  ASSUME NEW c \in Conns, Reverse!ConnectionThread(c)
  PROVE  nulled' = nulled \/ (pc[c] = "open" /\ nulled' = (nulled \/ (~freed /\ ~parent)))
<1> USE DEF Reverse!crash
<1>1. CASE Reverse!ConnOpen(c)
      BY <1>1, Zenon DEF Reverse!ConnOpen
<1>2. CASE \/ Reverse!ConnConnect(c) \/ Reverse!ConnHello(c) \/ Reverse!ConnHead(c)
           \/ Reverse!ConnPlist(c) \/ Reverse!ConnLeave(c) \/ Reverse!ConnReceive(c)
      BY <1>2, Zenon
      DEF Reverse!ConnConnect, Reverse!ConnHello, Reverse!ConnHead, Reverse!ConnPlist,
          Reverse!ConnLeave, Reverse!ConnReceive
<1>3. CASE \/ Reverse!ConnProxy(c) \/ Reverse!OutNothing(c) \/ Reverse!In(c)
           \/ Reverse!OutFails(c) \/ Reverse!Out(c) \/ Reverse!Close(c)
      BY <1>3, Zenon
      DEF Reverse!ConnProxy, Reverse!OutNothing, Reverse!In, Reverse!OutFails, Reverse!Out,
          Reverse!Close
<1> QED BY <1>1, <1>2, <1>3 DEF Reverse!ConnectionThread

LEMMA ConnectionKeeps == ReverseSafe /\ (\E c \in Conns : Reverse!ConnectionThread(c)) => ReverseSafe'
<1> SUFFICES ASSUME ReverseSafe, NEW c \in Conns, Reverse!ConnectionThread(c) PROVE ReverseSafe'
    OBVIOUS
<1>1. /\ Reverse!Alive(c)
      /\ UNCHANGED <<app, parent, thCtrl, freed, early, cpc, thConn, dropped, opening>>
      /\ pc'[c] \notin {"none", "open"} /\ \A d \in Conns \ {c} : pc'[d] = pc[d]
      /\ used' = used \/ used' = (used \/ freed)
      BY ConnectionFrame
<1>2. Reverse!TypeOK'
      BY ConnectionTypes
<1>3. HandleState' /\ FreeWaited'
      BY <1>1 DEF ReverseSafe, HandleState, FreeWaited
<1>4. ConnsNamed' /\ LastJoined'
      BY <1>1 DEF ReverseSafe, ConnsNamed, LastJoined, Reverse!Alive
<1>5. Reverse!NoUseAfterFree'
      BY <1>1
      DEF ReverseSafe, Reverse!NoUseAfterFree, FreeWaited, LastJoined, ConnsNamed, Reverse!Alive
<1>6. OpenWindow'
  <2>1. nulled' = nulled \/ (pc[c] = "open" /\ nulled' = (nulled \/ (~freed /\ ~parent)))
        BY ParentLooked
  <2>2. OpenWindow
        BY DEF ReverseSafe
  <2>3. (\A d \in Conns : pc[d] # "open") => \A d \in Conns : pc'[d] # "open"
        BY <1>1
  <2>4. nulled' => nulled \/ (~parent /\ opening)
        BY <2>1, <2>2 DEF OpenWindow
  <2> QED BY <1>1, <2>2, <2>3, <2>4 DEF OpenWindow, Reverse!OnlyWhileOpening
<1> QED BY <1>2, <1>3, <1>4, <1>5, <1>6 DEF ReverseSafe

InRelay == {"out", "in", "close"}

\* A thread that relays has a session and a socket of its own.
SessionOK ==
  /\ nsess \in 0..MaxSess
  /\ \A c \in Conns : IF pc[c] \in InRelay THEN sess[c] \in 1..nsess /\ fd[c] \in Fds ELSE sess[c] = 0
  /\ \A c, d \in Conns : sess[c] = sess[d] /\ sess[c] # 0 => c = d

\* Until a close hits the socket of another thread, a thread in its relay has its socket open.
SocketOK == ~foreign => \A c \in Conns : pc[c] \in {"out", "in"} => open[fd[c]] = sess[c]

\* Its host has all that the thread has read since the request.
HostOK ==
  ~foreign =>
    /\ \A s \in Reverse!Sessions : s > nsess => hostGot[s] = <<>>
    /\ \A c \in Conns : pc[c] \in {"out", "in"} => taken[c] = begun[sess[c]] + Len(hostGot[sess[c]])

RelayInv == SessionOK /\ SocketOK /\ HostOK /\ Reverse!RelayFaithful

\* A step that begins and closes no relay and sends nothing to a host.
LEMMA RelayKept ==
  ASSUME Reverse!TypeOK, RelayInv, UNCHANGED <<fd, sess, Reverse!hostVars>>,
         \A c \in Conns : /\ pc'[c] \in InRelay <=> pc[c] \in InRelay
                          /\ pc'[c] \in {"out", "in"} => pc[c] \in {"out", "in"} /\ taken'[c] = taken[c]
  PROVE  RelayInv'
<1>1. SessionOK'
      BY DEF RelayInv, SessionOK, Reverse!hostVars
<1>2. SocketOK'
      BY DEF RelayInv, SocketOK, Reverse!hostVars
<1>3. HostOK'
      BY DEF RelayInv, HostOK, Reverse!hostVars
<1>4. Reverse!RelayFaithful'
      BY DEF RelayInv, Reverse!RelayFaithful, Reverse!hostVars
<1> QED BY <1>1, <1>2, <1>3, <1>4 DEF RelayInv

\* A session gets a number and a descriptor that nobody has.
LEMMA RelayBegins ==
  ASSUME Reverse!TypeOK, RelayInv, NEW c \in Conns, Reverse!ConnProxy(c), pc'[c] = "out"
  PROVE  RelayInv'
<1> USE ReverseAssumption
<1>1. PICK f \in Fds : /\ open[f] = 0 /\ fd' = [fd EXCEPT ![c] = f]
                       /\ open' = [open EXCEPT ![f] = nsess + 1]
  <2>1. Reverse!Goto(c, "head") \/ Reverse!Goto(c, "leave") => pc'[c] # "out"
        BY DEF Reverse!Goto, Reverse!TypeOK
  <2>2. \E f \in Reverse!FreeFd : fd' = [fd EXCEPT ![c] = f] /\ open' = [open EXCEPT ![f] = nsess + 1]
        BY <2>1 DEF Reverse!ConnProxy
  <2> QED BY <2>2 DEF Reverse!FreeFd
<1>2. /\ pc[c] = "proxy" /\ nsess < MaxSess /\ pc' = [pc EXCEPT ![c] = "out"]
      /\ nsess' = nsess + 1 /\ sess' = [sess EXCEPT ![c] = nsess + 1]
      /\ begun' = [begun EXCEPT ![nsess + 1] = taken[c]]
      /\ UNCHANGED <<hostGot, foreign, taken>>
  <2>1. Reverse!Goto(c, "head") \/ Reverse!Goto(c, "leave") => pc'[c] # "out"
        BY DEF Reverse!Goto, Reverse!TypeOK
  <2> QED BY <2>1 DEF Reverse!ConnProxy, Reverse!Goto
<1>3. /\ nsess \in Nat /\ nsess + 1 \in Reverse!Sessions /\ sess[c] = 0
      /\ sess'[c] = nsess + 1 /\ fd'[c] = f /\ open'[f] = nsess + 1 /\ begun'[nsess + 1] = taken[c]
  <2>1. nsess \in Nat /\ nsess + 1 \in Reverse!Sessions
        BY <1>2 DEF RelayInv, SessionOK, Reverse!Sessions
  <2>2. sess[c] = 0
        BY <1>2 DEF RelayInv, SessionOK, InRelay
  <2> QED BY <1>1, <1>2, <2>1, <2>2 DEF Reverse!TypeOK
<1>4. \A d \in Conns \ {c} : /\ pc'[d] = pc[d] /\ sess'[d] = sess[d] /\ fd'[d] = fd[d]
                             /\ sess[d] \in 0..nsess
  <2>1. \A d \in Conns : sess[d] \in 0..nsess
        BY <1>3 DEF RelayInv, SessionOK
  <2> QED BY <1>1, <1>2, <2>1 DEF Reverse!TypeOK
<1>5. SessionOK'
  <2>1. nsess' \in 0..MaxSess
        BY <1>2, <1>3
  <2>2. \A d \in Conns : IF pc'[d] \in InRelay THEN sess'[d] \in 1..nsess' /\ fd'[d] \in Fds ELSE sess'[d] = 0
    <3>1. pc'[c] \in InRelay /\ sess'[c] \in 1..nsess' /\ fd'[c] \in Fds
          BY <1>2, <1>3 DEF InRelay
    <3>2. ASSUME NEW d \in Conns \ {c}
          PROVE  IF pc'[d] \in InRelay THEN sess'[d] \in 1..nsess' /\ fd'[d] \in Fds ELSE sess'[d] = 0
      <4>1. IF pc[d] \in InRelay THEN sess[d] \in 1..nsess /\ fd[d] \in Fds ELSE sess[d] = 0
            BY DEF RelayInv, SessionOK
      <4>2. 1..nsess \subseteq 1..nsess'
            BY <1>2, <1>3
      <4> QED BY <1>4, <4>1, <4>2
    <3> QED BY <3>1, <3>2
  <2>3. \A d, e \in Conns : sess'[d] = sess'[e] /\ sess'[d] # 0 => d = e
    <3>1. \A d \in Conns \ {c} : sess'[d] # nsess + 1
          BY <1>3, <1>4
    <3> QED BY <1>3, <1>4, <3>1 DEF RelayInv, SessionOK
  <2> QED BY <2>1, <2>2, <2>3 DEF SessionOK
<1>6. SocketOK'
  <2> SUFFICES ASSUME ~foreign, NEW d \in Conns, pc'[d] \in {"out", "in"} PROVE open'[fd'[d]] = sess'[d]
      BY <1>2 DEF SocketOK
  <2>1. CASE d = c
        BY <1>3, <2>1
  <2>2. CASE d # c
    <3>1. open[fd[d]] = sess[d] /\ pc[d] \in InRelay
          BY <1>4, <2>2 DEF RelayInv, SocketOK, InRelay
    <3>2. sess[d] # 0 /\ fd[d] \in Fds
          BY <1>3, <3>1 DEF RelayInv, SessionOK
    <3>3. fd[d] # f
          BY <1>1, <3>1, <3>2
    <3> QED BY <1>1, <1>4, <2>2, <3>1, <3>3
  <2> QED BY <2>1, <2>2
<1>7. HostOK'
  <2> SUFFICES ASSUME ~foreign
               PROVE  /\ \A s \in Reverse!Sessions : s > nsess' => hostGot[s] = <<>>
                      /\ \A d \in Conns : pc'[d] \in {"out", "in"}
                                            => taken[d] = begun'[sess'[d]] + Len(hostGot[sess'[d]])
      BY <1>2 DEF HostOK
  <2>1. \A s \in Reverse!Sessions : s > nsess => hostGot[s] = <<>>
        BY DEF RelayInv, HostOK
  <2>2. \A s \in Reverse!Sessions : s > nsess' => hostGot[s] = <<>>
        BY <1>2, <1>3, <2>1 DEF Reverse!Sessions
  <2>3. taken[c] = begun'[sess'[c]] + Len(hostGot[sess'[c]])
    <3>1. hostGot[nsess + 1] = <<>> /\ taken[c] \in Nat
          BY <1>3, <2>1 DEF Reverse!TypeOK
    <3> QED BY <1>3, <3>1
  <2>4. ASSUME NEW d \in Conns \ {c}, pc'[d] \in {"out", "in"}
        PROVE  taken[d] = begun'[sess'[d]] + Len(hostGot[sess'[d]])
    <3>1. taken[d] = begun[sess[d]] + Len(hostGot[sess[d]])
          BY <1>4, <2>4 DEF RelayInv, HostOK
    <3>2. sess[d] # nsess + 1
          BY <1>3, <1>4
    <3> QED BY <1>2, <1>4, <3>1, <3>2
  <2> QED BY <2>2, <2>3, <2>4
<1>8. Reverse!RelayFaithful'
  <2> SUFFICES ASSUME ~foreign, NEW s \in Reverse!Sessions, NEW i \in 1..Len(hostGot[s])
               PROVE  hostGot[s][i] = begun'[s] + i
      BY <1>2 DEF Reverse!RelayFaithful
  <2>1. s # nsess + 1
    <3>1. hostGot[nsess + 1] = <<>>
          BY <1>3 DEF RelayInv, HostOK
    <3> QED BY <3>1
  <2> QED BY <1>2, <2>1 DEF RelayInv, Reverse!RelayFaithful
<1> QED BY <1>5, <1>6, <1>7, <1>8 DEF RelayInv

\* A close that hits no other thread's socket leaves the other relays as they are.
LEMMA RelayCloses ==
  ASSUME Reverse!TypeOK, RelayInv, NEW c \in Conns, Reverse!CloseFd(c), pc[c] \in InRelay,
         pc'[c] \notin {"out", "in"},
         \A d \in Conns \ {c} : pc'[d] = pc[d] /\ sess'[d] = sess[d] /\ fd'[d] = fd[d] /\ taken'[d] = taken[d],
         nsess' = nsess,
         IF pc'[c] \in InRelay THEN sess'[c] = sess[c] /\ fd'[c] = fd[c] ELSE sess'[c] = 0,
         \/ UNCHANGED <<begun, hostGot>>
         \/ /\ begun' = [begun EXCEPT ![sess[c]] = 0]
            /\ hostGot' = [hostGot EXCEPT ![sess[c]] = <<>>]
  PROVE  RelayInv'
<1>1. SessionOK'
      BY DEF RelayInv, SessionOK
<1>2. foreign' \/ (~foreign /\ open[fd[c]] \in {0, sess[c]})
      BY DEF Reverse!CloseFd
<1>3. \A d \in Conns : pc'[d] \in {"out", "in"} => d # c /\ pc[d] \in {"out", "in"} /\ sess[d] # 0 /\ sess[d] # sess[c]
  <2>1. \A d \in Conns \ {c} : pc[d] \in InRelay => sess[d] # 0 /\ sess[d] # sess[c]
    <3>1. \A d \in Conns : pc[d] \in InRelay => sess[d] \in 1..nsess /\ nsess \in Nat
          BY DEF RelayInv, SessionOK
    <3>2. \A d \in Conns : sess[d] = sess[c] /\ sess[d] # 0 => d = c
          BY DEF RelayInv, SessionOK
    <3> QED BY <3>1, <3>2
  <2> QED BY <2>1 DEF InRelay
<1>4. SocketOK'
  <2> SUFFICES ASSUME ~foreign', NEW d \in Conns, pc'[d] \in {"out", "in"} PROVE open'[fd'[d]] = sess'[d]
      BY DEF SocketOK
  <2>1. open[fd[d]] = sess[d] /\ fd[d] # fd[c]
        BY <1>2, <1>3 DEF RelayInv, SocketOK
  <2> QED BY <1>3, <2>1 DEF Reverse!CloseFd
<1>5. HostOK'
  <2> SUFFICES ASSUME ~foreign'
               PROVE  /\ \A s \in Reverse!Sessions : s > nsess => hostGot'[s] = <<>>
                      /\ \A d \in Conns : pc'[d] \in {"out", "in"}
                                            => taken'[d] = begun'[sess'[d]] + Len(hostGot'[sess'[d]])
      BY DEF HostOK
  <2>1. \A s \in Reverse!Sessions : s > nsess => hostGot'[s] = <<>>
        BY <1>2 DEF RelayInv, HostOK, Reverse!TypeOK
  <2>2. ASSUME NEW d \in Conns, pc'[d] \in {"out", "in"}
        PROVE  taken'[d] = begun'[sess'[d]] + Len(hostGot'[sess'[d]])
    <3>1. taken[d] = begun[sess[d]] + Len(hostGot[sess[d]])
          BY <1>2, <1>3, <2>2 DEF RelayInv, HostOK
    <3>2. taken'[d] = taken[d] /\ sess'[d] = sess[d] /\ sess[d] # sess[c] /\ sess[d] \in Reverse!Sessions
      <4>1. sess[d] \in 1..nsess /\ nsess \in 0..MaxSess
            BY <1>3, <2>2 DEF RelayInv, SessionOK, InRelay
      <4> QED BY <1>3, <2>2, <4>1, ReverseAssumption DEF Reverse!Sessions
    <3>3. begun'[sess[d]] = begun[sess[d]] /\ hostGot'[sess[d]] = hostGot[sess[d]]
          BY <3>2 DEF Reverse!TypeOK
    <3> QED BY <3>1, <3>2, <3>3
  <2> QED BY <2>1, <2>2
<1>6. Reverse!RelayFaithful'
  <2> SUFFICES ASSUME ~foreign', NEW s \in Reverse!Sessions, NEW i \in 1..Len(hostGot'[s])
               PROVE  hostGot'[s][i] = begun'[s] + i
      BY DEF Reverse!RelayFaithful
  <2>1. (begun'[s] = begun[s] /\ hostGot'[s] = hostGot[s]) \/ hostGot'[s] = <<>>
        BY DEF Reverse!TypeOK
  <2>2. hostGot'[s] # <<>>
        OBVIOUS
  <2> QED BY <1>2, <2>1, <2>2 DEF RelayInv, Reverse!RelayFaithful
<1> QED BY <1>1, <1>4, <1>5, <1>6 DEF RelayInv

\* An item goes to the host of the session: the socket is the session's own.
LEMMA RelayOut ==
  ASSUME Reverse!TypeOK, RelayInv, NEW c \in Conns, Reverse!Out(c)
  PROVE  RelayInv'
<1>1. /\ pc[c] = "out" /\ pc' = [pc EXCEPT ![c] = "in"] /\ taken' = [taken EXCEPT ![c] = @ + 1]
      /\ hostGot' = [hostGot EXCEPT ![open[fd[c]]] = Append(@, taken'[c])]
      /\ UNCHANGED <<fd, sess, open, begun, nsess, foreign>>
      BY DEF Reverse!Out, Reverse!Goto, Reverse!Take
<1>2. /\ pc'[c] = "in" /\ \A d \in Conns \ {c} : pc'[d] = pc[d] /\ taken'[d] = taken[d]
      /\ taken[c] \in Nat /\ taken'[c] = taken[c] + 1
      BY <1>1 DEF Reverse!TypeOK
<1>3. SessionOK'
  <2>1. \A d \in Conns : pc'[d] \in InRelay <=> pc[d] \in InRelay
        BY <1>1, <1>2 DEF InRelay
  <2> QED BY <1>1, <2>1 DEF RelayInv, SessionOK
<1>4. SocketOK'
      BY <1>1, <1>2 DEF RelayInv, SocketOK
<1> SUFFICES ASSUME ~foreign PROVE HostOK' /\ Reverse!RelayFaithful'
    BY <1>1, <1>3, <1>4 DEF RelayInv, HostOK, Reverse!RelayFaithful
<1>5. /\ sess[c] \in Reverse!Sessions /\ sess[c] \in 1..nsess /\ nsess \in Nat
      /\ hostGot' = [hostGot EXCEPT ![sess[c]] = Append(@, taken'[c])]
  <2>1. open[fd[c]] = sess[c]
        BY <1>1 DEF RelayInv, SocketOK
  <2>2. sess[c] \in 1..nsess /\ nsess \in 0..MaxSess
        BY <1>1 DEF RelayInv, SessionOK, InRelay
  <2> QED BY <1>1, <2>1, <2>2, ReverseAssumption DEF Reverse!Sessions
<1>6. /\ hostGot[sess[c]] \in Seq(Nat) /\ begun[sess[c]] \in Nat
      /\ hostGot'[sess[c]] = Append(hostGot[sess[c]], taken[c] + 1)
      /\ \A s \in Reverse!Sessions \ {sess[c]} : hostGot'[s] = hostGot[s]
      BY <1>2, <1>5 DEF Reverse!TypeOK
<1>7. taken[c] = begun[sess[c]] + Len(hostGot[sess[c]])
      BY <1>1 DEF RelayInv, HostOK
<1>8. /\ Len(hostGot[sess[c]]) \in Nat /\ Len(hostGot'[sess[c]]) = Len(hostGot[sess[c]]) + 1
      /\ \A i \in 1..Len(hostGot[sess[c]]) : hostGot'[sess[c]][i] = hostGot[sess[c]][i]
      /\ hostGot'[sess[c]][Len(hostGot[sess[c]]) + 1] = taken[c] + 1
      BY <1>2, <1>6
<1>a. taken[c] + 1 = begun[sess[c]] + (Len(hostGot[sess[c]]) + 1)
  <2>1. \A t, b, l \in Nat : t = b + l => t + 1 = b + (l + 1)
        OBVIOUS
  <2>2. taken[c] \in Nat /\ begun[sess[c]] \in Nat /\ Len(hostGot[sess[c]]) \in Nat
        BY <1>2, <1>6, <1>8
  <2> QED BY <1>7, <2>1, <2>2
<1>9. HostOK'
  <2>1. \A s \in Reverse!Sessions : s > nsess' => hostGot'[s] = <<>>
    <3>1. \A s \in Reverse!Sessions : s > nsess => hostGot[s] = <<>> /\ s # sess[c]
          BY <1>5 DEF RelayInv, HostOK, Reverse!Sessions
    <3> QED BY <1>1, <1>6, <3>1
  <2>2. taken'[c] = begun'[sess'[c]] + Len(hostGot'[sess'[c]])
    <3>1. sess'[c] = sess[c] /\ begun'[sess[c]] = begun[sess[c]]
          BY <1>1
    <3> QED BY <1>2, <1>8, <1>a, <3>1
  <2>3. ASSUME NEW d \in Conns \ {c}, pc'[d] \in {"out", "in"}
        PROVE  taken'[d] = begun'[sess'[d]] + Len(hostGot'[sess'[d]])
    <3>1. taken[d] = begun[sess[d]] + Len(hostGot[sess[d]])
          BY <1>2, <2>3 DEF RelayInv, HostOK
    <3>2. sess[d] # sess[c] /\ sess[d] \in Reverse!Sessions
      <4>1. sess[d] \in 1..nsess /\ nsess \in 0..MaxSess
            BY <1>2, <2>3 DEF RelayInv, SessionOK, InRelay
      <4> QED BY <1>5, <4>1, ReverseAssumption DEF RelayInv, SessionOK, Reverse!Sessions
    <3> QED BY <1>1, <1>2, <1>6, <3>1, <3>2
  <2> QED BY <2>1, <2>2, <2>3 DEF HostOK
<1>10. Reverse!RelayFaithful'
  <2> SUFFICES ASSUME NEW s \in Reverse!Sessions, NEW i \in 1..Len(hostGot'[s]) PROVE hostGot'[s][i] = begun[s] + i
      BY <1>1 DEF Reverse!RelayFaithful
  <2>1. \A j \in 1..Len(hostGot[s]) : hostGot[s][j] = begun[s] + j
        BY DEF RelayInv, Reverse!RelayFaithful
  <2>2. CASE s = sess[c]
    <3>1. i \in 1..(Len(hostGot[s]) + 1) /\ Len(hostGot[s]) \in Nat
          BY <1>8, <2>2
    <3>2. CASE i \in 1..Len(hostGot[s])
          BY <1>8, <2>1, <2>2, <3>2
    <3>3. CASE i = Len(hostGot[s]) + 1
      <4>1. taken[c] + 1 = begun[s] + i
            BY <1>a, <2>2, <3>3
      <4> QED BY <1>8, <2>2, <3>3, <4>1
    <3> QED BY <3>1, <3>2, <3>3
  <2> QED BY <1>6, <2>1, <2>2
<1> QED BY <1>9, <1>10

LEMMA RelayStep ==
  ASSUME ReverseSafe, RelayInv, Reverse!Next
  PROVE  RelayInv'
<1>0. Reverse!TypeOK
      BY DEF ReverseSafe
<1>1. CASE Reverse!Application
      BY <1>0, <1>1, RelayKept
      DEF Reverse!Application, Reverse!Start, Reverse!StartFails, Reverse!StartThread, Reverse!Free,
          Reverse!FreeSteps, Reverse!FreeLook, Reverse!FreeReread, Reverse!FreeJoin,
          Reverse!FreeEnd, Reverse!connVars
<1>2. CASE Reverse!ControlThread
  <2>1. UNCHANGED <<fd, sess, Reverse!hostVars, taken>>
        BY <1>2
        DEF Reverse!ControlThread, Reverse!CtrlHead, Reverse!CtrlNothing, Reverse!CtrlStop,
            Reverse!CtrlConnect, Reverse!CtrlDown, Reverse!CtrlJoin, Reverse!CtrlBye,
            Reverse!connVars
  <2>2. pc' = pc \/ \E c \in Conns : pc[c] = "none" /\ pc' = [pc EXCEPT ![c] = "open"]
        BY <1>2
        DEF Reverse!ControlThread, Reverse!CtrlHead, Reverse!CtrlNothing, Reverse!CtrlStop,
            Reverse!CtrlConnect, Reverse!CtrlDown, Reverse!CtrlJoin, Reverse!CtrlBye,
            Reverse!connVars, Reverse!Goto
  <2>3. \A c \in Conns : pc'[c] \in InRelay \union {"out", "in"} => pc'[c] = pc[c]
        BY <1>0, <2>2 DEF Reverse!TypeOK, InRelay
  <2>4. \A c \in Conns : pc[c] \in InRelay => pc'[c] = pc[c]
        BY <1>0, <2>2 DEF Reverse!TypeOK, InRelay
  <2> QED BY <1>0, <2>1, <2>3, <2>4, RelayKept
<1>3. ASSUME NEW c \in Conns, Reverse!ConnectionThread(c) PROVE RelayInv'
  <2>0. \A d \in Conns \ {c} : pc'[d] = pc[d]
        BY <1>3, ConnectionFrame
  <2>1. CASE \/ Reverse!ConnOpen(c) \/ Reverse!ConnConnect(c) \/ Reverse!ConnHello(c)
             \/ Reverse!ConnHead(c) \/ Reverse!ConnPlist(c) \/ Reverse!ConnLeave(c)
             \/ Reverse!ConnReceive(c)
    <3>1. /\ UNCHANGED <<fd, sess, Reverse!hostVars>> /\ pc[c] \notin InRelay /\ pc'[c] \notin InRelay
          BY <1>0, <2>1
          DEF Reverse!ConnOpen, Reverse!ConnConnect, Reverse!ConnHello, Reverse!ConnHead,
              Reverse!ConnPlist, Reverse!ConnLeave, Reverse!ConnReceive, Reverse!Goto,
              Reverse!TypeOK, InRelay
    <3>2. \A d \in Conns \ {c} : taken'[d] = taken[d]
          BY <1>0, <2>1
          DEF Reverse!ConnOpen, Reverse!ConnConnect, Reverse!ConnHello, Reverse!ConnHead,
              Reverse!ConnPlist, Reverse!ConnLeave, Reverse!ConnReceive, Reverse!Take,
              Reverse!TypeOK
    <3> QED BY <1>0, <2>0, <3>1, <3>2, RelayKept DEF InRelay
  <2>2. CASE Reverse!OutNothing(c) \/ Reverse!In(c)
    <3>1. /\ UNCHANGED <<fd, sess, Reverse!hostVars, taken>> /\ pc[c] \in {"out", "in"} /\ pc'[c] \in InRelay
          BY <1>0, <2>2 DEF Reverse!OutNothing, Reverse!In, Reverse!Goto, Reverse!TypeOK, InRelay
    <3> QED BY <1>0, <2>0, <3>1, RelayKept DEF InRelay
  <2>3. CASE Reverse!ConnProxy(c)
    <3>1. CASE pc'[c] = "out"
          BY <1>0, <2>3, <3>1, RelayBegins
    <3>2. CASE pc'[c] # "out"
      <4>1. UNCHANGED <<fd, sess, Reverse!hostVars, taken>> /\ pc[c] = "proxy" /\ pc'[c] \in {"head", "leave"}
            BY <1>0, <2>3, <3>2 DEF Reverse!ConnProxy, Reverse!Goto, Reverse!TypeOK
      <4> QED BY <1>0, <2>0, <4>1, RelayKept DEF InRelay
    <3> QED BY <3>1, <3>2
  <2>4. CASE Reverse!OutFails(c)
    <3>1. /\ Reverse!CloseFd(c) /\ pc[c] \in InRelay /\ pc'[c] = "close" /\ UNCHANGED <<fd, sess, begun, hostGot, nsess>>
          BY <1>0, <2>4 DEF Reverse!OutFails, Reverse!Goto, Reverse!TypeOK, InRelay
    <3>2. \A d \in Conns \ {c} : taken'[d] = taken[d]
          BY <1>0, <2>4 DEF Reverse!OutFails, Reverse!Take, Reverse!TypeOK
    <3>3. pc'[c] \in InRelay /\ pc'[c] \notin {"out", "in"}
          BY <3>1 DEF InRelay
    <3> QED BY <1>0, <2>0, <3>1, <3>2, <3>3, RelayCloses
  <2>5. CASE Reverse!Close(c)
    <3>1. /\ Reverse!CloseFd(c) /\ pc[c] \in InRelay /\ pc'[c] \in {"head", "leave"} /\ UNCHANGED <<taken, nsess>>
          /\ sess'[c] = 0
          /\ begun' = [begun EXCEPT ![sess[c]] = 0]
          /\ hostGot' = [hostGot EXCEPT ![sess[c]] = <<>>]
          BY <1>0, <2>5 DEF Reverse!Close, Reverse!Goto, Reverse!TypeOK, InRelay
    <3>2. \A d \in Conns \ {c} : sess'[d] = sess[d] /\ fd'[d] = fd[d]
          BY <1>0, <2>5 DEF Reverse!Close, Reverse!TypeOK
    <3>3. pc'[c] \notin InRelay /\ pc'[c] \notin {"out", "in"}
          BY <3>1 DEF InRelay
    <3> QED BY <1>0, <2>0, <3>1, <3>2, <3>3, RelayCloses
  <2>6. CASE Reverse!Out(c)
        BY <1>0, <2>6, RelayOut
  <2> QED BY <1>3, <2>1, <2>2, <2>3, <2>4, <2>5, <2>6 DEF Reverse!ConnectionThread
<1> QED BY <1>1, <1>2, <1>3 DEF Reverse!Next

\* A session of the reverse proxy: the threads know of each other, and the relays are faithful.
ReverseInv == ReverseSafe /\ RelayInv

LEMMA ReverseStarts == Reverse!Init => ReverseInv
<1> SUFFICES ASSUME Reverse!Init PROVE ReverseInv
  OBVIOUS
<1>1. SessionOK
  BY ReverseAssumption DEF Reverse!Init, SessionOK, InRelay
<1>2. SocketOK /\ HostOK /\ Reverse!RelayFaithful
  BY DEF Reverse!Init, SocketOK, HostOK, Reverse!RelayFaithful
<1> QED
  BY <1>1, <1>2, ReverseSafeStarts DEF ReverseInv, RelayInv

LEMMA ReverseSteps == ReverseInv /\ Reverse!Next => ReverseInv'
<1> SUFFICES ASSUME ReverseInv, Reverse!Next PROVE ReverseInv'
  OBVIOUS
<1>1. ReverseSafe'
  BY ControlKeeps, ApplicationKeeps, ConnectionKeeps DEF ReverseInv, Reverse!Next
<1>2. RelayInv'
  BY RelayStep DEF ReverseInv
<1> QED
  BY <1>1, <1>2 DEF ReverseInv

-----------------------------------------------------------------------------
(* The composition *)

\* Each component, in its behaviours.
Parts ==
  /\ which = "pairing" => PairingInv
  /\ which = "events" => EventsInv
  /\ which = "images" => ImagesInv
  /\ which = "services" => RequestsInv
  /\ which = "inspector" => InspectorInv
  /\ which = "connection" => LinkInv
  /\ which = "reverse" => ReverseInv

\* Each component begins in its invariant.
LEMMA PartsStart == Init => Parts
<1> SUFFICES ASSUME Init PROVE Parts
  OBVIOUS
<1>1. which = "pairing" => PairingInv
  BY PairingStarts DEF Init, InitPairing
<1>2. which = "events" => EventsInv
  BY EventsStart DEF Init, InitEvents
<1>3. which = "images" => ImagesInv
  BY ImagesStart DEF Init, InitImages
<1>4. which = "services" => RequestsInv
  BY RequestsStart DEF Init, InitRequests
<1>5. which = "inspector" => InspectorInv
  BY InspectorStart DEF Init, InitInspector
<1>6. which = "connection" => LinkInv
  BY LinkStart DEF Init, InitLink
<1>7. which = "reverse" => ReverseInv
  BY ReverseStarts DEF Init, InitReverse
<1> QED
  BY <1>1, <1>2, <1>3, <1>4, <1>5, <1>6, <1>7 DEF Parts

\* A step is one of the component that runs.
LEMMA PartsSteps == Parts /\ [Next]_vars => Parts'
<1> SUFFICES ASSUME Parts, [Next]_vars PROVE Parts'
  OBVIOUS
<1>1. CASE Next
  <2>1. /\ which' = which
        /\ which = "pairing" => Pairing!Next
        /\ which = "events" => Events!Next
        /\ which = "images" => Images!Next
        /\ which = "services" => Requests!Next
        /\ which = "inspector" => Inspector!Next
        /\ which = "connection" => Link!Next
        /\ which = "reverse" => Reverse!Next
    BY <1>1
    DEF Next, NextRequests, NextEvents, NextImages, NextPairing, NextLink, NextInspector, NextReverse,
        ExceptRequests, ExceptEvents, ExceptImages, ExceptPairing, ExceptLink, ExceptInspector,
        ExceptReverse
  <2>2. which' = "pairing" => PairingInv'
    BY <2>1, PairingSteps DEF Parts
  <2>3. which' = "events" => EventsInv'
    BY <2>1, EventsSteps DEF Parts
  <2>4. which' = "images" => ImagesInv'
    BY <2>1, ImagesSteps DEF Parts
  <2>5. which' = "services" => RequestsInv'
    BY <2>1, RequestsSteps DEF Parts
  <2>6. which' = "inspector" => InspectorInv'
    BY <2>1, InspectorSteps DEF Parts
  <2>7. which' = "connection" => LinkInv'
    BY <2>1, LinkSteps DEF Parts
  <2>8. which' = "reverse" => ReverseInv'
    BY <2>1, ReverseSteps DEF Parts
  <2> QED
    BY <2>2, <2>3, <2>4, <2>5, <2>6, <2>7, <2>8 DEF Parts
<1>2. CASE UNCHANGED vars
  <2>1. which' = which /\ pc' = pc /\ UNCHANGED pairingVars /\ UNCHANGED record
    BY <1>2 DEF vars
  <2>2. UNCHANGED <<eventsVars, app, parent, freed, used, asked, owed, dropped>>
    BY <1>2 DEF vars
  <2>3. PairingInv' <=> PairingInv
    BY <2>1
    DEF PairingInv, pairingVars, Pairing!TypeOK, Pairing!KeyAgreed, Pairing!RecordAccepted, Pairing!WrongKey
  <2>4. EventsInv' <=> EventsInv
    BY <2>1, <2>2
    DEF EventsInv, Live, eventsVars, Events!TypeOK, Events!ListenerKnown, Events!Listening,
        Events!AnswerToCall
  <2>5. UNCHANGED imagesVars /\ UNCHANGED res
    BY <1>2 DEF vars
  <2>6. ImagesInv' <=> ImagesInv
    BY <2>1, <2>2, <2>5
    DEF ImagesInv, Staged, Mounting, Ending, imagesVars, Images!TypeOK, Images!CommandsHeard
  <2>7. UNCHANGED servicesVars
    BY <1>2 DEF vars
  <2>8. RequestsTypes' <=> RequestsTypes
    BY <2>1, <2>2, <2>5, <2>7 DEF RequestsTypes, servicesVars, Requests!TypeOK, Requests!Operations
  <2>9. \A t \in Threads : ThreadInv(t)' <=> ThreadInv(t)
    BY <2>1, <2>2, <2>5, <2>7
    DEF ThreadInv, Busy, servicesVars, Requests!Operations, Requests!Users, Requests!Locked
  <2>10. RequestsInv' <=> RequestsInv
    BY <2>8, <2>9 DEF RequestsInv
  <2>11. UNCHANGED inspectorVars /\ UNCHANGED wire
    BY <1>2 DEF vars
  <2>12. InspectorInv' <=> InspectorInv
    BY <2>1, <2>2, <2>5, <2>11
    DEF InspectorInv, inspectorVars, SendInv, ReceiveInv, Chunks, Chained, Inspector!TypeOK,
        Inspector!SentWhole, Inspector!ReceivedWhole, Inspector!Units, Inspector!NoResult
  <2>13. UNCHANGED linkVars
    BY <1>2 DEF vars
  <2>14. LinkTypes' <=> LinkTypes
    BY <2>1, <2>11, <2>13 DEF LinkTypes, linkVars, Link!TypeOK
  <2>15. CallInv' <=> CallInv
    BY <2>1, <2>11, <2>13 DEF CallInv, linkVars, Link!ResultTrue
  <2>16. Taken' = Taken /\ SentTo' = SentTo
    BY <2>13 DEF Taken, SentTo, linkVars
  <2>17. (PlainInv' <=> PlainInv) /\ (SecureInv' <=> SecureInv)
    BY <2>1, <2>11, <2>13, <2>16 DEF PlainInv, SecureInv, Place, linkVars
  <2>18. LinkInv' <=> LinkInv
    BY <2>13, <2>14, <2>15, <2>17 DEF LinkInv, StreamInv, linkVars
  <2>19. UNCHANGED reverseVars
    BY <1>2 DEF vars
  <2>20. ReverseSafe' <=> ReverseSafe
    BY <2>1, <2>2, <2>5, <2>19
    DEF ReverseSafe, reverseVars, Reverse!TypeOK, HandleState, ConnsNamed, LastJoined, FreeWaited,
        Reverse!NoUseAfterFree, Reverse!Alive, OpenWindow, Reverse!OnlyWhileOpening
  <2>21. RelayInv' <=> RelayInv
    BY <2>1, <2>2, <2>5, <2>19
    DEF RelayInv, reverseVars, SessionOK, SocketOK, HostOK, Reverse!RelayFaithful
  <2> QED
    BY <2>1, <2>3, <2>4, <2>6, <2>10, <2>12, <2>18, <2>20, <2>21 DEF Parts, ReverseInv
<1> QED
  BY <1>1, <1>2

\* In every behaviour of the composition the component that runs keeps its invariant
\* (the clients of service.c, idevice.c and lockdown-cu.c).
THEOREM AlwaysParts == Spec => []Parts
<1>1. Init => Parts
  BY PartsStart
<1>2. Parts /\ [Next]_vars => Parts'
  BY PartsSteps
<1> QED
  BY <1>1, <1>2, PTL DEF Spec

\* After a pairing by PIN host and device have the same key, and the host keeps a pair record
\* only if the device has accepted it (lockdown-cu.c:926 and 1183).
THEOREM PairingAgrees == Spec => []KeyAgreed
<1>1. Parts => KeyAgreed
  BY DEF Parts, PairingInv, KeyAgreed
<1> QED
  BY <1>1, AlwaysParts, PTL

\* A thread that listens for events is the one that the handle names or the one that is being
\* made, and none looks at a client that was freed (companion_proxy.c:235, preboard.c:194).
THEOREM OneListener == Spec => []ListenerKnown
<1>1. Parts => ListenerKnown
  BY DEF Parts, EventsInv, ListenerKnown
<1> QED
  BY <1>1, AlwaysParts, PTL

\* The device is asked to mount only a whole image with a signature, no command is taken for
\* a part of one, and the tool reports what the device has done (mobile_image_mounter.c:246).
THEOREM WholeImages == Spec => []MountTrue
<1>1. ImagesInv => Images!TypeOK /\ Images!MountTrue /\ Images!CommandsHeard
  BY DEF ImagesInv, Ending, Images!MountTrue
<1>2. Parts => MountTrue
  BY <1>1 DEF Parts, MountTrue
<1> QED
  BY <1>2, AlwaysParts, PTL

\* A call that reports what an answer says reports the answer to its own request, for every
\* number of threads and calls, and the status that is kept is that of the last call
\* (property_list_service.c:194, misagent.c:160).
THEOREM AnswersTheirOwn == Spec => []OwnAnswer
<1>1. RequestsInv => Requests!TypeOK /\ Requests!OwnAnswer /\ Requests!StatusOfCall
  BY DEF RequestsInv, RequestsTypes, ThreadInv, Requests!OwnAnswer, Requests!StatusOfCall
<1>2. Parts => OwnAnswer
  BY <1>1 DEF Parts, EventsInv, OwnAnswer
<1> QED
  BY <1>2, AlwaysParts, PTL

\* The caller of a connection gets the units of the device in their order with SSL and
\* without, whatever times out, and true results; a message of the web inspector arrives whole,
\* in both directions (idevice.c:993 and 809, webinspector.c:132).
THEOREM StreamsTrue == Spec => []StreamTrue
<1>1. Parts => StreamTrue
  BY LinkTrue DEF Parts, InspectorInv, StreamTrue
<1> QED
  BY <1>1, AlwaysParts, PTL

\* No thread uses a freed client of the reverse proxy, apart from the two ways that
\* NoUseAfterFree names, and none looks through the cleared client->parent unless a connection
\* was being opened when free began, for any number of connection threads
\* (reverse_proxy.c:353, 497, 519, 649).
THEOREM SafeUse == Spec => []UseSafe
<1>1. Parts => UseSafe
  BY DEF Parts, ReverseInv, ReverseSafe, OpenWindow, UseSafe, Reverse!UseSafe
<1> QED
  BY <1>1, AlwaysParts, PTL

\* A host receives what the device sent after the request, in order and without a gap, until
\* a descriptor is closed a second time and belongs to another thread (reverse_proxy.c:125).
THEOREM RelaysFaithful == Spec => []RelayFaithful
<1>1. Parts => RelayFaithful
  BY DEF Parts, ReverseInv, RelayInv, RelayFaithful
<1> QED
  BY <1>1, AlwaysParts, PTL

=============================================================================
