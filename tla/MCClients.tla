------------------------------- MODULE MCClients -------------------------------
(***************************************************************************)
(* The clients of the smaller services and what lies below them, for TLC:  *)
(* a behaviour is one of the component that which names.  Components share *)
(* the names of the variables they have in common; the variables of the    *)
(* others are Unused and stay so.                                          *)
(***************************************************************************)
EXTENDS Integers, Sequences

CONSTANTS
  Names, Threads, MaxCalls,          \* Services
  Clients, Listeners, MaxAsked,      \* EventThread
  Versions, Commands, Blocks,        \* ImageMounter
  Attempts,                          \* PairCU
  MaxUnits, MaxOut, MaxLen,          \* Connection
  Chunk, MaxLength, MaxMessages,     \* WebInspector
  Conns, Fds, MaxSess, MaxItems,     \* ReverseProxy
  Unused                             \* what the variables of the other components are

\* threads and listeners have numbers other than 0, which stands for none; bounds are numbers
ASSUME PairingAssumption == Attempts \in Nat
ASSUME ImagesAssumption ==  \* mobile_image_mounter_upload_image refuses an empty image
  /\ Versions \subseteq {"afc", "upload", "personal"}
  /\ Commands \subseteq {"mount", "list", "unmount", "devmodestatus"}
  /\ Blocks \in Nat \ {0}
ASSUME InspectorAssumption == Chunk \in Nat \ {0} /\ MaxLength \in Nat /\ MaxMessages \in Nat
ASSUME RequestsAssumption == Threads \subseteq Nat \ {0} /\ MaxCalls \in Nat
ASSUME LinkAssumption == MaxUnits \in Nat /\ MaxOut \in Nat /\ MaxLen \in Nat
ASSUME EventsAssumption == Listeners \subseteq Nat \ {0} /\ MaxAsked \in Nat
ASSUME ReverseAssumption ==
  /\ Conns \subseteq Nat \ {0} /\ Fds \subseteq Nat \ {0}
  /\ MaxSess \in Nat /\ MaxItems \in Nat

VARIABLES
  which, service, lock, pc, op, id, res, from, behind, owed, skew, half, status, mode, calls,
  client, app, parent, handle, freed, made, asked, events, late, took, used, version, cmd, mim, sig,
  tx, expects, image, mounted, removed, cut, garbled, stale, attempt, state, thekey, cuKey,
  devState, devTry, devKey, pinRight, ret, values, record, known, saved, spoilt, conn, alive, ssl,
  limit, partial, shut, wire, devtls, sent, len, buf, got, out, before, result, torn, apart, number,
  left, offset, peer, heard, told, packet, multiple, dropped, thCtrl, cpc, thConn, taken, fd, sess,
  open, begun, hostGot, nsess, early, foreign, nulled, opening, expired, due

Requests == INSTANCE Services
Events == INSTANCE EventThread
Images == INSTANCE ImageMounter
Pairing == INSTANCE PairCU
Link == INSTANCE Connection
Inspector == INSTANCE WebInspector
Reverse == INSTANCE ReverseProxy

\* the variables that a component does not share
servicesVars == <<service, lock, op, id, from, behind, skew, half, status, mode, calls>>
eventsVars == <<client, handle, made, events, late, took>>
imagesVars == <<version, cmd, mim, sig, tx, expects, image, mounted, removed, cut, garbled, stale>>
pairingVars == <<attempt, state, thekey, cuKey, devState, devTry, devKey, pinRight, ret, values,
                 known, saved, spoilt>>
linkVars == <<conn, alive, ssl, limit, partial, shut, devtls, sent, len, buf, got, out, before,
              result, torn, apart, expired, due>>
inspectorVars == <<number, left, offset, peer, heard, told, packet, multiple>>
reverseVars == <<thCtrl, cpc, thConn, taken, fd, sess, open, begun, hostGot, nsess, early, foreign,
                 nulled, opening>>
vars == <<which, servicesVars, eventsVars, imagesVars, pairingVars, linkVars, inspectorVars, reverseVars,
          pc, res, owed, app, parent, freed, asked, used, record, wire, dropped>>

InitRequests ==
  IF which = "services" THEN Requests!Init
  ELSE /\ service = Unused /\ lock = Unused /\ op = Unused /\ id = Unused /\ from = Unused
       /\ behind = Unused /\ skew = Unused /\ half = Unused /\ status = Unused /\ mode = Unused
       /\ calls = Unused
InitEvents ==
  IF which = "events" THEN Events!Init
  ELSE /\ client = Unused /\ handle = Unused /\ made = Unused /\ events = Unused /\ late = Unused
       /\ took = Unused
InitImages ==
  IF which = "images" THEN Images!Init
  ELSE /\ version = Unused /\ cmd = Unused /\ mim = Unused /\ sig = Unused /\ tx = Unused
       /\ expects = Unused /\ image = Unused /\ mounted = Unused /\ removed = Unused /\ cut = Unused
       /\ garbled = Unused /\ stale = Unused
InitPairing ==
  IF which = "pairing" THEN Pairing!Init
  ELSE /\ attempt = Unused /\ state = Unused /\ thekey = Unused /\ cuKey = Unused /\ devState = Unused
       /\ devTry = Unused /\ devKey = Unused /\ pinRight = Unused /\ ret = Unused /\ values = Unused
       /\ known = Unused /\ saved = Unused /\ spoilt = Unused
InitLink ==
  IF which = "connection" THEN Link!Init
  ELSE /\ conn = Unused /\ alive = Unused /\ ssl = Unused /\ limit = Unused /\ partial = Unused
       /\ shut = Unused /\ devtls = Unused /\ sent = Unused /\ len = Unused /\ buf = Unused
       /\ got = Unused /\ out = Unused /\ before = Unused /\ result = Unused /\ torn = Unused
       /\ apart = Unused /\ expired = Unused /\ due = Unused
InitInspector ==
  IF which = "inspector" THEN Inspector!Init
  ELSE /\ number = Unused /\ left = Unused /\ offset = Unused /\ peer = Unused /\ heard = Unused
       /\ told = Unused /\ packet = Unused /\ multiple = Unused
InitReverse ==
  IF which = "reverse" THEN Reverse!Init
  ELSE /\ thCtrl = Unused /\ cpc = Unused /\ thConn = Unused /\ taken = Unused /\ fd = Unused
       /\ sess = Unused /\ open = Unused /\ begun = Unused /\ hostGot = Unused /\ nsess = Unused
       /\ early = Unused /\ foreign = Unused /\ nulled = Unused /\ opening = Unused

Init ==
  /\ which \in {"services", "events", "images", "pairing", "connection", "inspector", "reverse"}
  /\ InitRequests /\ InitEvents /\ InitImages /\ InitPairing /\ InitLink /\ InitInspector /\ InitReverse
  /\ IF which \in {"events", "pairing", "connection"} THEN res = Unused ELSE TRUE
  /\ IF which \in {"images", "pairing", "connection", "inspector", "reverse"} THEN owed = Unused ELSE TRUE
  /\ IF which \in {"services", "images", "pairing", "connection", "inspector"} THEN app = Unused ELSE TRUE
  /\ IF which \in {"services", "images", "pairing", "connection", "inspector"} THEN parent = Unused ELSE TRUE
  /\ IF which \in {"services", "images", "pairing", "connection", "inspector"} THEN freed = Unused ELSE TRUE
  /\ IF which \in {"services", "pairing", "connection", "inspector", "reverse"} THEN asked = Unused ELSE TRUE
  /\ IF which \in {"services", "images", "pairing", "connection", "inspector"} THEN used = Unused ELSE TRUE
  /\ IF which \in {"services", "events", "images", "inspector", "reverse"} THEN record = Unused ELSE TRUE
  /\ IF which \in {"services", "events", "images", "pairing", "reverse"} THEN wire = Unused ELSE TRUE
  /\ IF which \in {"services", "events", "images", "pairing", "connection"} THEN dropped = Unused ELSE TRUE

ExceptRequests == <<which, eventsVars, imagesVars, pairingVars, linkVars, inspectorVars, reverseVars, app,
                    parent, freed, asked, used, record, wire, dropped>>
ExceptEvents == <<which, servicesVars, imagesVars, pairingVars, linkVars, inspectorVars, reverseVars, res,
                  record, wire, dropped>>
ExceptImages == <<which, servicesVars, eventsVars, pairingVars, linkVars, inspectorVars, reverseVars, owed,
                  app, parent, freed, used, record, wire, dropped>>
ExceptPairing == <<which, servicesVars, eventsVars, imagesVars, linkVars, inspectorVars, reverseVars, res,
                   owed, app, parent, freed, asked, used, wire, dropped>>
ExceptLink == <<which, servicesVars, eventsVars, imagesVars, pairingVars, inspectorVars, reverseVars, res,
                owed, app, parent, freed, asked, used, dropped>>
ExceptInspector == <<which, servicesVars, eventsVars, imagesVars, pairingVars, linkVars, reverseVars, owed,
                     app, parent, freed, asked, used, record>>
ExceptReverse == <<which, servicesVars, eventsVars, imagesVars, pairingVars, linkVars, inspectorVars, owed,
                   asked, record, wire>>
NextRequests == which = "services" /\ Requests!Next /\ UNCHANGED ExceptRequests
NextEvents == which = "events" /\ Events!Next /\ UNCHANGED ExceptEvents
NextImages == which = "images" /\ Images!Next /\ UNCHANGED ExceptImages
NextPairing == which = "pairing" /\ Pairing!Next /\ UNCHANGED ExceptPairing
NextLink == which = "connection" /\ Link!Next /\ UNCHANGED ExceptLink
NextInspector == which = "inspector" /\ Inspector!Next /\ UNCHANGED ExceptInspector
NextReverse == which = "reverse" /\ Reverse!Next /\ UNCHANGED ExceptReverse
Next == NextRequests \/ NextEvents \/ NextImages \/ NextPairing \/ NextLink \/ NextInspector \/ NextReverse

Running == which = "events" /\ Events!Running /\ UNCHANGED ExceptEvents
Listener(l) == which = "events" /\ Events!Listener(l) /\ UNCHANGED ExceptEvents
FreeSteps == which = "reverse" /\ Reverse!FreeSteps /\ UNCHANGED ExceptReverse
ControlThread == which = "reverse" /\ Reverse!ControlThread /\ UNCHANGED ExceptReverse
ConnectionThread(c) == which = "reverse" /\ Reverse!ConnectionThread(c) /\ UNCHANGED ExceptReverse
\* threads run, and their waits have a timeout; nothing is assumed of devices and hosts
Spec ==
  /\ Init /\ [][Next]_vars
  /\ WF_vars(Running) /\ \A l \in Listeners : WF_vars(Listener(l))
  /\ WF_vars(FreeSteps) /\ WF_vars(ControlThread)
  /\ \A c \in Conns : WF_vars(ConnectionThread(c))

-----------------------------------------------------------------------------
(* Properties *)

\* A call takes the answer to its own request, also when threads share a client and when the
\* events of a listener come on the connection of the calls, and the status that misagent
\* keeps is that of its last call (Services!OwnAnswer and StatusOfCall, EventThread!AnswerToCall).
OwnAnswer ==
  CASE which = "services" -> Requests!TypeOK /\ Requests!OwnAnswer /\ Requests!StatusOfCall
    [] which = "events" -> Events!TypeOK /\ Events!AnswerToCall
    [] OTHER -> TRUE

\* One thread receives events, it is known to the client, and does not look at a client that
\* was freed (companion_proxy.c:235, preboard.c:194).
ListenerKnown == which = "events" => Events!ListenerKnown

\* The calls that stop a listener return: it looks for the parent every second
\* (companion_proxy.c:209, preboard.c:160).
ListenerStops == Events!StopReturns

\* The device is asked to mount only a whole image with a signature, no command is taken for
\* a part of one, and the tool reports what the device has done (mobile_image_mounter.c:246).
MountTrue == which = "images" => Images!TypeOK /\ Images!MountTrue /\ Images!CommandsHeard

\* After a pairing by PIN host and device have the same key, and the host keeps a pair record
\* only if the device has accepted it (lockdown-cu.c:926 and 1183).
KeyAgreed == which = "pairing" => Pairing!TypeOK /\ Pairing!KeyAgreed /\ Pairing!RecordAccepted

\* Bytes arrive as a stream, through a connection with and without SSL (idevice.c:809), and
\* messages arrive as a whole in the chunks of the web inspector (webinspector.c:130 and 189).
StreamTrue ==
  CASE which = "connection" -> Link!StreamTrue
    [] which = "inspector" -> Inspector!TypeOK /\ Inspector!SentWhole /\ Inspector!ReceivedWhole
    [] OTHER -> TRUE

\* The client of the reverse proxy is used as long as it is there, and by the threads that the
\* code knows of (reverse_proxy.c:497 and 519), and its connection to the device but in one
\* window while it is there (reverse_proxy.c:353 and 649).
UseSafe == which = "reverse" => Reverse!UseSafe

\* A host that is relayed to gets what the device sent to it (reverse_proxy.c:125).
RelayFaithful == which = "reverse" => Reverse!RelayFaithful

\* reverse_proxy_client_free returns, unless a relay goes on for ever: the loop of a relay does
\* not look at the client (reverse_proxy.c:202), only the device or the host can end it; or
\* the program ends in the window of Reverse!OnlyWhileOpening.
FreeReturns ==
  (<>[](which = "reverse" => ~Reverse!Relaying)) =>
    ((which = "reverse" /\ app = "look") ~> (which = "reverse" /\ (app = "done" \/ nulled)))
================================================================================
