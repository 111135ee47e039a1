---------------------------------- MODULE DevMode ----------------------------------
(***************************************************************************)
(* tools/idevicedevmodectl.c: developer mode is armed, the device restarts *)
(* and the mode is confirmed.  main sleeps until device_connected has the  *)
(* value it waits for or a time is over; the event thread sets it when the *)
(* device udid comes and goes.  The device is external: it does what it    *)
(* was asked or refuses, and comes and goes as it likes.  The list of the  *)
(* modes of all devices, which changes nothing, is left out.               *)
(***************************************************************************)
EXTENDS Naturals, Sequences, FiniteSets, Functions

CONSTANTS
  Udids,     \* devices
  Networked, \* those of them that are reached by the network
  None,      \* no device: a NULL udid or handle
  MaxPlugs   \* bound: times that a device comes or goes

VARIABLES
  main,      \* where main is
  cmd,       \* op
  network,   \* use_network
  udid,
  connected, \* device_connected
  cb,        \* the device whose udid the callback is about to copy, None outside
  plugged,   \* devices that are there
  events,    \* events that were not delivered yet
  plugs,     \* changes of plugged so far
  subscribed,
  device,    \* the device of the handle device
  freed,     \* history: how often that handle was freed
  noclient,  \* history: property_list_service_client_new has failed
  res,
  done,      \* history: <<action, device>> of what a device said it has done
  blind,     \* history: an action went out before the events that were on their way
  away       \* history: the device that was armed went away after that

world == <<plugged, events, plugs, away>>
watch == <<udid, connected, cb, subscribed>>
handle == <<device, freed, noclient>>
vars == <<main, cmd, network, watch, world, handle, res, done, blind>>

Ops == {"enable", "arm", "confirm", "reveal"}
Wanted == IF network THEN Networked ELSE Udids \ Networked
Event(u) == [add |-> u \notin plugged, udid |-> u]

Init ==
  /\ main = "subscribe" /\ cmd \in Ops /\ network \in BOOLEAN /\ udid \in Udids \union {None}
  /\ connected = FALSE /\ cb = None
  /\ plugged \in SUBSET Udids /\ events = <<>> /\ plugs = 0
  /\ subscribed = FALSE /\ device = None /\ freed = 0 /\ noclient = FALSE
  /\ res = 0 /\ done = {} /\ blind = FALSE /\ away = FALSE

-----------------------------------------------------------------------------
(* The devices, and device_event_cb in the thread of the events *)

Armed(u) == <<"ARM", u>> \in done

Plug ==
  /\ main # "done" /\ plugs < MaxPlugs /\ plugs' = plugs + 1
  /\ \E u \in Udids :
       /\ plugged' = (plugged \ {u}) \union ({u} \ plugged)
       /\ events' = IF subscribed THEN Append(events, Event(u)) ELSE events
       /\ away' = (away \/ (u \in plugged /\ Armed(u)))
  /\ UNCHANGED <<main, cmd, network, watch, handle, res, done, blind>>

Deliver(add) ==
  /\ main # "done" /\ cb = None /\ events # <<>> /\ Head(events).add = add
  /\ events' = Tail(events)
  /\ UNCHANGED <<main, cmd, network, plugged, plugs, away, subscribed, handle, res, done, blind>>

\* the first device that comes is the one that is meant if none was named
Added ==
  /\ Deliver(TRUE) /\ UNCHANGED udid
  /\ LET u == Head(events).udid
         names == u \in Wanted /\ udid = None
     IN /\ cb' = IF names THEN u ELSE None
        /\ connected' = (connected \/ (u \in Wanted /\ u = udid))

\* udid was NULL when the callback looked, and may not be any more
AddedNames ==
  /\ main # "done" /\ cb # None /\ cb' = None
  /\ udid' = cb /\ connected' = TRUE
  /\ UNCHANGED <<main, cmd, network, world, subscribed, handle, res, done, blind>>

Removed ==
  /\ Deliver(FALSE) /\ UNCHANGED <<udid, cb>>
  /\ connected' = (connected /\ ~(Head(events).udid \in Wanted /\ Head(events).udid = udid))

EventThread == Added \/ AddedNames \/ Removed

-----------------------------------------------------------------------------
(* main up to the action *)

Goto(l) == main' = l
Before == UNCHANGED <<cmd, network, world, done, blind, noclient, freed>>

\* the result is not looked at; what is there is reported first
Subscribe ==
  /\ main = "subscribe" /\ Goto("first")
  /\ \/ subscribed' = TRUE
        /\ \E order \in Bijection(1..Cardinality(plugged), plugged) :
             events' = [i \in DOMAIN order |-> [add |-> TRUE, udid |-> order[i]]]
     \/ UNCHANGED <<subscribed, events>>
  /\ UNCHANGED <<cmd, network, udid, connected, cb, plugged, plugs, away, handle, res, done, blind>>

\* WAIT_FOR: the condition holds, or the time is over
First ==
  /\ main = "first" /\ Goto("open")
  /\ Before /\ UNCHANGED <<watch, device, res>>

\* idevice_new_with_options; without a udid any device of the kind will do
Open ==
  /\ main = "open"
  /\ \/ /\ \E u \in plugged \intersect Wanted : udid \in {u, None} /\ device' = u
        /\ Goto("name") /\ UNCHANGED res
     \/ Goto("done") /\ res' = 1 /\ UNCHANGED device
  /\ Before /\ UNCHANGED watch

Name ==
  /\ main = "name" /\ Goto(IF udid = None THEN "get_udid" ELSE "status")
  /\ Before /\ UNCHANGED <<watch, device, res>>

GetUdid ==
  /\ main = "get_udid" /\ Goto("status")
  /\ udid' = device
  /\ Before /\ UNCHANGED <<connected, cb, subscribed, device, res>>

\* lockdownd says whether the mode is on; then there is nothing to enable
Status ==
  /\ main = "status"
  /\ \/ /\ device \in plugged
        /\ Goto(CASE cmd \in {"enable", "arm"} -> "arm" [] cmd = "confirm" -> "confirm" [] OTHER -> "reveal")
        /\ UNCHANGED <<res, freed, done>>
     \/ /\ device \in plugged /\ cmd \in {"enable", "arm"}
        /\ Goto("done") /\ freed' = freed + 1
        /\ done' = done \union {<<"ON", device>>} /\ UNCHANGED res
     \/ Goto("done") /\ res' = 1 /\ freed' = freed + 1 /\ UNCHANGED done
  /\ UNCHANGED <<cmd, network, watch, world, device, noclient, blind>>

-----------------------------------------------------------------------------
(* The action *)

\* amfi_send_action: 0 when the device says success, 1 when it refuses or there is no
\* service, 2 when a passcode is in the way or the service is lost, with the action done or
\* not; a client that cannot be made takes the handle with it
Amfi(action) ==
  \/ /\ device \in plugged /\ res' = 0
     /\ done' = done \union {<<action, device>>} /\ UNCHANGED <<freed, noclient>>
  \/ res' \in {1, 2} /\ UNCHANGED <<done, freed, noclient>>
  \/ /\ device \in plugged /\ res' = 2
     /\ done' = done \union {<<action, device>>} /\ UNCHANGED <<freed, noclient>>
  \/ /\ device # None /\ res' = 1
     /\ freed' = freed + 1 /\ noclient' = TRUE /\ UNCHANGED done

Acts == UNCHANGED <<cmd, network, watch, world, device>>

Arm ==
  /\ main = "arm" /\ Amfi("ARM") /\ Acts
  /\ blind' = (~connected \/ events # <<>> \/ udid # device)
  /\ Goto(IF res' = 2 THEN "passcode" ELSE IF res' = 0 /\ cmd = "enable" THEN "drop" ELSE "free")

\* the menu is shown to the user instead; that result is not kept
Passcode ==
  /\ main = "passcode" /\ Goto("free") /\ UNCHANGED <<blind, res>>
  /\ \/ device \in plugged /\ done' = done \union {<<"REVEAL", device>>} /\ UNCHANGED <<freed, noclient>>
     \/ UNCHANGED <<done, freed, noclient>>
     \/ device # None /\ freed' = freed + 1 /\ noclient' = TRUE /\ UNCHANGED done
  /\ Acts

Confirm ==
  /\ main = "confirm" /\ Amfi("ENABLE") /\ Acts /\ Goto("free") /\ UNCHANGED blind

Reveal ==
  /\ main = "reveal" /\ Amfi("REVEAL") /\ Acts /\ Goto("free") /\ UNCHANGED blind

-----------------------------------------------------------------------------
(* The restart of the device, with enable *)

Waits == UNCHANGED <<cmd, network, watch, world, noclient, done, blind>>

\* mutant: the pointer keeps the handle
Drop_Keeps == main = "drop" /\ Goto("gone") /\ freed' = freed + 1 /\ Waits /\ UNCHANGED <<device, res>>

Drop ==
  /\ main = "drop" /\ Goto("gone")
  /\ device' = None /\ freed' = 0
  /\ Waits /\ UNCHANGED res

\* mutant: the time is over and nobody looks
Gone_Late == main = "gone" /\ Goto("back") /\ Waits /\ UNCHANGED <<device, freed, res>>

\* WAIT_FOR(!device_connected), 40 s; what it waited for is looked at again
Gone ==
  /\ main = "gone"
  /\ IF connected THEN res' = 2 /\ Goto("free") ELSE Goto("back") /\ UNCHANGED res
  /\ Waits /\ UNCHANGED <<device, freed>>

\* mutant: the result of the arming stays
Back_Forgets ==
  /\ main = "back" /\ Goto(IF connected THEN "reopen" ELSE "free")
  /\ Waits /\ UNCHANGED <<device, freed, res>>

\* WAIT_FOR(device_connected), 60 s
Back ==
  /\ main = "back"
  /\ IF ~connected THEN res' = 2 /\ Goto("free") ELSE Goto("reopen") /\ UNCHANGED res
  /\ Waits /\ UNCHANGED <<device, freed>>

\* idevice_new looks for devices at the cable only; its result is not looked at
Reopen ==
  /\ main = "reopen" /\ Goto("confirm")
  /\ device' = IF udid \in plugged \ Networked THEN udid ELSE None
  /\ Waits /\ UNCHANGED <<freed, res>>

Free ==
  /\ main = "free" /\ Goto("done")
  /\ freed' = IF device = None THEN freed ELSE freed + 1
  /\ Waits /\ UNCHANGED <<device, res>>

Main == Subscribe \/ First \/ Open \/ Name \/ GetUdid \/ Status \/ Arm \/ Passcode \/ Confirm
        \/ Reveal \/ Drop \/ Gone \/ Back \/ Reopen \/ Free

Next == Plug \/ EventThread \/ Main

-----------------------------------------------------------------------------
(* Properties *)

TypeOK ==
  /\ cmd \in Ops /\ udid \in Udids \union {None} /\ device \in Udids \union {None}
  /\ cb \in Udids \union {None} /\ connected \in BOOLEAN /\ plugged \subseteq Udids
  /\ res \in 0..2 /\ freed \in 0..3
  /\ done \subseteq {"ARM", "ENABLE", "REVEAL", "ON"} \X Udids

\* The exit status 0 says that the mode is on or armed, confirmed or shown, for the device
\* that was meant: line 413 and the like.
DoneTrue ==
  main = "done" /\ res = 0 =>
    LET did(action) == \E u \in Wanted : <<action, u>> \in done IN
    CASE cmd = "enable" -> did("ON") \/ (did("ARM") /\ did("ENABLE"))
      [] cmd = "arm" -> did("ON") \/ did("ARM")
      [] cmd = "confirm" -> did("ENABLE")
      [] OTHER -> did("REVEAL")

\* The mode is confirmed on the device that was armed, after it went away and came back,
\* unless the events were late before it was armed (lines 384-410).
RestartSeen ==
  cmd = "enable" /\ main = "confirm" /\ ~blind => away /\ (device # None => Armed(device))

\* A device that goes has a name to compare with (line 228), and the handle is freed once,
\* unless the client of the service could not be made (line 208).
HandleFreed ==
  /\ events # <<>> /\ ~Head(events).add /\ cb = None /\ Head(events).udid \in Wanted => udid # None
  /\ ~noclient => freed <= 1 /\ (main = "done" /\ device # None => freed = 1)
================================================================================
