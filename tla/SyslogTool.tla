------------------------------- MODULE SyslogTool -------------------------------
(***************************************************************************)
(* tools/idevicesyslog.c on the device events of src/idevice.c.  main      *)
(* subscribes and sleeps until quit_flag is set.  The thread of usbmuxd    *)
(* delivers the events one after the other: device_event_cb starts the     *)
(* logger of the device it wants and stops it again, and a capture thread  *)
(* prints.  The library behind the events is external: it reports what is  *)
(* plugged in when it is subscribed to, and does not return from the       *)
(* unsubscription while a callback runs.  The text of messages is left out.*)
(***************************************************************************)
EXTENDS Naturals, Sequences, FiniteSets, Functions

CONSTANTS
  Udids,     \* devices
  Networked, \* those of them that are reached by the network
  Relayed,   \* those whose log comes from syslog_relay and not from os_trace_relay
  None,      \* no device: a NULL udid or handle
  MaxPlugs   \* bound: times that a device is plugged in or taken away

VARIABLES
  main,       \* where main is
  cb,         \* where the callback of the event thread is, "none" outside
  quit,       \* quit_flag > 0
  network,    \* use_network
  udid,       \* the device to log
  onExit,     \* exit_on_disconnect
  plugged,    \* devices that are there
  events,     \* events that were not delivered yet
  plugs,      \* changes of plugged so far
  subscribed, \* the context of idevice_events_subscribe is registered
  logger,     \* syslog or ostrace # NULL
  device,     \* device
  capture,    \* the thread that prints: "none", "running", "stopping" or "dead"
  filters,    \* whether there are trigger and untrigger filters
  triggered,
  off,        \* history: a message that ends the logging was printed
  printed,    \* history: what was printed after that one: "message", or a "line" that is none
  failed      \* history: the last attempt to start the logger has failed

world == <<plugged, events, plugs>>
prints == <<filters, triggered, off, printed>>
vars == <<main, cb, quit, network, udid, onExit, world, subscribed, logger, device, capture, prints, failed>>

\* the kind of connection that was asked for
Wanted == IF network THEN Networked ELSE Udids \ Networked

Plugged(e) == [type |-> "add", udid |-> e]
Unplugged(e) == [type |-> "remove", udid |-> e]

Init ==
  /\ main = "start" /\ cb = "none" /\ quit = FALSE
  /\ network \in BOOLEAN /\ udid \in Udids \union {None} /\ onExit \in BOOLEAN
  /\ plugged \in SUBSET Udids /\ events = <<>> /\ plugs = 0
  /\ subscribed = FALSE /\ logger = FALSE /\ device = None /\ capture = "none"
  /\ filters \in [on : BOOLEAN, off : BOOLEAN]
  /\ triggered = (filters.off /\ ~filters.on)
  /\ off = FALSE /\ printed = {} /\ failed = FALSE

-----------------------------------------------------------------------------
(* The devices and the user *)

Plug ==
  /\ plugs < MaxPlugs /\ plugs' = plugs + 1
  /\ \E u \in Udids :
       IF u \in plugged
       THEN plugged' = plugged \ {u} /\ events' = IF subscribed THEN Append(events, Unplugged(u)) ELSE events
       ELSE plugged' = plugged \union {u} /\ events' = IF subscribed THEN Append(events, Plugged(u)) ELSE events
  /\ UNCHANGED <<main, cb, quit, network, udid, onExit, subscribed, logger, device, capture, prints, failed>>

\* clean_exit
Quit ==
  /\ main # "done" /\ quit' = TRUE
  /\ UNCHANGED <<main, cb, network, udid, onExit, world, subscribed, logger, device, capture, prints, failed>>

-----------------------------------------------------------------------------
(* main *)

\* idevice_get_device_list_extended; a device at the cable counts with -n too
Counted == {u \in plugged : u \in Networked => network}

\* with no device and none asked for the tool ends
List ==
  /\ main = "start"
  /\ main' = IF Counted = {} /\ udid = None THEN "done" ELSE "subscribe"
  /\ UNCHANGED <<cb, quit, network, udid, onExit, world, subscribed, logger, device, capture, prints, failed>>

\* idevice_events_subscribe; its result is not looked at
Subscribe ==
  /\ main = "subscribe" /\ main' = "loop"
  /\ \/ subscribed' = TRUE
        /\ \E order \in Bijection(1..Cardinality(plugged), plugged) : events' = [i \in DOMAIN order |-> Plugged(order[i])]
     \/ UNCHANGED <<subscribed, events>>
  /\ UNCHANGED <<cb, quit, network, udid, onExit, plugged, plugs, logger, device, capture, prints, failed>>

\* mutant: the logger is stopped while the events go on
Loop_KeepsEvents ==
  /\ main = "loop" /\ quit /\ main' = "stop"
  /\ UNCHANGED <<cb, quit, network, udid, onExit, world, subscribed, logger, device, capture, prints, failed>>

Loop ==
  /\ main = "loop" /\ quit /\ main' = "unsubscribe"
  /\ UNCHANGED <<cb, quit, network, udid, onExit, world, subscribed, logger, device, capture, prints, failed>>

\* idevice_events_unsubscribe, which frees the context
Unsubscribe ==
  /\ main = "unsubscribe" /\ cb = "none" /\ main' = "stop"
  /\ subscribed' = FALSE /\ events' = <<>>
  /\ UNCHANGED <<cb, quit, network, udid, onExit, plugged, plugs, logger, device, capture, prints, failed>>

-----------------------------------------------------------------------------
(* stop_logging, called by main and by the callback *)

\* the capture is told to end, if there is one
StopCapture == capture' = IF capture = "running" THEN "stopping" ELSE capture

\* mutant: the handle of the service stays
Stopped_Keeps == capture \in {"none", "dead"} /\ capture' = "none" /\ device' = None /\ UNCHANGED logger

\* its thread has been joined, and the client and the device are freed
Stopped == capture \in {"none", "dead"} /\ capture' = "none" /\ device' = None /\ logger' = FALSE

MainStops ==
  /\ main = "stop" /\ main' = "join"
  /\ StopCapture
  /\ UNCHANGED <<cb, quit, network, udid, onExit, world, subscribed, logger, device, prints, failed>>

MainStopped ==
  /\ main = "join" /\ main' = "done"
  /\ Stopped
  /\ UNCHANGED <<cb, quit, network, udid, onExit, world, subscribed, prints, failed>>

Main == List \/ Subscribe \/ Loop \/ Unsubscribe \/ MainStops \/ MainStopped

-----------------------------------------------------------------------------
(* usbmux_event_cb and device_event_cb *)

Deliver(type) ==
  /\ cb = "none" /\ subscribed /\ events # <<>> /\ Head(events).type = type
  /\ events' = Tail(events)
  /\ UNCHANGED <<main, network, onExit, plugged, plugs, subscribed, logger, device, prints>>

\* mutant: any device that comes is taken for the one to log
Added_Any ==
  /\ Deliver("add")
  /\ udid' = Head(events).udid
  /\ cb' = IF ~logger THEN "device" ELSE "none"
  /\ UNCHANGED <<quit, capture, failed>>

\* the first device that comes is the one to log if none was asked for
Added ==
  /\ Deliver("add")
  /\ LET u == Head(events).udid
         takes == ~logger /\ u \in Wanted
     IN /\ udid' = IF takes /\ udid = None THEN u ELSE udid
        /\ cb' = IF takes /\ udid' = u THEN "device" ELSE "none"
  /\ UNCHANGED <<quit, capture, failed>>

\* with -x a device that goes ends the tool, if its logger was there
Removed ==
  /\ Deliver("remove")
  /\ IF logger /\ udid = Head(events).udid /\ udid \in Wanted
     THEN StopCapture /\ cb' = "join"
     ELSE UNCHANGED capture /\ cb' = "none"
  /\ UNCHANGED <<udid, quit, failed>>

RemovedEnd ==
  /\ cb = "join" /\ cb' = "none"
  /\ Stopped
  /\ quit' = (quit \/ onExit)
  /\ UNCHANGED <<main, network, udid, onExit, world, subscribed, prints, failed>>

\* a step of connect_service or start_logging that failed gives the device back
Fail == cb' = "none" /\ device' = None /\ logger' = FALSE /\ failed' = TRUE

CbRest == UNCHANGED <<main, quit, network, udid, onExit, world, subscribed, prints>>

\* idevice_new_with_options
Open ==
  /\ cb = "device"
  /\ \/ udid \in plugged \intersect Wanted /\ device' = udid /\ cb' = "service" /\ UNCHANGED <<logger, failed>>
     \/ Fail
  /\ CbRest /\ UNCHANGED capture

\* the handshake with lockdownd and its service, which may want the passcode first
Service ==
  /\ cb = "service"
  /\ \/ device \in plugged /\ cb' \in {"client", "passcode"} /\ UNCHANGED <<device, logger, failed>>
     \/ Fail
  /\ CbRest /\ UNCHANGED capture

\* the service was asked for again, and there is another answer; nothing says when
PasscodeEntered ==
  /\ cb = "passcode"
  /\ \/ device \in plugged /\ cb' = "client" /\ UNCHANGED <<device, logger, failed>>
     \/ Fail
  /\ CbRest /\ UNCHANGED capture

\* mutant: the loop ends with another answer only
Passcode_Blind ==
  /\ cb = "passcode" /\ quit /\ device \notin plugged
  /\ Fail
  /\ CbRest /\ UNCHANGED capture

\* the loop looks at quit_flag every second; the client of lockdownd is lost
Passcode ==
  /\ cb = "passcode" /\ quit
  /\ Fail
  /\ CbRest /\ UNCHANGED capture

\* ostrace_client_new or syslog_relay_client_new
Client ==
  /\ cb = "client"
  /\ \/ device \in plugged /\ logger' = TRUE /\ cb' = "activity" /\ UNCHANGED <<device, failed>>
     \/ Fail
  /\ CbRest /\ UNCHANGED capture

\* ostrace_start_activity or syslog_relay_start_capture_raw
Activity ==
  /\ cb = "activity"
  /\ \/ capture' = "running" /\ cb' = "none" /\ failed' = FALSE /\ UNCHANGED <<device, logger>>
     \/ Fail /\ UNCHANGED capture
  /\ CbRest

EventThread == Added \/ Removed \/ RemovedEnd \/ Open \/ Service \/ Passcode \/ Client \/ Activity

-----------------------------------------------------------------------------
(* The capture *)

\* mutant: the message that ends the logging is printed and nothing else
Off_Forgets(message) == FALSE

\* the message is printed and matches an untrigger filter
Off(message) == filters.off /\ triggered /\ message.off /\ message.kept

\* ostrace_syslog_callback and syslog_callback: whether the message matches a trigger, an
\* untrigger, and the filters on text and process
Message ==
  /\ capture \in {"running", "stopping"}
  /\ \E message \in [on : BOOLEAN, off : BOOLEAN, kept : BOOLEAN] :
       LET waits == filters.on /\ ~triggered /\ ~message.on
           over == filters.off /\ ~filters.on /\ ~triggered
           shown == message.kept /\ ~waits /\ ~over
       IN /\ triggered' = IF Off(message) THEN FALSE
                          ELSE triggered \/ (filters.on /\ message.on)
          /\ quit' = (quit \/ over)
          /\ printed' = IF shown /\ off THEN printed \union {"message"} ELSE printed
          /\ off' = (off \/ (filters.off /\ ~filters.on /\ shown /\ message.off))
  /\ UNCHANGED <<main, cb, network, udid, onExit, world, subscribed, logger, device, capture, filters, failed>>

\* syslog_callback: a line that is too short or has no date is no message; it is printed
\* whatever the filters say, and no trigger is looked for in it
RawLine ==
  /\ capture \in {"running", "stopping"} /\ device \in Relayed
  /\ printed' = IF off THEN printed \union {"line"} ELSE printed
  /\ UNCHANGED <<main, cb, quit, network, udid, onExit, world, subscribed, logger, device, capture,
                 filters, triggered, off, failed>>

\* told to stop, or the connection is lost: nobody hears of that
CaptureEnds ==
  /\ capture \in {"running", "stopping"} /\ capture' = "dead"
  /\ UNCHANGED <<main, cb, quit, network, udid, onExit, world, subscribed, logger, device, prints, failed>>

Next == Plug \/ Quit \/ Main \/ EventThread \/ PasscodeEntered \/ Message \/ RawLine \/ CaptureEnds

CaptureStops == capture = "stopping" /\ CaptureEnds

-----------------------------------------------------------------------------
(* Properties *)

TypeOK ==
  /\ main \in {"start", "subscribe", "loop", "unsubscribe", "stop", "join", "done"}
  /\ cb \in {"none", "device", "service", "passcode", "client", "activity", "join"}
  /\ udid \in Udids \union {None} /\ device \in Udids \union {None} /\ plugged \subseteq Udids
  /\ capture \in {"none", "running", "stopping", "dead"}

\* The logger belongs to one thread at a time: main stops it when no callback can run any
\* more (idevicesyslog.c:1263), and leaves nothing behind.
OneOwner ==
  /\ main \in {"stop", "join", "done"} => cb = "none"
  /\ main = "done" => ~logger /\ device = None /\ capture = "none"

\* Once every event was handled, the logger is there if and only if the device it was
\* started for is plugged in, unless it could not be started (device_event_cb, lines 833-852).
Follows ==
  main = "loop" /\ subscribed /\ cb = "none" /\ events = <<>> /\ ~failed =>
    /\ logger => device = udid /\ udid \in plugged
    /\ udid \in plugged \intersect Wanted => logger

\* Without a trigger to start it again, logging ends with the message that was to end it
\* (lines 415-448): no message is printed after it, also not for another device or
\* connection.  Lines of syslog_relay that are no messages go on (lines 225 and 363).
OffIsOff == "message" \notin printed
================================================================================
