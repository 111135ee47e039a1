# A TLA+ model of libimobiledevice

libimobiledevice is a C library: a program on a computer calls it to talk to the
services of an iOS device over connections that usbmuxd multiplexes. The library keeps
little data and a lot of protocol: who may use a connection now, which reply belongs to
which request, when a background thread is over, what client and device each believe
about the session they share. These modules model that control. Data (plists, paths,
bytes) is abstracted to what the properties tell apart.

All paths below are relative to the repository (`src/notification_proxy.c` is
`src/src/notification_proxy.c` in `PROJECT.json`).

## 1. The system

| part | state it keeps | operations | talks to |
|---|---|---|---|
| `src/idevice.c` | device handle (udid, version, device class), connection with its SSL data, event subscriptions | connect, send, receive with timeout, SSL on/off, events | usbmuxd, TLS library |
| `src/service.c`, `src/property_list_service.c` | a pointer to the connection | raw and plist send/receive, service start through lockdown | idevice |
| `src/lockdown.c`, `common/userpref.c` | session id, SSL flag; the pair record on disk; cached version and class in `idevice_t` | handshake, pair, validate, unpair, session, start service | lockdownd, disk |
| `src/notification_proxy.c` | mutex, parent, notifier thread | post, observe, callback, free | notification_proxy |
| `src/afc.c` | mutex, packet buffer, packet number | some twenty file operations | afcd |
| `src/installation_proxy.c` | mutex, parent, status thread | commands, sync or with a status callback | installation_proxy |
| `src/syslog_relay.c`, `src/bt_packet_logger.c`, `src/ostrace.c` | parent, worker thread | start/stop capture, requests of ostrace | the three relays |
| `src/device_link_service.c` with `mobilesync.c`, `mobilebackup.c`, `mobilebackup2.c`, `screenshotr.c` | parent; data class and direction of a sync | handshake, sync session, backup and restore messages, screenshot | the four services |
| `src/reverse_proxy.c` | parent, control thread, the last connection thread | start, callbacks, free | reverse proxy, hosts |
| `src/debugserver.c`, `tools/idevicedebug.c` | acknowledge mode, receive buffer; quit flag | commands and packets; run, kill, detach | debugserver |
| `tools/idevicedebugserverproxy.c` | list of handler threads, quit flag | accept, carry, end | debugserver, local debuggers |
| `src/mobile_image_mounter.c`, `tools/ideviceimagemounter.c` | mutex; the state of an upload | lookup, upload, mount, unmount, hangup | image mounter, AFC, Apple's server |
| `diagnostics_relay`, `sbservices`, `misagent`, `mobileactivation`, `house_arrest`, `file_relay`, `heartbeat`, `restore` | parent; sbservices a mutex, misagent a status code, house_arrest a mode | one exchange for each call | their services |
| `src/companion_proxy.c`, `src/preboard.c` | parent, event thread | calls, start and stop of the listener | their services |
| `src/webinspector.c` | the parts of a packet | send, receive | web inspector |
| `src/lockdown-cu.c` | key of a PIN pairing | pairing by PIN, requests under the key | lockdownd |
| `tools/idevicebackup.c`, `tools/idevicebackup2.c` | backup directory with Status.plist, sync lock on the device, quit flag | backup, restore and the commands around them | mobilebackup(2), AFC, notification proxy |
| `tools/idevicesyslog.c` | the logger, the device it logs, triggers, quit flag | start and stop with the device's events | the log relays |
| `tools/idevicecrashreport.c`, `tools/afcclient.c` | a tree that is copied | copy and remove; cd, get, put | AFC |
| `tools/idevicedevmodectl.c` | udid, `device_connected`, the handle | arm, wait for the restart, confirm, reveal | lockdownd, amfi, device events |
| other `tools/`, `cython/`, `docs/`, `3rd_party/` | – | programs, bindings, text, arithmetic | the library |

### How the parts interact

A service is started by `service_client_factory_start_service`: a lockdown handshake
(`lockdownd_client_new_with_handshake`), `lockdownd_start_service`, the end of the
lockdown client, then `service_client_new` on the port it named. From then on a client
owns one connection. Threads of the application share a client through its mutex where
it has one (np, afc, instproxy, image mounter) and must not share it where it has none.
Background threads (notifier, status, worker) share the client through two fields:
the thread handle and `client->parent`, which is both the connection and, when NULL,
the order to stop. The device is the other actor: it answers late, in pieces, with an
error, with something else, or never. In a backup the roles are reversed: the device asks
and the tool serves it. A signal sets `quit_flag` at any step of a tool.

### What is hard

* a background thread is stopped through a pointer that it reads before and after
  waiting for a lock or for data (np, instproxy, the captures);
* a lock is released by hand on every error path (about twenty operations of afc);
* a reply is matched weakly (lockdown: by the name of the request; DeviceLink: not at
  all; afc: by packet number, but the stream is never found again), so a timeout turns
  into a wrong answer of a later call;
* half-done changes: a session without TLS, a trusted host whose record is not on disk,
  an accepted command whose thread could not be created;
* reports and marks that others rely on (an exit status, "Backup Successful",
  Status.plist, the removal of a report from the device) are put together on many paths;
* a tool that was told to quit must get out of every wait;
* boundaries: the afc buffer, the number of bytes written, the length of a packet, a packet
  as long as some chunks, a descriptor that is used again.

`PROJECT.json` lists each hazard at its line with the properties that watch it.

### What makes each part correct

* np: one notifier, the one the handle names; no callback of a registration that was
  replaced; no notification lost or repeated; the connection used by one thread at a
  time; nothing used after free; free returns.
* afc: header and payload arrive as one packet; the data fits the buffer; a call gets its
  own reply or an error; every path unlocks.
* instproxy: a status reaches the command it is about; one receiver at a time; a
  command that reports success was completed; free waits for the thread.
* captures: one worker; whole messages in order; a stop returns and ends the callbacks.
* lockdown: client, device and disk agree on session, TLS and trust; what is cached for
  other clients is right.
* DeviceLink: client and device agree on the session and its direction; a success is
  the answer to the request it is reported for.
* request and reply services: a call takes its own answer, whoever shares the client and
  whatever came late; a listener is the only one, and gone before free is over.
* connections: the stream is whole with and without SSL and across timeouts.
* reverse proxy: hosts get what was sent to them; threads end before what they use is freed.
* backups: host and device agree on where in the stream they are; every request is
  answered once; a success is one; an interrupted backup does not look complete; the lock
  covers the work.
* tools: what they report happened; what they remove was copied; they end when told to.

## 2. The modules

### NotificationProxy (with NotifyCallback, NotificationProxy_proofs)

`src/notification_proxy.c`, whole. Application threads (`Threads`) are at a program
counter `apc`, notifier threads at `npc`; every step lies between two accesses to shared
state. `SendCall .. SendReturn` are post and observe (an observe of several names sends
several plists under one lock), `SetCallback*` is `np_set_notify_callback`, `Free*` is
`np_client_free`, `Notifier*` is the loop of `np_notifier` with `np_get_notification`.
`calls`, `sent`, `taken`, `delivered` are history. The device relays names that were
observed, sends ProxyDeath after Shutdown, sends junk, or is lost.

`np_client` checks with two application threads, two registrations, two messages with two
different names and a callback that itself posts (`CallbackPosts`): locking, the one notifier
and the borrowed pointer (`IInv`, the inductive invariant of the proofs), lifetime
(`NoUseAfterFree`), delivery (`NothingLost`), termination of free (`FreeReturns`), and that
the client implements `NotifyCallback`, in which registering, removing and freeing are single
steps and each report is one step of the registered callback. Two registrations are the least
that let an old notifier meet a new one, two messages with two names the least that can be
reordered.

`np_join_deadlock` is the one that fails, see findings. The deadlock of that finding is
why these two runs do not ask for the absence of deadlock: the program really stops.

### AfcClient (with RequestReply, AfcClient_proofs)

`src/afc.c`, every operation, as one call with the operation as a parameter: what they
differ in is data (`need`: the bytes they put in the buffer and whether they check it;
what counts as an answer). `Call`, `Lock`, `Prepare` (the buffer check and the fill),
`SendPacket`, `SendPayload` (`afc_dispatch_packet`), `ReceiveHeader`, `ReceiveThis`,
`ReceiveRest` (`afc_receive_data`), `Unlock`. The stream from the device is a position
`pos` in a sequence of replies with known starts: a read that begins elsewhere finds no
header. `aborted` stands for the outcomes of a double free that end the process; the
other outcome is that nothing happens. The word size is 2^16 in the model (`Word`), with
all lengths below it; only the wrap at zero matters.

`afc_client`: two threads and three calls, a path longer than the first buffer (so that it
grows), short, late and odd replies, with and without SSL (which changes the errors). Three
calls are needed for a reply to be late for the next call and for the one after that. It
shows mutual exclusion, whole packets and the buffer (`Inv`), that a call reads the reply to
itself from its first unit to its last, leaves nothing when it succeeds, and gets nothing
once the client has lost its place (`ReplyIsOwn`; the code has no resynchronisation), that
calls return (`CallReturns`), and the refinement of `RequestReply` (a request is performed at
most once, and a call that succeeds was performed).

### InstallationProxy (with InstallationProxy_proofs)

`src/installation_proxy.c`: `instproxy_perform_command` with its steps outside the mutex
(check of the handle, send, second check, `thread_new`), the status loop in a thread or
in the caller, its end under the mutex, and free. `abandoned` is history: a command was
left half-way (a malformed message, or a thread that could not be created).

`ip_client` has ONE application thread. With two, `instproxy_perform_command` is check
then act: both pass the check, and the status of one command reaches the callback of the
other. The model shows it at once when `Threads` has two members; the library does not
promise otherwise, so this is stated here and not listed as a finding. Three commands
and three messages let a status be late for the next command and a free meet every
point of the loop. It checks the mutex, the handle and the lifetime (`Inv`), that statuses
and successes belong to their command (`StatusToOwnCommand`), and `FreeReturns`.

### CaptureClient (with Capture, CaptureClient_proofs)

The workers of `src/syslog_relay.c`, `src/bt_packet_logger.c` and `src/ostrace.c` in one
module: they differ in the number of parts of a message (1, 2, 3) and in what they do
when a part is short, so `service` is chosen in `Init`. ostrace adds requests on the same
connection. The device is never told of a stop and streams on. `cut` is history: a
message was left half-way.

`capture_client`: two captures, two requests, four messages. It checks that one worker runs and
that messages are whole (`Inv`), `StopReturns` and that the client implements `Capture`:
deliveries only between a start and the end of the stop, in the device's order, none twice. The
last holds even after a cut.

Assumed: the callback calls neither stop nor free (it would join itself); a message
enters the buffer as a whole, although a receive may time out before it; a length is read
whole. The NUL filter of syslog is left out.

### Lockdown (with Lockdown_proofs)

`src/lockdown.c` with the record functions of `common/userpref.c` and the connection of
`src/service.c`. One variable `pc` runs through the exchanges of a call; `Send` and
`Step` are one exchange, the action of each exchange is the code around it. `record` is
what is on disk; `version` and `class` are the cache in `idevice_t`, which outlives the
client. `late` says whether a receive has timed out on this connection (`now`) or before;
`sslFailed`, `diskFailed`, `forgot` are history for outcomes that no client can repair.

`lockdown_client`: three calls (handshake, a call, another; or handshake, start service, service
connection), three pairings, both kinds of device. It shows that client and device agree on the
session and on SSL (`Inv`), `RecordTrusted`, `CacheRight` and `CallReturns`. The conditions in
them are the point: without `late`, TLC finds that the reply of a GetValue for the version which
comes after its timeout is taken for the device class, and is kept for later clients. An
application may stop calling, so deadlock is not checked.

### DeviceLink (with DeviceLink_proofs)

`src/device_link_service.c`, `src/mobilesync.c`, `src/mobilebackup.c`,
`src/mobilebackup2.c` and `src/screenshotr.c` in one module, `service` chosen in `Init`.
`New`, `ReceiveVersion`, `ReceiveReady` are the handshake, `Call` the checks at the head
of a call and its request, `ReceiveAnswer` its answer, `Reply` the ping or the
acknowledgement that two of the calls send then, `Session` what start, finish and cancel
do to `data_class` and `direction` whatever came before. `PLIST_ERROR` also stands for
REPLY_NOT_OK and NO_COMMON_VERSION, and the device's answer outside a session is left
open. `behind` is history: a message was left unread for a later call.

`device_link`: four services, device versions below, at and above the client's, six calls
in any order (a new client, a session, its two directions, its end and a new start).
`SessionKnown` in `Inv` is why `mobilesync_start` sets `data_class` even after an error.
`AnswerOwn` and `ChangesAsked` hold until something is left `behind`.
An application may stop calling, so deadlock is not checked.

### Backup2, Backup, SyncLock (run by MCTools, with Tools_proofs)

`SyncLock` is the code the two backup tools share: the lock file over AFC, its attempts, and the
notifications around it. `Backup2` is `tools/idevicebackup2.c` on `src/mobilebackup2.c`: after the
request the device leads, and the model has one action for each DLMessage handler (`HandlePlain`,
`Copied`, `Removed`, the file transfers unit by unit: header length, name length, name, data, and
the status response that ends each). `inbox`, `pending` and `todo` are where device and host are
in the protocol. A receive that ends after its 30 s gives what has come until then, often nothing,
and no error (`mobilebackup2.c:258-270`); the tool goes on, and what it reads next is the middle
of a file. `DeviceStalls` is that: an upload has become a `Rest`, of which the tool, now `Astray`,
may take any part for a name, a length, data or a message, until a receive in the loop ends it.
(Over TLS the receive that failed has closed the session, so that nothing comes any more: this is
one of the outcomes.) `garbled`, `stalled` and `unanswered` are history: data was taken for
something else, the device was silent in an upload, a request was not one. `Backup` is
`tools/idevicebackup.c`: the run is repeated on the same directory, `data`, `info`, `manifest` and
`stat` are the files of it, `phone` is what the device has now, so that a content of an earlier
run is told from one of this run; Info.plist is removed and written anew (`WriteInfo`), and a
write may fail. `Crash` ends a run at any step. `stale` is history: a full backup has begun to
overwrite an older one, whose manifest is still there.

In `tools` (below): two files (one is Status.plist) of one and three units with a buffer of two (so
that a file comes in one hunk or in two, of different lengths), three requests of the device, two
runs, two attempts at the lock. Three requests let a leftover of the first be taken for the second
and show in the third.
`InStep`: both agree on the place in the stream, and the tool does not wait for a device that
waits for it; only a quit, a file that cannot be opened or a silence of the device makes the tool
lose its place. `BackupTrue` is about reports and Status.plist; after a silence nothing is claimed
of the files. `RestoreTrue` and `LockCovers` are of both.
`backup_status` is `idevicebackup` alone, without the exception for `stale`, and must fail (§6).

### ReverseProxy (run by MCClients, with Clients_proofs)

`src/reverse_proxy.c`, whole: the application starts and frees, the control thread (`Ctrl*`),
connection threads (`Conn*`, `Out*`, `In`, `Close`), and file descriptors, which the system gives
out again: closing one twice may close another session's socket. `dropped` is history: a
connection thread whose handle was overwritten before it was joined; `early`: free found no
control thread although it ran; `foreign`: a close hit another thread's socket; `nulled`: a
connection thread looked through `client->parent` for the device (353, 362) after free had set it
to NULL (649), which ends the behaviour; `opening`: when free began a request to connect was being
taken, or a thread that was started for one had not yet looked. In `clients` it has two
connections, two descriptors, two sessions for each and three items: a second connection
overwrites the handle of the first, a second session uses a descriptor again. `UseSafe`,
`RelayFaithful` and `FreeReturns` are about it; the last part of `UseSafe`, `OnlyWhileOpening`,
says how far the NULL pointer reaches: only a thread whose request was under way when free began
can meet it (without this exception TLC shows that it does).

### Services, EventThread, ImageMounter, PairCU, Connection, WebInspector (run by MCClients, with Clients_proofs)

A behaviour of MCClients is one of the component that `which` names; components share
variables of the same name, and the variables of the others are `Unused`.

* `Services`: a call is a record that says whether it sends, whether a failed send ends
  it, what it receives and whether it looks at the answer; every public call of the eight
  services and of lockdown's plain exchanges is one such record, and a service is a set of
  them. `owed` is what the device still has to answer, `skew` and `half` say that the
  stream begins or ends inside a message (a timeout in the body, a send that broke off).
  Two threads, because sbservices may be shared; four calls, so that a late answer can
  meet each kind of call and the one after.
* `EventThread`: companion_proxy and preboard. The handle is stored after the thread was
  started, cleared by the thread itself, and looked at twice by stop and free. Three
  listeners in a row, three requests.
* `ImageMounter`: the library calls in the order of `tools/ideviceimagemounter.c`, for the
  three generations of devices and four commands; two blocks, so that an upload can stop
  in the middle.
* `PairCU`: the six steps of SRP and the requests under the key; three pairings, so that
  an old key, a broken pairing and a new one can follow each other.
* `Connection`: `src/idevice.c` as built with OpenSSL. A record has a head of two parts, which
  the library keeps (`record`), and a body of two; `internal_ssl_read` fetches either, and drops
  what it has of it when a timeout comes in between (line 993, `torn`). Both receives have a
  timeout: the caller's, behind which the session is opened again (`SslTimeout`), and the one that
  is predefined (`libimobiledevice.h:325-326`), behind which nobody opens it (`SslExpires`, `expired`).
  `due` is the library's count of records, which their digest covers. Two units from the
  device are eight parts, so that a torn first record is followed by a whole one.
* `WebInspector`: chunks of two units, packets of up to five, two messages each way: every
  remainder occurs, and a message can be taken for the rest of the one before.

`clients` checks `OwnAnswer`, `ListenerKnown`, `ListenerStops`, `MountTrue`, `KeyAgreed`,
`StreamTrue`, each the conjunction of the properties of the components it is about, and the three
of ReverseProxy.

### DebugServer, DebugProxy, SyslogTool, CrashReports, AfcShell, DevMode (run by MCTools, with Tools_proofs)

Built like MCClients, with the two backup tools; `Tools` are the tools that a run looks at.

* `DebugServer`: `src/debugserver.c` under `tools/idevicedebug.c`; `Script` is the order of
  commands, `ReceiveResponse` all that can come instead of a response.
* `DebugProxy`: `tools/idevicedebugserverproxy.c`; the list keeps the first and the last
  thread, so three connections.
* `SyslogTool`: `tools/idevicesyslog.c` on the subscription of `src/idevice.c`; a USB and a
  network device and three changes of what is plugged in. `Relayed` are the devices with the older
  syslog_relay, whose lines need not be messages (`RawLine`: short, or without a date); they are
  printed whatever the triggers say. `OffIsOff` is therefore about messages only.
* `CrashReports`: `tools/idevicecrashreport.c`; a directory inside another, a link, and two
  reports that get the same name on the host; with `-e` a report is also written as a '.crash'
  file (`RawName`), whose name may be that of another one.
* `AfcShell`: `tools/afcclient.c`; two files of two blocks in a directory, three commands,
  cd three deep. A block that stdio still has is written by fclose, of which nobody takes the
  result (`Fclose`, `unflushed`); `CopyTold` says that no more than that is lost without a
  word.
* `DevMode`: `tools/idevicedevmodectl.c`; a wait may end by its time at any moment, the device
  comes and goes as it likes, and the callback is two steps, since it looks at `udid` before it
  copies one. Two devices at the cable (so that the wrong one can be armed or waited for), one
  in the network, three changes (it goes, it comes, and one for another device). `blind` is
  history: the device was armed while events were late; then the tool may take an earlier
  absence for the restart.

`tools` checks `ReportTrue`, `OneOwner`, `LogTrue` and those of the backups, for all eight.
`tools_end` checks `ToolsEnd` and `QuitEnds` for the five tools that wait for a device in more than
one place: idevicebackup runs once in it (a second run begins like a first one), and the backup
device has two requests: an upload of one file, which the tool may lose its place in, and the
message that ends the operation are the least that leaves every wait with another one behind it.

## 3. Fairness

`FairSpec`, and `Spec` of MCClients and MCTools, assume weak fairness of the steps of a
thread that is inside the library or of a tool that is not waiting for its user: a runnable
thread runs, and waits that have a timeout (500 ms, 1 s, 30 s) end. A receive without a timeout
of its own has the predefined one (`libimobiledevice.h:325-326`), also those that the SSL
handshake makes. `np_join_deadlock`
assumes strong fairness, a mutex that starves nobody (`StrongFairSpec`), so that its
counterexample is the deadlock and not a thread that never gets its turn. Nothing is assumed
of the device, no application is assumed to call anything, and no signal to come: `QuitEnds`
and `ToolsEnd` begin with the quit. Where a wait has no bound in the code the property says
so: a relay (`ReverseProxy!Relaying`) or a device that never stops sending
(idevicedebugserverproxy). `device_link` is checked for safety only. The timeouts are not
bounded in number, so that a liveness property does not hold merely because a bound was
reached. Deadlock is not checked where an application may stop calling or a tool has ended.

## 4. Assumptions common to the modules

* `thread_new` may fail and then leaves the handle as it was; allocation does not fail,
  apart from the afc buffer and body.
* A free function is called once, when no other call on that client is in progress; this is
  what the C API requires.
* Sends are atomic and ordered (Connection, Services and the tools look at sends that break
  off), receives get what was sent in order; the connection may be lost at any time.
* What device, host or user give is chosen when it is read, so a queue of it is no state.
* A behaviour ends after undefined behaviour.
* A timeout in the middle of a plist is in Services; the other modules take a plist whole.

## 5. What is proved

Each `X_proofs` module proves theorems about `X` for every value of its constants that its
`ConstAssumption` admits: any number of threads, calls, messages and registrations. The
assumptions give the kinds of the constants; in AfcClient also that there is a reply to
choose and that the threads are finitely many (their packet numbers are counted). TLC
evaluates them in every run, and it checked each inductive invariant before it was proved.

| module | theorem | states |
|---|---|---|
| NotificationProxy | `TypeCorrect`, `MutexCorrect`, `NoOrphanCorrect`, `ParentCorrect` | parts of `IInv` |
| | `FreeCorrect`, `CallbackCorrect` | `NoUseAfterFree`, the action property `OnlyRegisteredCalled` |
| | `Delivery` | `NothingLost` |
| | `Contract` | `Spec` implements NotifyCallback |
| AfcClient | `Safety`, `OwnReply` | `Inv`, `ReplyIsOwn` |
| | `Contract` | `Spec` implements RequestReply |
| InstallationProxy | `Exclusive` | the mutex, for any threads |
| | `Safety`, `OwnStatus` | `Inv`, `StatusToOwnCommand`, for one application thread |
| CaptureClient | `Safety` | `Inv` (`WorkerNamed`, `WholeMessages`) |
| | `Contract` | `Spec` implements Capture |
| Lockdown | `Safety`, `RecordKept`, `CacheKept` | `Inv`, `RecordTrusted`, `CacheRight` |
| DeviceLink | `Safety` | `Inv` (`SessionKnown`) |
| | `OwnAnswer`, `OnlyAsked` | `AnswerOwn`, `ChangesAsked` |
| MCClients | `AlwaysParts` | the inductive invariants of its seven components |
| | `SafeUse`, `RelaysFaithful` | `UseSafe`, `RelayFaithful` |
| | `AnswersTheirOwn`, `StreamsTrue` | `OwnAnswer`, `StreamTrue` |
| | `OneListener`, `WholeImages`, `PairingAgrees` | `ListenerKnown`, `MountTrue`, `KeyAgreed` |
| MCTools | `AlwaysTools` | the inductive invariants of its eight tools |
| | `ReportsTheTruth`, `OwnedByOne`, `LogsTheDevice` | `ReportTrue`, `OneOwner`, `LogTrue` |
| | `StaysInStep`, `BackupsComplete` | `InStep`, `BackupTrue` |
| | `RestoresComplete`, `UnderTheLock` | `RestoreTrue`, `LockCovers` |

In every module there is a lemma for each conjunct of the inductive invariant, with one step
for each action that can disturb it. What the invariants add:

**NotificationProxy.** That a running notifier is the one the handle names depends on who
may clear or replace the handle, hence on the mutex (`MutexHeld`), on free being alone in
the client (`FreerAlone`), and on when the handle is set (`HandleState`): a handle that
became 0 before a join would leave its thread behind. That the pointer is given back depends
on the saved copy being the real one (`SavedParent`), and that nothing is used after free on
who has freed (`FreedByFreer`). For delivery a notifier holds a name exactly while it is
about to call back (`HeldForCallback`), so an exited or unborn one holds none. Every step
does one of nine things to the callback and the notifications (`Kinds`: it registers,
relays, takes, reports, drops, ...); `NothingLost` and the step of NotifyCallback are shown
for each of the nine. `NothingLost` counts the names in a queue up to a place (`Rank`) where
one would filter the queue: a filter is defined by recursion and nothing can be proved of
it, a count changes by one when an element is appended or taken (`CarriesName`,
`CarriesTail`). NamesAssumption says that kinds of thread and message differ.

**AfcClient.** The thread inside the mutex has the last packet number, and the device has its
request unless it is still being sent (`Numbers`, `PayloadDue`); the stream ends behind the last
reply and is not read past its end (`StreamEnd`); a call in a body has the rest of its own reply
before it (`Body`). Once a call has left its reply unread, the position is behind the header the
next call looks for, and stays there, since a refused header takes 5 units of a stream that
grows by at least as many with each request (`StaysBehind`): that is `OwnReply`, and why a client
never recovers. The buffer is large enough because only operations that name a path are checked
for and only they carry more than its first size (`DataSmall`).

**InstallationProxy.** The command of a status and the handle are tied by a number:
a status thread bears that of its command. `Exclusive` needs no hypothesis. `Safety` and
`OwnStatus` are proved under `OneThread` (no two application threads), as the run checks them,
because they are false without it: `instproxy_perform_command` looks at the handle at two
places that no lock joins. Under it there is one reader of the stream at any time
(`OneReader`), none while a command begins, and free joins the thread before it closes.

**CaptureClient.** The numbers of the parts on the stream, in the worker's hands and delivered
are in one increasing order (`OrderOK`), which is all the refinement needs and survives a cut.
`WholeMessages` needs what is under way while nothing is cut (`Uncut`): the stream begins at the
part the reader waits for, a reply comes before the logs of its request, and a call that
waits for a reply has a request at the device or a reply on the way. TLC had not needed the
last; the proof did.

**Lockdown.** Two arguments. `OnTime`: until a reply is late, one request or reply is under way,
it belongs to the exchange in progress, and it answers to the step the client is at; from that
come `SessionAgrees` and, with what is saved and deleted when, `Trust` and `CacheRight`. `TlsOK`: no
session is ever started under TLS, so both ends put up and take down the layer in turn.

**DeviceLink.** Along the queue of requests under way (`Agrees`) the device ends in the session whose
class the client keeps, whatever the client's calls failed or succeeded with, unless the last
request is a finish or cancel. `OwnAnswer` and `OnlyAsked` need what is under way in both
directions while nothing was left unread (`FullInv`). Of each call that waits for its own
answer there is one request or answer (`Single`), it belongs to the call in progress
(`Numbered`), and there is none without one (`OwnOnly`). A cancel of the device breaks this for
a start: the call takes the `cancelled` for its answer and the real one comes later. It
harms nothing, because the answer is then the next message of the device (`LeftStart`) and no
second start is made before it was taken (`OpenStart`, `BetweenSessions`). What the device said
of a session comes before the message that ends it (`SessionOver`), and as long as it has not
asked, no message that turns the direction is under way (`DirectionKnown`). A clear that the
device reads outside a session gets no answer (`Dead`): without this case the invariant is false.

**Clients (MCClients).** A step is one of the component that `which` names, so that `Parts`, the
invariant of each component under its name, is inductive when each of the seven is
(`PartsSteps`); the assumptions, one for each component, are those of kinds and that a chunk
and an image are not empty (an upload of nothing is refused, `mobile_image_mounter.c:190`).

* Services (`RequestsInv`): a thread that is busy has the lock, so that no other is (`BusyAlone`);
  when it has sent and no answer of that name was outstanding, the only one that is to come is
  its own (`ThreadInv`), because the queue grows by its request alone. For a call that only
  receives it needs that the one thread of that client has at most one answer before it.
* EventThread (`EventsInv`): a live listener is the one of the handle or of the one that is being
  stored, a handle is stored only when there is none, and free finds none.
* ImageMounter (`ImagesInv`): what the device waits for is what is left of the image, unless the
  upload was cut; the result is set by the last step of a command only.
* PairCU (`PairingInv`): from the second message on the device is in the pairing of the host.
* Connection (`LinkInv`): each part has a place in all that the device sends, and what has
  arrived are the last places (`SecureInv`). The library counts the records it has handed on,
  so that with `due` only the next one is accepted. Until a head or a body was torn, the parts in the
  two buffers and on the wire go on from the last unit that the caller has, and the session is
  shut only on a lost socket or after a predefined timeout. After it, parts are missing in front of all
  that follows, so that no four of them make the record that is due, which is why the lost bytes of
  line 993 end the session and never reach the caller. Leaving SSL with anything unread means that
  the ends are `apart`.
* WebInspector (`InspectorInv`): while a message is sent the device has its first units and
  nothing else (`SendInv`); the chunks that arrive go on where the packet ends (`ReceiveInv`).
* ReverseProxy (`ReverseSafe`, `RelayInv`): the handles name the threads that run (`HandleState`,
  `ConnsNamed`), the last connection thread is joined before the control thread ends or is
  `dropped` (`LastJoined`), and free has waited unless it was `early` (`FreeWaited`). Unless a
  request was under way when free began, no thread is on its way to a connection once `parent` is
  cleared (`OpenWindow`). A thread in its relay has a session of its own (`SessionOK`) whose
  socket stays open until a second close of a descriptor hits it (`SocketOK`), and the host has
  all the thread has read since the request (`HostOK`).

**Tools (MCTools).** Built in the same way (`PartsSteps`). The assumptions: connections have numbers
other than 0, devices and files are finitely many, no device is `None`, and names of reports are
other than the five marks the module uses; which directories the reports lie in is fixed (two
directories, a link), the reports and their sizes are not. Of the backups: the hashed files and
Status.plist are among the files, buffers hold something, and there is a run and an attempt.

* idevicedebug (`DebugInv`): responses are one behind only after something went wrong. Until then, and
  before the program starts, nothing is under way between two commands; the last response says how
  the program is, and a status comes only behind the command that lets it go on.
* idevicedebugserverproxy (`ProxyInv`): the list has the first and the last connection, main takes
  them when they have ended, and the device is freed with an empty list.
* idevicesyslog (`SyslogInv`): along the queue of events (`Leads`: the devices heard of so far,
  each event adds or removes one, and the last set is what is plugged in) the callback's view
  agrees with the logger (`Sees`); once a message has ended the logging none is printed, a raw
  line may be. `OwnerInv` says who may stop it.
* idevicecrashreport (`ReportsInv`): the report that is being copied has its name on the host for itself,
  with as many blocks as were read, unless the disk did not take one; a name that is used
  again, also for a '.crash' file, is `late`. What is gone stays gone (`GoneStays`).
* afcclient (`ShellInv`): the files behind the current one are complete, or have lost their last
  block in fclose, those ahead are untouched, and it has `pos` blocks (`TransferInv`); `curdir` is
  never deeper than the one that was meant (`DirInv`).
* idevicedevmodectl (`ModeInv`): until the armed device goes away it is connected and plugged in, and no
  event says otherwise (`AwayInv`); a device that is known has given its name (`HeardInv`, the
  argument of the queue of events again); a handle is freed by who has it (`HandleInv`).
* idevicebackup (`OneInv`): what decides is not which files were written but which the phone will
  not send again. What a manifest lists as it is on the phone is complete in the directory
  (`ManifestInv`, over all runs and crashes); while a run goes on, so is what the phone skips
  because of the manifest it was sent, and what it was acknowledged (`LoopInv`, with the messages
  under way in `OneSent`). When the phone says that it has finished these two are everything.
  `StatusInv` says that Status.plist is 1 only before and after, and `RestoreInv` that a restore
  has sent what was verified.
* idevicebackup2 (`TwoInv`): `Stream` says what may follow an item of an upload and that it ends with a
  zero, or anywhere when the device has gone. Where the tool is (`UpInv`) fixes what it finds at the
  head of the stream: a name, a record of the current file at the place where its copy on the disk
  ends, or nothing. A file of the upload is on the disk, is being written or is still announced
  (`BatchInv`), so that when the tool answers, all of them are there. Behind a silence none of this is
  claimed; what is, is that the rest of the upload is all there is in the stream (`RestInv`, `Strayed`),
  so that the tool meets it in one place, and never a request behind it. Before a message there is
  one request, which the device waits to have answered, or none (`Listening`).
* Both have the lock while they work (`LockKept`), if they could open the lock file.

**Findings of the proofs.** The proof about Backup asked what the message that ends a backup leaves
behind, and the answer was that the step which takes it is never enabled: it read the message
twice, so that no run of TLC had ever seen a backup finish. With that repaired (`ReceiveEnd`) TLC
found that Status.plist can say success of a damaged directory, and that one is in the code (§6).

`QueueOK` of DeviceLink was not inductive at first: the device's
answer to a ready call, two changes, put the rest of the messages under way before and behind
its own. The queue is short in every state of the run, so TLC saw nothing. The
action was wrong, not the code; it now adds its messages once (`SyncAnswer`).

**Only model-checked.** Every safety property of a passing run is proved. Out of the prover's reach:
liveness under fairness and ENABLED (`FreeReturns`, `CallReturns`, `StopReturns`, `QuitEnds`,
`ToolsEnd` and the others of §3), and what a recursive definition computes for every input.

## 6. Findings

Three runs that must fail:

| run | the code | what is said of it |
|---|---|---|
| `np_join_deadlock` | `np_set_notify_callback` joins the notifier with the mutex held (`notification_proxy.c:366`), the notifier may wait for it at 271 | a previous callback is removed automatically (`notification_proxy.h:189`) |
| `afc_write_failed` | `afc_file_write` returns SUCCESS and a wrapped count when the send failed (`afc.c:963`) | "AFC_E_SUCCESS on success", "number of bytes actually written" (`afc.h:255-257`) |
| `backup_status` | Info.plist cannot be read, so the backup is a full one (`idevicebackup.c:836`), but the old Manifest.plist stays; it is cut short in the middle of a file. The next run goes on from the old manifest (907), which lists that file as the phone has it, gets nothing for it, and writes success | "Status.plist (Info on how the backup process turned out)", "Backup Successful." (1186-1187); 1202 restores on the strength of it |

Seen while modelling. The models do the same; where a property would fail for one of these
it names the case (in its comment), and otherwise the case ends the behaviour.

The library:

* an error in the body of an afc reply frees the buffer twice (`afc.c:316`); `afc.c:287-289`
  says it does not abort, and does; `afc_remove_path` reports a lost connection as
  DIR_NOT_EMPTY (681-683);
* instproxy: free reads the handle without the mutex, and the thread clears it before it
  unlocks (`installation_proxy.c:270`, 436): the mutex may be destroyed while it is held; two
  threads on one client (see above); a status thread that ends without telling (344); a send
  result that is dropped (523, 527);
* ostrace: every receive error ends an archive with SUCCESS (`ostrace.c:434`);
  `ostrace_start_activity` returns SUCCESS without a worker (309);
* removing a notify callback returns UNKNOWN_ERROR (`notification_proxy.c:384`);
* the result of enabling SSL on a service is dropped (`service.c:76`);
* `mobilesync_finish` returns SUCCESS for any message (`mobilesync.c:287`, 305), and
  `mobilesync_start` without a pointer for the type takes any message but a refusal for the
  start of a session; `mobilebackup2_receive_raw` returns SUCCESS when nothing came (268);
* reverse_proxy sends protocol version 0 (`reverse_proxy.c:553`, it is set at 575), keeps only
  the last connection thread (497), and closes sockets twice (227, 264);
* companion_proxy: the comparisons at `companion_proxy.c:177` and 304 are inverted; the
  listener and the calls share a connection without a lock; preboard sends its command also
  when it returns OP_IN_PROGRESS (`preboard.c:226-232`);
* after a timeout the answers stay one call behind in all services that match by order
  (`property_list_service.c:194`); goodbye, sleep, restart and query of a plane
  (`diagnostics_relay.c`), every command of mobileactivation, and activate, deactivate,
  enter_recovery and goodbye of lockdown receive although their request was not sent;
* webinspector: a packet that is a multiple of the chunk has no final chunk
  (`webinspector.c:132`); an error between chunks drops what came before (189);
* a timeout in the head or the body of an SSL record loses bytes, and the session fails
  (`idevice.c:993`); the predefined timeout of `idevice_connection_receive` leaves the session closed
  for good although the socket is alive (893-905; compare 809-813, and `libimobiledevice.h:325`: "like
  idevice_connection_receive_timeout"): `expired` in `TimeoutKeeps`;
* `reverse_proxy_client_free` clears `client->parent` (`reverse_proxy.c:649`) before it joins: a
  connection thread that was just started reads `client->parent->connection` (353, 362):
  `opening` in `OnlyWhileOpening`;
* debugserver reports SUCCESS without a response (`debugserver.c:422-424`, 440-442).

The tools:

* `idevicebackup2.c`: behind a device that is silent for 30 s in the middle of an upload the tool
  discards the rest as a leftover (1163-1168), removes the file it was at, sends status 0 (1179) and may
  report "Backup Successful." (2570) of a directory without that file: `stalled` in `InStep` and
  `BackupTrue`; a password is sent although the tool has decided to leave, if it was given the
  other one (2181-2207, 2233); an error in the lock loop goes on with handle 0 (1956-1971); a failed
  Info.plist still sends the request (2023-2046); results of writes (1111) and of a send
  (2234) are not looked at; a malformed request gets no status (1187); success is printed for
  some commands without `operation_ok` (2579-2585); a move removes its destination first
  (2363-2372);
* `idevicebackup.c`: a lost connection loops until quit (985-989); a file that cannot be
  opened keeps the `restore_ok` of the one before (1366-1385);
* `ideviceimagemounter.c:647-656`: before iOS 7 nothing is mounted after the upload;
* `idevicedebug.c:156`: an exit status of 128 or more counts as none;
* `idevicedebugserverproxy.c:335`: the list of threads loses all but the first and the last;
* `idevicesyslog.c`: a line that is short or has no date is printed whatever the triggers say (225,
  363), also behind the message that ends the logging ("logging will halt as soon as",
  `idevicesyslog.1:90`); a message that is filtered out does not end the logging (471 before 541);
  a logger that failed to start is not tried again before the next event;
* `idevicecrashreport.c`: what fwrite took is not looked at before the report is removed (288);
* `idevicedevmodectl.c`: a client that cannot be made frees the handle of the caller, which frees
  it again (195, 459); after the restart the device is looked for at the cable only, so `enable -n`
  arms and never confirms (427); a wait that ended late may look like the restart (see `blind`);
* `afcclient.c`: what fclose returns is dropped (772), so that on a full disk the end of a file
  that is got may be missing without the message of line 745: `unflushed` in `CopyTold`; a file
  that the device does not open is not reported (971); a put over a longer file leaves its rest;
  `curdir_len` may be stale (1198); cd to ".." by the way of a name goes astray (334).

## 7. Not modelled, and why

The device list and the options of a handle in `idevice.c`, which are reads of what usbmuxd
says; the making of keys and certificates in `userpref.c`, ciphers and encodings of
`lockdown-cu.c`: they compute, and TLC would only repeat the computation; the escrow bag,
and a pair record that the caller brings; raw transfers of mobilebackup2, which hand on
bytes; what the requests of the plain services say; the commands of idevicesyslog and
afcclient that are one call of the library; the tools that are one or a few calls between
arguments and output (`PROJECT.json` lists them as "other command line tools"); bindings and
third-party code.

## 8. What is left

1. model: pairing with a caller's record and the escrow bag in Lockdown; the mount commands
   of idevicesyslog; a composition of Lockdown with a service client (the start of a service
   as one abstract step that Lockdown implements).
2. abstract specifications worth stating: one `StoppableThread` that NotificationProxy,
   InstallationProxy, CaptureClient and EventThread implement; `Session` for Lockdown and
   DeviceLink.
3. prove: liveness and what recursive definitions compute, once a prover can.

## 9. Running

`tlc -config X.cfg MCModule` for each run in `PROJECT.json`, `tlapm X_proofs.tla` for each
of the eight modules of that name: AfcClient, CaptureClient, Clients, DeviceLink,
InstallationProxy, Lockdown, NotificationProxy and Tools (eleven minutes at most). The
largest run has about 3.6 million states and none takes longer than about three minutes on two
cores. Definitions named `X_Y` beside a definition `X` (`Session_OnSuccess`) are mutated
forms of it: each property of a passing run is violated by one of them, which shows that it
depends on the code.
