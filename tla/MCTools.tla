-------------------------------- MODULE MCTools --------------------------------
(***************************************************************************)
(* The command line tools for TLC: a behaviour is one of the tool that     *)
(* which names, one of Tools.  Tools share the names of the variables they *)
(* have in common; the variables of the others are Unused and stay so.     *)
(***************************************************************************)
EXTENDS Integers, Sequences, FiniteSets

CONSTANTS
  Tools,                               \* those that are looked at
  Commands,                            \* DebugServer
  Handlers,                            \* DebugProxy
  Udids, Networked, None, MaxPlugs,    \* SyslogTool and DevMode
  Relayed,                             \* SyslogTool
  ModeUdids,                           \* DevMode: two devices at the cable
  Reports, Size,                       \* CrashReports
  Items, Blocks, Depth, MaxCommands,   \* AfcShell
  Files, LockAttempts,                 \* Backup and Backup2
  Hashed, Apps, MaxRuns,               \* Backup
  StatusFile, FileSize, HunkMax, MaxAsks, Cmds, \* Backup2
  Unused                               \* what the variables of the other tools are

\* connections are numbered from 1, there are finitely many devices, files and blocks, and the
\* names of reports and files are none of those that stand for something else
ASSUME ProxyAssumption == Handlers \subseteq Nat \ {0}
ASSUME SyslogAssumption == IsFiniteSet(Udids) /\ None \notin Udids /\ Relayed \subseteq Udids
ASSUME ModeAssumption == IsFiniteSet(ModeUdids) /\ None \notin ModeUdids
ASSUME ReportsAssumption == Reports \intersect {"link", "dir", ".", "none", "nothing"} = {} /\ Size \in Nat
ASSUME ShellAssumption == IsFiniteSet(Items) /\ "none" \notin Items /\ Blocks \in Nat /\ Depth \in Nat
ASSUME BackupsAssumption ==
  /\ Hashed \subseteq Files /\ StatusFile \in Files /\ FileSize \in Nat /\ HunkMax \in Nat \ {0} /\ MaxAsks \in Nat
  /\ Apps \in Nat /\ MaxRuns \in Nat \ {0} /\ LockAttempts \in Nat \ {0}

\* a directory of the device with a report whose name on the host is that of another one, and
\* one that has the name of the '.crash' file of both
ReportsIn == [d \in {".", "dir"} |-> IF d = "." THEN {"dir", "link"} ELSE {"r", "r.synced", "t"}]
HostName == [e \in Reports \union {"link", "dir", "."} |-> IF e = "r.synced" THEN "r" ELSE e]
CrashName == [e \in {"r", "r.synced"} |-> "t"]
SizeOnDevice == [f \in Files |-> IF f = StatusFile THEN 1 ELSE FileSize]

VARIABLES
  which, cmd, pc, noack, quit, lost, sent, wire, skew, response, dres, res, program, wrong, took,
  main, list, count, sock, freed, missed, twice, cb, network, udid, onExit, plugged, events, plugs,
  subscribed, logger, device, capture, filters, triggered, off, printed, failed, keep, all, extract, wanted,
  frames, file, read, host, copied, short, late, ret, connected, curdir, curlen, where, astray,
  commands, todo, item, dst, pos, succeed, said, silent, unflushed, longer, noclient, done, blind, away,
  conn, lockfile, holder, tries, posted, inbox, apps, dev, outcome, local, phone, data, info, manifest, stat,
  infoplist, full, hunk, base, acked, left, restored, ok, run, stale, disk, encrypts, nlen, name, pending,
  total, status, result, asks, batch, saved, refused, unanswered, garbled, stalled

Debug == INSTANCE DebugServer
Proxy == INSTANCE DebugProxy
Syslog == INSTANCE SyslogTool
Crashes == INSTANCE CrashReports WITH
  Links <- {"link"}, Dirs <- {".", "dir"}, In <- ReportsIn, Target <- HostName,
  RawName <- CrashName
Shell == INSTANCE AfcShell
Mode == INSTANCE DevMode WITH Udids <- ModeUdids
One == INSTANCE Backup
Two == INSTANCE Backup2

\* the variables that a component does not share
debugVars == <<noack, wire, skew, response, dres, program, wrong, took>>
proxyVars == <<list, count, sock, missed, twice>>
syslogVars == <<onExit, logger, capture, filters, triggered, off, printed, failed>>
reportsVars == <<keep, all, extract, wanted, frames, file, read, host, copied, short, late, ret>>
shellVars == <<curdir, curlen, where, astray, commands, item, dst, pos, succeed, said, silent,
               unflushed, longer>>
modeVars == <<noclient, done, blind, away>>
backupVars == <<conn, lockfile, holder, tries, posted, inbox, apps, dev, outcome, local>>
oneVars == <<phone, data, info, manifest, stat, infoplist, full, hunk, base, acked, left, restored, ok, run, stale>>
twoVars == <<disk, encrypts, nlen, name, pending, total, status, result, asks, batch, saved, refused, unanswered,
             garbled, stalled>>
noBackupVars == <<backupVars, oneVars, twoVars>>
noToolVars == <<debugVars, proxyVars, syslogVars, reportsVars, shellVars, modeVars, lost, res, main, freed, cb,
                network, udid, plugged, events, plugs, subscribed, device, connected>>
vars == <<which, noToolVars, noBackupVars, cmd, pc, quit, todo, sent>>

InitDebug ==
  IF which = "debug" THEN Debug!Init
  ELSE /\ noack = Unused /\ wire = Unused /\ skew = Unused /\ response = Unused
       /\ dres = Unused /\ program = Unused /\ wrong = Unused /\ took = Unused
InitProxy ==
  IF which = "proxy" THEN Proxy!Init
  ELSE /\ list = Unused /\ count = Unused /\ sock = Unused /\ missed = Unused /\ twice = Unused
InitSyslog ==
  IF which = "syslog" THEN Syslog!Init
  ELSE /\ onExit = Unused /\ logger = Unused /\ capture = Unused /\ filters = Unused /\ triggered = Unused
       /\ off = Unused /\ printed = Unused /\ failed = Unused
InitCrashes ==
  IF which = "reports" THEN Crashes!Init
  ELSE /\ keep = Unused /\ all = Unused /\ extract = Unused /\ wanted = Unused /\ frames = Unused /\ file = Unused
       /\ read = Unused /\ host = Unused /\ copied = Unused /\ short = Unused /\ late = Unused
       /\ ret = Unused
InitShell ==
  IF which = "shell" THEN Shell!Init
  ELSE /\ curdir = Unused /\ curlen = Unused /\ where = Unused /\ astray = Unused /\ commands = Unused
       /\ item = Unused /\ dst = Unused /\ pos = Unused /\ succeed = Unused
       /\ said = Unused /\ silent = Unused /\ unflushed = Unused /\ longer = Unused
InitMode ==
  IF which = "devmode" THEN Mode!Init
  ELSE /\ noclient = Unused /\ done = Unused /\ blind = Unused /\ away = Unused
InitBackups ==
  IF which \in {"backup", "backup2"} THEN TRUE
  ELSE /\ conn = Unused /\ lockfile = Unused /\ holder = Unused /\ tries = Unused /\ posted = Unused
       /\ inbox = Unused /\ apps = Unused /\ dev = Unused /\ outcome = Unused /\ local = Unused
InitOne ==
  IF which = "backup" THEN One!Init
  ELSE /\ phone = Unused /\ data = Unused /\ info = Unused /\ manifest = Unused /\ stat = Unused
       /\ infoplist = Unused /\ full = Unused /\ hunk = Unused /\ base = Unused /\ acked = Unused
       /\ left = Unused /\ restored = Unused /\ ok = Unused /\ run = Unused /\ stale = Unused
InitTwo ==
  IF which = "backup2" THEN Two!Init
  ELSE /\ disk = Unused /\ encrypts = Unused /\ nlen = Unused /\ name = Unused /\ pending = Unused
       /\ total = Unused /\ status = Unused /\ result = Unused /\ asks = Unused /\ batch = Unused
       /\ saved = Unused /\ refused = Unused /\ unanswered = Unused /\ garbled = Unused
       /\ stalled = Unused

Init ==
  /\ which \in Tools
  /\ InitDebug /\ InitProxy /\ InitSyslog /\ InitCrashes /\ InitShell /\ InitMode
  /\ InitBackups /\ InitOne /\ InitTwo
  /\ IF which \in {"debug", "backup2"} THEN TRUE ELSE sent = Unused
  /\ IF which \in {"shell", "backup2"} THEN TRUE ELSE todo = Unused
  /\ IF which \in {"proxy", "syslog", "reports"} THEN cmd = Unused ELSE TRUE
  /\ IF which \in {"syslog", "devmode"} THEN pc = Unused ELSE TRUE
  /\ IF which \in {"reports", "shell", "devmode"} THEN quit = Unused ELSE TRUE
  /\ IF which \in {"proxy", "syslog", "reports", "devmode", "backup", "backup2"} THEN lost = Unused ELSE TRUE
  /\ IF which \in {"proxy", "syslog", "reports", "shell", "backup", "backup2"} THEN res = Unused ELSE TRUE
  /\ IF which \in {"debug", "reports", "shell", "backup", "backup2"} THEN main = Unused ELSE TRUE
  /\ IF which \in {"debug", "syslog", "reports", "shell", "backup", "backup2"} THEN freed = Unused ELSE TRUE
  /\ IF which \in {"debug", "proxy", "reports", "shell", "backup", "backup2"} THEN cb = Unused ELSE TRUE
  /\ IF which \in {"debug", "proxy", "reports", "shell", "backup", "backup2"} THEN network = Unused ELSE TRUE
  /\ IF which \in {"debug", "proxy", "reports", "shell", "backup", "backup2"} THEN udid = Unused ELSE TRUE
  /\ IF which \in {"debug", "proxy", "reports", "shell", "backup", "backup2"} THEN plugged = Unused ELSE TRUE
  /\ IF which \in {"debug", "proxy", "reports", "shell", "backup", "backup2"} THEN events = Unused ELSE TRUE
  /\ IF which \in {"debug", "proxy", "reports", "shell", "backup", "backup2"} THEN plugs = Unused ELSE TRUE
  /\ IF which \in {"debug", "proxy", "reports", "shell", "backup", "backup2"} THEN subscribed = Unused ELSE TRUE
  /\ IF which \in {"debug", "proxy", "shell", "backup", "backup2"} THEN device = Unused ELSE TRUE
  /\ IF which \in {"debug", "proxy", "syslog", "reports", "backup", "backup2"} THEN connected = Unused ELSE TRUE

ExceptDebug == <<which, todo, noBackupVars, proxyVars, syslogVars, reportsVars, shellVars, modeVars, main, freed, cb, network,
                 udid, plugged, events, plugs, subscribed, device, connected>>
ExceptProxy == <<which, todo, sent, noBackupVars, debugVars, syslogVars, reportsVars, shellVars, modeVars, cmd, lost, res, cb,
                 network, udid, plugged, events, plugs, subscribed, device, connected>>
ExceptSyslog == <<which, todo, sent, noBackupVars, debugVars, proxyVars, reportsVars, shellVars, modeVars, cmd, pc, lost, res, freed,
                  connected>>
ExceptCrashes == <<which, todo, sent, noBackupVars, debugVars, proxyVars, syslogVars, shellVars, modeVars, cmd, quit, lost, res,
                   main, freed, cb, network, udid, plugged, events, plugs, subscribed, connected>>
ExceptShell == <<which, sent, noBackupVars, debugVars, proxyVars, syslogVars, reportsVars, modeVars, quit, res, main, freed,
                 cb, network, udid, plugged, events, plugs, subscribed, device>>
ExceptMode == <<which, todo, sent, noBackupVars, debugVars, proxyVars, syslogVars, reportsVars, shellVars, pc, quit, lost>>
ExceptOne == <<which, noToolVars, twoVars, todo, sent>>
ExceptTwo == <<which, noToolVars, oneVars>>
NextDebug == which = "debug" /\ Debug!Next /\ UNCHANGED ExceptDebug
NextProxy == which = "proxy" /\ Proxy!Next /\ UNCHANGED ExceptProxy
NextSyslog == which = "syslog" /\ Syslog!Next /\ UNCHANGED ExceptSyslog
NextCrashes == which = "reports" /\ Crashes!Next /\ UNCHANGED ExceptCrashes
NextShell == which = "shell" /\ Shell!Next /\ UNCHANGED ExceptShell
NextMode == which = "devmode" /\ Mode!Next /\ UNCHANGED ExceptMode
NextOne == which = "backup" /\ One!Next /\ UNCHANGED ExceptOne
NextTwo == which = "backup2" /\ Two!Next /\ UNCHANGED ExceptTwo
Next == NextDebug \/ NextProxy \/ NextSyslog \/ NextCrashes \/ NextShell \/ NextMode \/ NextOne \/ NextTwo

DebugStep == which = "debug" /\ Debug!Tool /\ UNCHANGED ExceptDebug
ProxyMain == which = "proxy" /\ Proxy!Main /\ UNCHANGED ExceptProxy
ProxyHandler(h) == which = "proxy" /\ Proxy!Handler(h) /\ UNCHANGED ExceptProxy
SyslogMain == which = "syslog" /\ Syslog!Main /\ UNCHANGED ExceptSyslog
SyslogEvents == which = "syslog" /\ Syslog!EventThread /\ UNCHANGED ExceptSyslog
SyslogCapture == which = "syslog" /\ Syslog!CaptureStops /\ UNCHANGED ExceptSyslog
OneStep == which = "backup" /\ One!Tool /\ UNCHANGED ExceptOne
TwoStep == which = "backup2" /\ Two!Tool /\ UNCHANGED ExceptTwo
\* main of the tool that runs, and the other threads of those that have some
MainThread == DebugStep \/ ProxyMain \/ SyslogMain \/ OneStep \/ TwoStep
Spec ==
  /\ Init /\ [][Next]_vars
  /\ WF_vars(MainThread)
  /\ \A h \in Handlers : WF_vars(ProxyHandler(h))
  /\ WF_vars(SyslogEvents) /\ WF_vars(SyslogCapture)

-----------------------------------------------------------------------------
(* Properties *)

\* What a tool reports is what happened: idevicedebug the status of the program and not of
\* another command (debugserver.c:537 and 555), idevicecrashreport a report that it removes
\* (line 288), afcclient a copy and the directory it works in (afcclient.c:971 and 247), and
\* idevicedevmodectl a mode that is confirmed after the restart (lines 410-428).
ReportTrue ==
  CASE which = "debug" -> Debug!TypeOK /\ Debug!OwnResponse /\ Debug!ExitTrue
    [] which = "reports" -> Crashes!TypeOK /\ Crashes!NothingGone
    [] which = "shell" -> Shell!TypeOK /\ Shell!CopyTold /\ Shell!DirKept
    [] which = "devmode" -> Mode!TypeOK /\ Mode!DoneTrue /\ Mode!RestartSeen
    [] OTHER -> TRUE

\* Threads do not take from each other what they use: idevicedebugserverproxy frees the device
\* when its handlers have ended (line 335), and the logger of idevicesyslog belongs to the
\* callback or, when no callback can run any more, to main (line 1263).  The handle of
\* idevicedevmodectl is freed once (line 408).
OneOwner ==
  CASE which = "proxy" -> Proxy!TypeOK /\ Proxy!HandlersEnded
    [] which = "syslog" -> Syslog!TypeOK /\ Syslog!OneOwner
    [] which = "devmode" -> Mode!HandleFreed
    [] OTHER -> TRUE

\* idevicesyslog logs the device that is plugged in (lines 833-852), and no message after the
\* one that ends the logging (lines 415-448).
LogTrue == which = "syslog" => Syslog!Follows /\ Syslog!OffIsOff

\* where each tool is when it has done what it can
ToolEnded ==
  CASE which = "debug" -> ~Debug!Running
    [] which = "proxy" -> main = "done" \/ missed
    [] which = "syslog" -> main = "done"
    [] OTHER -> pc = "done"

\* A tool that was told to quit ends: every wait of idevicedebug looks at quit_flag or has a
\* timeout of its own, and idevicesyslog gives up the wait for a passcode (line 638).
\* idevicedebugserverproxy ends also when no one connects any more, unless the signal came
\* after the look at quit_flag and before the wait (line 319), or a device sends for ever: a
\* handler that carries its data does not look at quit_flag.
ToolsEnd ==
  (\A h \in Handlers : []<>(which = "proxy" => pc[h] # "device")) =>
    ((which \in {"debug", "proxy", "syslog"} /\ quit) ~> ToolEnded)

\* Host and device agree on where in the stream they are, and the tool never waits for a
\* device that waits for it (Backup2!InStep and Answered).
InStep ==
  CASE which = "backup" -> One!TypeOK
    [] which = "backup2" -> Two!TypeOK /\ Two!InStep /\ Two!Answered
    [] OTHER -> TRUE
\* A backup that is reported as successful is complete (Backup2!BackupTrue), and Status.plist
\* says success only of a directory that is complete (Backup!StatusTrue).
BackupTrue ==
  CASE which = "backup" -> One!StatusTrue
    [] which = "backup2" -> Two!BackupTrue
    [] OTHER -> TRUE
\* Status.plist never says success of a directory that lacks what its manifest lists
\* (Backup!StatusSays, the comments at idevicebackup.c:1186 and 1202).  The run of this one
\* fails: a full backup leaves the manifest of an older one in place, is cut short in the
\* middle of a file, and the next backup goes on from that manifest.
StatusSays == which = "backup" => One!StatusSays
\* Backup!RestoreTrue: a restore that is reported as successful is complete
RestoreTrue == which = "backup" => One!RestoreTrue
\* both tools work under the lock and leave it
LockCovers ==
  CASE which = "backup" -> One!LockCovers
    [] which = "backup2" -> Two!LockCovers
    [] OTHER -> TRUE
\* both tools come to their end once they are told to quit
QuitEnds == (which \in {"backup", "backup2"} /\ quit) ~> ToolEnded
================================================================================
