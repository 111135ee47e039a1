------------------------------- MODULE Backup2 --------------------------------
(***************************************************************************)
(* src/tools/idevicebackup2.c on top of src/mobilebackup2.c: the tool      *)
(* asks the device for one operation, and then the device leads: it sends  *)
(* DLMessage requests, each of which it wants answered by one status       *)
(* response, and in the middle of two of them the connection carries raw   *)
(* file data.  The tool can be told to quit between any two steps, by a    *)
(* signal or by the notification proxy's thread, and the device may go     *)
(* away, or be silent for longer than a receive waits (30 seconds): a      *)
(* record of which a part is missing then is given up, the rest of it      *)
(* comes later.  File data is counted in units, a file is known by its     *)
(* size; a size that is larger than that of the device is one unit larger. *)
(***************************************************************************)
EXTENDS SyncLock, Integers, Sequences

CONSTANTS
  Cmds,         \* the commands to look at: PasswordCmds, "backup", "restore", "info", "list",
                \* "unback" and "cloud"
  Files,        \* names in the backup directory
  StatusFile,   \* Status.plist, one of them
  SizeOnDevice, \* the size of each file on the device
  HunkMax,      \* the size of the buffers, here and on the device
  MaxAsks       \* bound: requests of the device and files in them

\* "encryption" and "changepw" are CMD_CHANGEPW with three different flags
PasswordCmds == {"encryptOn", "encryptOff", "changepw"}
Absent == -1

VARIABLES
  disk,     \* the size of each file of the backup, Absent if there is none
  encrypts, \* WillEncrypt of the device
  apps,     \* RestoreApplications.plist lies on the device
  inbox,    \* what the device has sent and nobody has read
  nlen,     \* length of the record being received, with its code
  name,     \* the file that is being received or sent
  pending,  \* units of the record that are still unread
  todo,     \* files still to send
  sent,     \* units of the current one that are sent
  total,    \* its size when it was looked at
  status,   \* the error of the status response to come
  result,   \* what the device says of the operation: "none", "ok", "error"
  outcome,  \* what the tool says of it
  dev,      \* the device: what it waits for
  asks,     \* requests of the device
  batch,    \* files of its last upload
  saved,    \* history: files the device has been told are saved
  refused,  \* history: a file could not be opened, and the device was told
  unanswered, \* history: a request was malformed, and got no answer
  local,    \* history: the backup directory failed a write, or changed under the tool
  garbled,  \* history: the tool has taken data for something else
  stalled   \* history: the device was silent in the middle of an upload for too long

ioVars == <<inbox, nlen, name, pending, todo, sent, total, status>>
devVars == <<dev, asks, batch>>
histVars == <<saved, refused, unanswered, local, garbled, stalled>>
vars == <<pc, cmd, quit, conn, lockVars, disk, encrypts, apps, ioVars, result, outcome, devVars, histVars>>

Item(kind) == [kind |-> kind]
Named(kind, f) == [kind |-> kind, name |-> f]
Messages == {"download", "upload", "space", "purge", "list", "badList", "mkdir", "move",
             "remove", "copy", "unknown", "process", "disconnect"}

Init ==
  /\ LockInit /\ pc = "args" /\ cmd \in Cmds /\ quit = FALSE /\ conn = "open"
  /\ disk \in {[f \in Files |-> Absent], SizeOnDevice}
  /\ encrypts \in (IF cmd \in PasswordCmds THEN BOOLEAN ELSE {FALSE}) /\ apps = FALSE
  /\ inbox = <<>> /\ nlen = 0 /\ name = StatusFile /\ pending = 0
  /\ todo = <<>> /\ sent = 0 /\ total = 0 /\ status = 0
  /\ result = "none" /\ outcome = "none"
  /\ dev = "quiet" /\ asks = 0 /\ batch = {}
  /\ saved = {} /\ refused = FALSE /\ unanswered = FALSE /\ local = FALSE /\ garbled = FALSE
  /\ stalled = FALSE

-----------------------------------------------------------------------------
(* the device, as it takes what the tool sends *)

\* The parser of the device: the state it is in after the next thing it reads.
Takes(d, kind) ==
  CASE d = "path" /\ kind = "path" -> "file"
    [] d = "path" /\ kind = "zero" -> "wait"
    [] d = "file" /\ kind = "hunk" -> "file"
    [] d = "file" /\ kind \in {"ok", "error"} -> "path"
    [] d = "wait" /\ kind = "status" -> "idle"
    [] OTHER -> "confused"
\* d: what the device is in when it has taken what is sent, if it is there
Send(d) == dev' = IF conn = "open" THEN d ELSE dev

\* mobilebackup2_send_status_response, the last thing a handler does
Answer(d) == Send(Takes(d, "status")) /\ pc' = "out"

-----------------------------------------------------------------------------
(* main, up to the request *)

\* A restore and an unback need Info.plist and Manifest.plist, an encrypted
\* backup or a new password needs a password: whatever is missing ends the tool.
Args ==
  /\ pc = "args"
  /\ pc' \in {"connect", "done"}
  /\ outcome' = IF pc' = "done" THEN "failed" ELSE outcome
  /\ UNCHANGED <<cmd, quit, conn, lockVars, disk, encrypts, apps, ioVars, result, devVars, histVars>>

\* lockdown, notification_proxy, AFC for a backup or a restore, mobilebackup2: without
\* the last there is nothing to leave, without the others the operation is left out
Connect ==
  /\ pc = "connect"
  /\ \/ conn = "open" /\ pc' = "hello" /\ UNCHANGED <<cmd, outcome>>
     \/ pc' = "checkpoint" /\ cmd' = "leave" /\ UNCHANGED outcome
     \/ pc' \in {"free", "done"} /\ outcome' = "failed" /\ UNCHANGED cmd
  /\ UNCHANGED <<quit, conn, lockVars, disk, encrypts, apps, ioVars, result, devVars, histVars>>

\* mobilebackup2_version_exchange, and a last look at quit_flag; a restore needs
\* Info.plist a second time, which may have gone
Hello ==
  /\ pc = "hello"
  /\ \/ /\ conn = "open" /\ ~quit
        /\ pc' = (IF cmd \in {"backup", "restore"} THEN "open" ELSE "checkpoint") /\ UNCHANGED cmd
     \/ pc' = "checkpoint" /\ cmd' = "leave"
  /\ UNCHANGED <<quit, conn, lockVars, disk, encrypts, apps, ioVars, result, outcome, devVars, histVars>>

Lock ==
  /\ OpenLock \/ TryLock \/ LockTimeout
  /\ UNCHANGED <<disk, encrypts, apps, ioVars, result, outcome, devVars, histVars>>

-----------------------------------------------------------------------------
(* checkpoint: one request, according to the command *)

\* mobilebackup2_send_request or _send_message: the device begins to ask
Request == dev' = IF conn = "open" THEN "idle" ELSE dev
Requested(after) == pc' = IF conn = "open" THEN after ELSE "unlock"
Leave == cmd' = "leave" /\ pc' = "unlock"

\* mobilebackup_factory_info_plist_new needs the device for all it writes
InfoMade(made) == made /\ conn = "open"

\* Info.plist is made anew from lockdown, installation_proxy and AFC.  When that
\* fails the tool gives up, but the request goes out all the same.
RequestBackup(info) ==
  /\ cmd = "backup" /\ Request
  /\ IF InfoMade(info) THEN pc' = "loop" /\ UNCHANGED cmd ELSE Leave
  /\ UNCHANGED apps

\* mb2_status_check_snapshot_state
Finished == disk[StatusFile] = SizeOnDevice[StatusFile]

\* write_restore_applications: RestoreApplications.plist goes to the device over AFC
AppsWritten(wrote) == wrote /\ conn = "open"

\* write_restore_applications comes before the request, unless it is skipped
RequestRestore(skip, wrote) ==
  /\ cmd = "restore"
  /\ IF Finished /\ (skip \/ AppsWritten(wrote))
     THEN /\ apps' = (apps \/ ~skip) /\ Request
          /\ IF conn = "open" THEN pc' = "loop" /\ UNCHANGED cmd ELSE Leave
     ELSE Leave /\ UNCHANGED <<apps, dev>>

RequestPlain ==
  /\ cmd \in {"info", "list", "unback", "cloud"} /\ Request
  /\ IF conn = "open" THEN pc' = "loop" /\ UNCHANGED cmd ELSE Leave
  /\ UNCHANGED apps

\* Encryption can only be turned on when it is off, and changed or turned off when it is on.
\* If not, the password that would have been used is forgotten and the tool leaves, but the
\* message goes out when the other one was given.  What comes of sending it is not looked at.
RequestPassword(new, old) ==
  /\ cmd \in PasswordCmds
  /\ LET wrong == encrypts = (cmd = "encryptOn")
         given == \/ new /\ (wrong => cmd = "encryptOff")
                  \/ old /\ (wrong => cmd = "encryptOn") IN
     /\ IF given THEN Request ELSE UNCHANGED dev
     /\ IF given /\ ~wrong THEN pc' = "loop" /\ UNCHANGED cmd ELSE Leave
  /\ UNCHANGED apps

Checkpoint ==
  /\ pc \in {"checkpoint", "request"}
  /\ \/ \E info \in BOOLEAN : RequestBackup(info)
     \/ \E skip, wrote \in BOOLEAN : RequestRestore(skip, wrote)
     \/ RequestPlain
     \/ \E new, old \in BOOLEAN : RequestPassword(new, old)
     \/ cmd = "leave" /\ pc' = "unlock" /\ UNCHANGED <<cmd, apps, dev>>
  /\ UNCHANGED <<quit, conn, lockVars, disk, encrypts, ioVars, result, outcome, asks, batch, histVars>>

-----------------------------------------------------------------------------
(* the loop over the messages of the device *)

\* What the device still sends of an upload in which the tool has lost its place: it may be
\* anything, or nothing any more (over TLS the receive that failed has closed the session).
Rest == Item("rest")
Astray == inbox # <<>> /\ Head(inbox) = Rest
\* what comes next is cut short, or is the next thing of an upload as a whole
Cut == inbox # <<>> /\ Head(inbox).kind = "cut"
Whole == inbox # <<>> /\ ~Astray /\ ~Cut

Took == inbox' = Tail(inbox)
Kept == UNCHANGED <<cmd, conn, lockVars, encrypts, apps>>

\* Nothing comes in time: the loop goes round again.  Nothing can come any more, what comes is
\* no message, or only a part of it comes in time: the tool quits.
ReceiveNothing ==
  /\ pc = "loop" /\ pc' = "out"
  /\ \/ inbox = <<>> /\ conn = "open" /\ quit /\ UNCHANGED <<quit, garbled, inbox>>
     \/ inbox = <<>> /\ conn = "lost" /\ quit' = TRUE /\ UNCHANGED <<garbled, inbox>>
     \/ Astray /\ Took /\ UNCHANGED <<quit, garbled>>
     \/ /\ inbox # <<>> /\ (conn = "open" \/ Head(inbox).kind \notin Messages)
        /\ quit' = TRUE /\ Took /\ garbled' = (garbled \/ Head(inbox).kind # "cut")
  /\ Kept
  /\ UNCHANGED <<disk, nlen, name, pending, todo, sent, total, status, result, outcome, devVars,
                 saved, refused, unanswered, local, stalled>>

Message(kind) == pc = "loop" /\ inbox # <<>> /\ Head(inbox).kind = kind /\ Took

\* the requests that are answered on the spot: free space, purge, a listing, a directory
HandlePlain ==
  /\ \/ \E kind \in {"space", "list", "mkdir", "purge"} : Message(kind) /\ Answer(dev) /\ UNCHANGED unanswered
     \/ \E kind \in {"badList", "unknown"} : Message(kind) /\ pc' = "out" /\ unanswered' = TRUE /\ UNCHANGED dev
  /\ Kept
  /\ UNCHANGED <<quit, disk, nlen, name, pending, todo, sent, total, status, result, outcome,
                 asks, batch, saved, refused, local, garbled, stalled>>

\* What is in the place of the new name is removed first, so a rename that fails loses it.
Renamed(src, dst) ==
  IF disk[src] = Absent THEN [disk EXCEPT ![dst] = Absent]
  ELSE [disk EXCEPT ![dst] = disk[src], ![src] = Absent]
\* mb2_copy_file_by_path: a copy that fails is not reported
Copied(src, dst) == IF disk[src] = Absent THEN disk ELSE [disk EXCEPT ![dst] = disk[src]]
Removed(fs) == [f \in Files |-> IF f \in fs THEN Absent ELSE disk[f]]

HandleFiles ==
  /\ \/ /\ Message("move") /\ LET m == Head(inbox) IN
           disk' = Renamed(m.src, m.dst) /\ saved' = saved \ {m.src, m.dst}
     \/ /\ Message("copy") /\ LET m == Head(inbox) IN
           disk' = Copied(m.src, m.dst) /\ saved' = saved \ {m.dst}
     \/ /\ Message("remove")
        /\ disk' = Removed(Head(inbox).set) /\ saved' = saved \ Head(inbox).set
  /\ Answer(dev) /\ Kept
  /\ UNCHANGED <<quit, nlen, name, pending, todo, sent, total, status, result, outcome,
                 asks, batch, refused, unanswered, local, garbled, stalled>>

\* DLMessageProcessMessage carries the result of the operation, DLMessageDisconnect none
HandleEnd ==
  /\ \/ Message("process") /\ result' = Head(inbox).result
     \/ Message("disconnect") /\ UNCHANGED result
  /\ pc' = "report" /\ Kept
  /\ UNCHANGED <<quit, disk, nlen, name, pending, todo, sent, total, status, outcome, devVars, histVars>>

\* files_out
FilesOut ==
  /\ pc = "out" /\ pc' = (IF quit THEN "report" ELSE "loop") /\ Kept
  /\ UNCHANGED <<quit, disk, ioVars, result, outcome, devVars, histVars>>

-----------------------------------------------------------------------------
(* mb2_handle_send_files and mb2_handle_send_file: the device downloads *)

SendVars == <<disk, nlen, name, pending, status, result, outcome, asks, batch, saved, refused,
              unanswered, local, garbled, stalled>>

HandleSendFiles ==
  /\ Message("download") /\ todo' = Head(inbox).files /\ pc' = "path" /\ Kept
  /\ UNCHANGED <<quit, sent, total, dev, SendVars>>

\* mutant of FileSent: no zero after the last file
FileSent_NoZero(d, failed) ==
  /\ sent' = 0 /\ total' = 0
  /\ IF failed \/ Len(todo) = 1
     THEN todo' = <<>> /\ Answer(d)
     ELSE todo' = Tail(todo) /\ Send(d) /\ pc' = "path"

\* the file ends with its code, and after the last one, or the first that failed, there is
\* a zero and the status
FileSent(d, failed) ==
  /\ sent' = 0 /\ total' = 0
  /\ IF failed \/ Len(todo) = 1
     THEN todo' = <<>> /\ Answer(Takes(d, "zero"))
     ELSE todo' = Tail(todo) /\ Send(d) /\ pc' = "path"

SendPath ==
  /\ pc = "path" /\ Kept /\ UNCHANGED <<inbox, quit, SendVars>>
  /\ IF todo = <<>> THEN Answer(Takes(dev, "zero")) /\ UNCHANGED <<todo, sent, total>>
     ELSE LET f == Head(todo) IN
          \/ conn = "lost" /\ FileSent(dev, TRUE)
          \/ disk[f] = Absent /\ FileSent(Takes(Takes(dev, "path"), "error"), TRUE)
          \/ disk[f] = 0 /\ FileSent(Takes(Takes(dev, "path"), "ok"), FALSE)
          \/ /\ disk[f] > 0 /\ total' = disk[f] /\ sent' = 0
             /\ Send(Takes(dev, "path")) /\ pc' = "hunk" /\ UNCHANGED todo

Smaller(a, b) == IF a < b THEN a ELSE b

\* The header is made from the size the file had, the data from what it has: the hunk is
\* one of the protocol only if these agree, and an error after the header is taken for data.
Said == Smaller(total - sent, HunkMax)
Read == IF disk[Head(todo)] <= sent THEN 0 ELSE Smaller(disk[Head(todo)] - sent, HunkMax)

SendHunk ==
  /\ pc = "hunk" /\ Kept /\ UNCHANGED <<inbox, quit, SendVars>>
  /\ \/ conn = "lost" /\ FileSent(dev, TRUE)
     \/ conn = "open" /\ Read = 0 /\ FileSent(Takes(Takes(dev, "header"), "error"), TRUE)
     \/ /\ conn = "open" /\ Read > 0
        /\ LET d == Takes(dev, IF Read = Said THEN "hunk" ELSE "badHunk") IN
           IF sent + Read < total
           THEN sent' = sent + Read /\ Send(d) /\ UNCHANGED <<total, pc, todo>>
           ELSE FileSent(Takes(d, "ok"), FALSE)

-----------------------------------------------------------------------------
(* mb2_handle_receive_files: the device uploads *)

RecvVars == <<todo, sent, total, result, outcome, asks, batch, unanswered, stalled>>

\* the variables of the handler are as Leftover left them
HandleReceiveFiles ==
  /\ Message("upload") /\ pc' = "dname" /\ Kept
  /\ UNCHANGED <<quit, disk, nlen, status, pending, name, dev, saved, refused, local, garbled, RecvVars>>

NoName == pc' = "leftover" /\ nlen' = 0 /\ UNCHANGED name
ToHeader(f) ==
  /\ IF pc = "dname" THEN pc' = "fname" /\ UNCHANGED name ELSE pc' = "header" /\ name' = f
  /\ UNCHANGED nlen

\* mb2_receive_filename: as long as nothing at all comes it tries again, until quit_flag is set
RecvName ==
  /\ pc \in {"dname", "fname"} /\ Kept
  /\ \/ pc = "dname" /\ quit /\ pc' = "leftover" /\ UNCHANGED <<inbox, name, nlen, garbled>>
     \/ quit /\ NoName /\ UNCHANGED <<inbox, garbled>>
     \/ /\ ~(pc = "dname" /\ quit) /\ inbox # <<>> /\ ~Astray /\ Took /\ UNCHANGED garbled
        /\ IF Cut \/ Head(inbox).kind = "zero" THEN NoName ELSE ToHeader(Head(inbox).name)
     \/ /\ ~(pc = "dname" /\ quit) /\ Astray /\ UNCHANGED inbox /\ garbled' = TRUE
        /\ NoName \/ \E f \in Files : ToHeader(f)
  /\ UNCHANGED <<quit, disk, pending, status, dev, saved, refused, local, RecvVars>>

\* the length and the code of the next record; an error comes with its message
Record(r) == /\ nlen' = (IF r.kind = "end" THEN 1 ELSE r.size + 1)
             /\ pending' = (IF r.kind = "hunk" THEN r.size ELSE 0)
AfterRecord(r) == IF r.kind = "hunk" THEN "data" ELSE "dname"
\* What may be taken for one.  A smaller hunk is one of which only a part comes.
Anything == {[kind |-> "hunk", size |-> HunkMax], [kind |-> "error", size |-> 1], [kind |-> "end", size |-> 0]}

\* mutant of RecvHeader: the file is opened to append, without removing it first
RecvHeader_Append ==
  /\ pc = "header" /\ Kept /\ Whole /\ Took /\ Record(Head(inbox))
  /\ disk' = [disk EXCEPT ![name] = IF @ = Absent THEN 0 ELSE @] /\ pc' = AfterRecord(Head(inbox))
  /\ UNCHANGED <<quit, status, refused, name, dev, saved, local, garbled, RecvVars>>

\* The file of this name is removed and made anew; if that fails the status says so, but
\* whatever the device goes on to send of the file stays in the stream.
MakeFile(r) ==
  /\ Record(r)
  /\ \/ disk' = [disk EXCEPT ![name] = 0] /\ pc' = AfterRecord(r) /\ UNCHANGED <<status, refused>>
     \/ disk' = [disk EXCEPT ![name] = Absent] /\ status' = 1 /\ refused' = TRUE /\ pc' = "leftover"

\* a length of zero, or none
NoRecord == nlen' = 0 /\ pending' = 0 /\ pc' = "leftover"
\* the length and the code did not come, or not as a whole
NoHeader(lens) == nlen' \in lens /\ pc' = "leftover" /\ UNCHANGED <<disk, pending, status, refused>>

RecvHeader ==
  /\ pc = "header" /\ Kept
  /\ \/ inbox = <<>> /\ NoHeader({0}) /\ UNCHANGED <<inbox, garbled>>
     \/ Cut /\ inbox' = <<>> /\ NoHeader({0, HunkMax + 1}) /\ UNCHANGED garbled
     \/ Whole /\ Took /\ MakeFile(Head(inbox)) /\ UNCHANGED garbled
     \/ /\ Astray /\ UNCHANGED inbox /\ garbled' = TRUE
        /\ \/ NoHeader({0, HunkMax + 1})
           \/ \E r \in Anything : MakeFile(r)
           \/ NoRecord /\ disk' = [disk EXCEPT ![name] = 0] /\ UNCHANGED <<status, refused>>
  /\ UNCHANGED <<quit, name, dev, saved, local, RecvVars>>

ToRecord(r) == Record(r) /\ pc' = AfterRecord(r)

\* A hunk and the header after it.  A write that fails is not noticed, and neither is a hunk
\* of which only a part comes in time.
RecvData ==
  /\ pc = "data" /\ Kept
  /\ \/ ~Astray /\ disk' = [disk EXCEPT ![name] = @ + pending] /\ UNCHANGED local
     \/ /\ Astray /\ UNCHANGED local
        /\ \E n \in 0..pending : disk' = [disk EXCEPT ![name] = Smaller(@ + n, SizeOnDevice[name] + 1)]
     \/ local' = (local \/ conn = "open") /\ UNCHANGED disk
  /\ IF quit THEN pending' = 0 /\ pc' = "dname" /\ UNCHANGED <<inbox, nlen, garbled>>
     ELSE \/ (inbox = <<>> \/ Cut) /\ inbox' = <<>> /\ NoRecord /\ UNCHANGED garbled
          \/ Whole /\ Took /\ ToRecord(Head(inbox)) /\ UNCHANGED garbled
          \/ Astray /\ (NoRecord \/ \E r \in Anything : ToRecord(r)) /\ UNCHANGED inbox /\ garbled' = TRUE
  /\ UNCHANGED <<quit, name, status, dev, saved, refused, RecvVars>>

\* mutant of Leftover: no status response
Leftover_NoAnswer ==
  /\ pc = "leftover" /\ Kept /\ pc' = "out"
  /\ nlen' = 0 /\ name' = StatusFile /\ pending' = 0 /\ status' = 0 /\ batch' = {}
  /\ UNCHANGED <<disk, inbox, garbled, saved, dev, quit, refused, local, todo, sent, total, result, outcome, asks, unanswered, stalled>>

\* Discards nlen - 1 units, whether they have been read or not, removes the file, answers.
Leftover ==
  /\ pc = "leftover" /\ Kept
  /\ IF nlen > 1
     THEN /\ disk' = [disk EXCEPT ![name] = Absent]
          /\ IF pending = 0 /\ inbox # <<>>
             THEN garbled' = TRUE /\ (IF Astray THEN UNCHANGED inbox ELSE Took)
             ELSE UNCHANGED <<inbox, garbled>>
     ELSE UNCHANGED <<disk, inbox, garbled>>
  /\ saved' = IF conn = "open" /\ status = 0 THEN saved \union batch ELSE saved
  /\ nlen' = 0 /\ name' = StatusFile /\ pending' = 0 /\ status' = 0 /\ batch' = {}
  /\ Answer(dev) /\ UNCHANGED <<quit, refused, local, todo, sent, total, result, outcome, asks, unanswered, stalled>>

-----------------------------------------------------------------------------
(* the end *)

\* What the tool reports.  Of an unback, an info and a list it looks at quit_flag only.
Success ==
  CASE cmd = "backup" -> result = "ok" /\ Finished
    [] cmd \in {"unback", "info", "list"} -> ~quit
    [] OTHER -> result = "ok"

Report ==
  /\ pc = "report" /\ pc' = "unlock"
  /\ outcome' = IF Success THEN "success" ELSE IF quit THEN "aborted" ELSE "failed"
  /\ apps' = IF cmd = "restore" /\ result # "ok" /\ conn = "open" THEN FALSE ELSE apps
  /\ UNCHANGED <<cmd, quit, conn, lockVars, disk, encrypts, ioVars, result, devVars, histVars>>

\* only a tool that has not given up says that it has finished
Finish ==
  /\ Unlock(cmd \in {"backup", "restore"})
  /\ UNCHANGED <<disk, encrypts, apps, ioVars, result, outcome, devVars, histVars>>

\* the clients are freed, and with them the connections
Free ==
  /\ pc = "free" /\ pc' = "done" /\ dev' = "ended" /\ inbox' = <<>>
  /\ outcome' = (IF outcome = "none" THEN "failed" ELSE outcome)
  /\ UNCHANGED <<cmd, quit, conn, lockVars, disk, encrypts, apps, nlen, name, pending, todo, sent,
                 total, status, result, asks, batch, histVars>>

-----------------------------------------------------------------------------
(* the device and the rest of the world *)

\* n: the files it is about
Ask(items, d, n) == inbox' = inbox \o items /\ dev' = d /\ asks + n <= MaxAsks /\ asks' = asks + n

\* the data of a file, in hunks; from is where in it they lie, which the stream does not say
Hunk(f, from) ==
  [kind |-> "hunk", name |-> f, from |-> from, size |-> Smaller(SizeOnDevice[f] - from, HunkMax)]
Hunks(f) == [k \in 1..(SizeOnDevice[f] + HunkMax - 1) \div HunkMax |-> Hunk(f, (k - 1) * HunkMax)]

\* an upload: each file with two names, then its data and an end or an error instead of both
Failure(f) == [kind |-> "error", name |-> f, size |-> 1]
FileData(u) == IF u.fails THEN <<Failure(u.file)>> ELSE Append(Hunks(u.file), Named("end", u.file))
FileItems(u) == <<Named("dname", u.file), Named("fname", u.file)>> \o FileData(u)
FilesItems(us) ==
  CASE Len(us) = 0 -> <<>>
    [] Len(us) = 1 -> FileItems(us[1])
    [] Len(us) = 2 -> FileItems(us[1]) \o FileItems(us[2])
Upload(us) == <<Item("upload")>> \o FilesItems(us) \o <<Item("zero")>>
UpTo2(S) == {<<>>} \union {<<a>> : a \in S} \union {<<a, b>> : a, b \in S}

\* What it asks for depends on the operation: a backup writes the backup directory, a
\* restore and an unback read it, a change of the password leaves it alone.  What it may send
\* behind the rest of an upload is one with it, as long as there is any.
DeviceAsks ==
  /\ conn = "open" /\ dev = "idle" /\ ~Astray
  /\ \/ /\ \E kind \in {"space", "purge", "list", "mkdir", "badList", "unknown"} : Ask(<<Item(kind)>>, "wait", 1)
        /\ UNCHANGED <<batch, saved>>
     \/ /\ cmd \notin PasswordCmds
        /\ \E fs \in UpTo2(Files) : Ask(<<[kind |-> "download", files |-> fs]>>, "path", Len(fs) + 1) /\ UNCHANGED <<batch, saved>>
     \/ /\ cmd \in {"backup", "unback"}
        /\ \E kind \in {"move", "copy"}, s, d \in Files :
             s # d /\ Ask(<<[kind |-> kind, src |-> s, dst |-> d]>>, "wait", 1)
        /\ UNCHANGED <<batch, saved>>
     \/ /\ cmd = "backup"
        /\ \E fs \in SUBSET Files : Ask(<<[kind |-> "remove", set |-> fs]>>, "wait", 1) /\ UNCHANGED <<batch, saved>>
     \/ /\ cmd = "backup"
        /\ \E us \in UpTo2([file : Files, fails : BOOLEAN]) :
          /\ \A i, j \in DOMAIN us : us[i].file = us[j].file => i = j
          /\ Ask(Upload(us), "wait", Len(us) + 1)
          /\ batch' = {us[i].file : i \in {j \in DOMAIN us : ~us[j].fails}}
          /\ saved' = saved \ {us[i].file : i \in DOMAIN us}
  /\ UNCHANGED <<pc, cmd, quit, conn, lockVars, disk, encrypts, apps, nlen, name, pending, todo,
                 sent, total, status, result, outcome, refused, unanswered, local, garbled, stalled>>

DeviceEnds ==
  /\ conn = "open" /\ dev = "idle" /\ ~Astray /\ dev' = "ended"
  /\ \/ \E r \in {"ok", "error", "none"} : inbox' = Append(inbox, [kind |-> "process", result |-> r])
     \/ inbox' = Append(inbox, Item("disconnect"))
  /\ UNCHANGED <<pc, cmd, quit, conn, lockVars, disk, encrypts, apps, nlen, name, pending, todo,
                 sent, total, status, result, outcome, asks, batch, histVars>>

\* what is under way arrives up to some point, which may be in the middle of a record
DeviceLost ==
  /\ conn = "open" /\ pc \notin {"args", "free", "done"} /\ conn' = "lost" /\ Dropped
  /\ \E k \in 0..Len(inbox) :
       \/ inbox' = SubSeq(inbox, 1, k)
       \/ k < Len(inbox) /\ inbox' = Append(SubSeq(inbox, 1, k), Item("cut"))
  /\ UNCHANGED <<pc, cmd, quit, lockfile, tries, posted, disk, encrypts, apps, nlen, name, pending,
                 todo, sent, total, status, result, outcome, devVars, histVars>>

\* A receive in the middle of a record waits for longer than it may, and gets what has come.
DeviceStalls ==
  /\ conn = "open" /\ inbox # <<>> /\ ~Astray
  /\ pc \in {"dname", "fname", "header", "data"} \/ (pc = "leftover" /\ nlen > 1)
  /\ inbox' = <<Rest>> /\ stalled' = TRUE
  /\ UNCHANGED <<pc, cmd, quit, conn, lockVars, disk, encrypts, apps, nlen, name, pending, todo, sent, total,
                 status, result, outcome, devVars, saved, refused, unanswered, local, garbled>>

\* another program changes the file that is being sent
LocalChange ==
  /\ pc = "hunk" /\ ~local /\ local' = TRUE
  /\ \E n \in 0..HunkMax + 1 : n # disk[Head(todo)] /\ disk' = [disk EXCEPT ![Head(todo)] = n]
  /\ UNCHANGED <<pc, cmd, quit, conn, lockVars, encrypts, apps, ioVars, result, outcome, devVars, saved,
                 refused, unanswered, garbled, stalled>>

World ==
  /\ OtherLock \/ Quit
  /\ UNCHANGED <<disk, encrypts, apps, ioVars, result, outcome, devVars, histVars>>

Tool ==
  \/ Args \/ Connect \/ Hello \/ Lock \/ Checkpoint
  \/ ReceiveNothing \/ HandlePlain \/ HandleFiles \/ HandleEnd \/ FilesOut
  \/ HandleSendFiles \/ SendPath \/ SendHunk
  \/ HandleReceiveFiles \/ RecvName \/ RecvHeader \/ RecvData \/ Leftover
  \/ Report \/ Finish \/ Free

Next == Tool \/ DeviceAsks \/ DeviceEnds \/ DeviceLost \/ DeviceStalls \/ LocalChange \/ World

\* The tool is one thread; every receive and every attempt at the lock ends in time.
Spec == Init /\ [][Next]_vars /\ WF_vars(Tool)

-----------------------------------------------------------------------------
(* Properties *)

\* The variables have their types, and what the tool has read of a record never exceeds
\* what the record announced (mb2_handle_receive_files).
TypeOK ==
  /\ LockTypeOK /\ cmd \in Cmds \union {"leave"}
  /\ pc \in {"args", "connect", "hello", "checkpoint", "open", "lock", "request", "loop", "out", "path", "hunk",
             "dname", "fname", "header", "data", "leftover", "report", "unlock", "free", "done"}
  /\ \A f \in Files : disk[f] \in Nat \union {Absent}
  /\ encrypts \in BOOLEAN /\ apps \in BOOLEAN
  /\ nlen \in 0..HunkMax + 1 /\ name \in Files
  /\ pending <= nlen /\ status \in {0, 1}
  /\ result \in {"none", "ok", "error"} /\ outcome \in {"none", "success", "failed", "aborted"}
  /\ dev \in {"quiet", "idle", "wait", "path", "file", "ended", "confused"} /\ asks \in 0..MaxAsks
  /\ batch \subseteq Files /\ saved \subseteq Files

\* Host and device agree on where in the stream they are: the tool takes file data for
\* something else only after it was told to quit, a file could not be opened, or the device
\* was silent in the middle of an upload (mb2_handle_receive_files), and the device gets a
\* record that is none only when a file changed while it was sent (mb2_handle_send_file).
InStep == /\ garbled => (quit \/ refused \/ stalled)
          /\ dev = "confused" => local

\* Each request that the tool can read gets its one status response before the tool waits
\* for the next message: it never waits for a device that waits for it.
Answered ==
  (pc = "loop" /\ inbox = <<>> /\ conn = "open" /\ ~unanswered)
    => dev \notin {"wait", "path", "file"}

\* A backup is reported as successful only when the device said so, Status.plist is there in
\* full, and so is every file the device was told is saved, unless a write failed, which
\* nobody looks at, or the device was silent for too long.
BackupTrue ==
  (cmd = "backup" /\ outcome = "success")
    => /\ result = "ok"
       /\ Finished
       /\ ~local /\ ~stalled => \A f \in saved : disk[f] = SizeOnDevice[f]

\* The device works on a backup or a restore under the lock, if the tool could open the lock
\* file at all, and the tool leaves the lock behind on no path.
LockCovers ==
  /\ (lockfile /\ conn = "open" /\ cmd \in {"backup", "restore"} /\ dev \notin {"quiet", "ended"} /\ pc # "done")
       => holder = "tool"
  /\ pc \in {"free", "done"} => ~lockfile /\ holder # "tool"

\* Once it has been told to quit the tool comes to its end, wherever it is and whatever the
\* device does.
QuitEnds == quit ~> pc = "done"
===============================================================================
